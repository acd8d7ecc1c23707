------------------------------ MODULE PonoMain ------------------------------
(***************************************************************************)
(* The main program (pono.cpp): a file is read, the options' passes change *)
(* the system and the property, an engine answers for what came out, and   *)
(* the answer is given for the file.  The engines are external here and    *)
(* known by what they promise; their own modules are about that.           *)
(***************************************************************************)
EXTENDS Modifiers, Encoders

CONSTANTS Scenarios,   \* pairs of a file and pono_options
          Depth        \* steps after which no system of Files has new states

VARIABLES
  file,         \* the input file
  opts,         \* pono_options
  pc,           \* what check_prop and main do next
  enc,          \* the encoder
  ts, prop,     \* the system and the property as they are now
  hasMonitor,   \* has_monitor
  sim,          \* the states simulate_and_dump wrote, or <<>>
  cex,          \* the counterexample, a sequence of [state, input]
  invar,        \* the states of the invariant
  printed,      \* what is printed of the counterexample
  verdict       \* "none", "sat", "unsat", "unknown" or "error"

ponoVars == <<file, opts, pc, enc, ts, prop, hasMonitor, sim, cex, invar, printed, verdict>>

PonoStart(sc) ==
  /\ file = sc[1] /\ opts = sc[2]
  /\ pc = "parse"
  /\ enc = NewEncoder(TRUE, <<>>)
  /\ ts = FreshTs(TRUE, <<>>)
  /\ prop = True
  /\ hasMonitor = FALSE
  /\ sim = <<>>
  /\ cex = <<>>
  /\ invar = {}
  /\ printed = <<>>
  /\ verdict = "none"

PonoInit == \E sc \in Scenarios : PonoStart(sc)

\* A pass ends with a new system: its exceptions are caught in main.
Pass(new, next) ==
  /\ ts' = new
  /\ IF new.failure = "none"
     THEN pc' = next /\ UNCHANGED verdict
     ELSE pc' = new.failure /\ verdict' = "error"

Throw == Pass(Fail(ts, "exception"), "done")

-----------------------------------------------------------------------------
Parse ==
  /\ pc = "parse"
  /\ enc' = Encode(file)
  /\ Pass(enc'.ts, "select")
  /\ UNCHANGED <<file, opts, prop, hasMonitor, sim, cex, invar, printed>>

SelectProp ==
  /\ pc = "select"
  /\ IF opts.propIdx >= Len(enc.props)
     THEN Throw /\ UNCHANGED prop
     ELSE /\ prop' = enc.props[opts.propIdx + 1]
          /\ pc' = IF opts.simulate > 0 /\ file.format = "btor2" THEN "simulate" ELSE "clock"
          /\ UNCHANGED <<ts, verdict>>
  /\ UNCHANGED <<file, opts, enc, hasMonitor, sim, cex, invar, printed>>

InputsOf(sys) == Valuations(sys.inputvars, sys.sort)

\* simulate_and_dump: any run of so many steps, and none if there is none.
Simulations ==
  LET runs[k \in 0..opts.simulate] ==
        IF k = 0 THEN { <<s>> : s \in InitialStates(ts) }
        ELSE UNION { { Append(r, t) : t \in UNION { Post(ts, Last(r), in) : in \in InputsOf(ts) } } :
                       r \in runs[k - 1] }
  IN  runs[opts.simulate]

SimulateAndDump ==
  /\ pc = "simulate"
  /\ sim' \in IF Simulations = {} THEN {<<>>} ELSE Simulations
  /\ pc' = "clock"
  /\ UNCHANGED <<file, opts, enc, ts, prop, hasMonitor, cex, invar, printed, verdict>>

\* lookup throws for a name no term has.
Clock ==
  /\ pc = "clock"
  /\ IF opts.clock = "" THEN Pass(ts, "reset")
     ELSE Pass(Try(ts, opts.clock \in DOMAIN ts.named, ToggleClock(ts, opts.clock)), "reset")
  /\ UNCHANGED <<file, opts, enc, prop, hasMonitor, sim, cex, invar, printed>>

\* opts.resetNegative: the name was given after a ~.
Reset ==
  LET signal == Var(opts.reset)
      active == IF opts.resetNegative THEN Not(signal) ELSE signal
  IN  /\ pc = "reset"
      /\ IF opts.reset = "" THEN Pass(ts, "coi") /\ UNCHANGED prop
         ELSE /\ Pass(Try(ts, opts.reset \in DOMAIN ts.named /\ ts.sort[opts.reset] = 1,
                          AddResetSeq(ts, active, opts.resetBound)), "coi")
              /\ prop' = Implies(ResetDone(opts.resetBound), prop)
      /\ UNCHANGED <<file, opts, enc, hasMonitor, sim, cex, invar, printed>>

StaticCoi ==
  /\ pc = "coi"
  /\ Pass(IF opts.staticCoi THEN StaticConeOfInfluence(ts, {prop}) ELSE ts, "pseudo")
  /\ UNCHANGED <<file, opts, enc, prop, hasMonitor, sim, cex, invar, printed>>

PseudoInit ==
  /\ pc = "pseudo"
  /\ IF opts.pseudoInit
     THEN LET new == PseudoInitAndProp(ts, prop)
          IN  Pass(new.ts, "promote") /\ prop' = new.prop
     ELSE Pass(ts, "promote") /\ UNCHANGED prop
  /\ UNCHANGED <<file, opts, enc, hasMonitor, sim, cex, invar, printed>>

\* IC3SA expects state variables only.
Promote ==
  /\ pc = "promote"
  /\ Pass(CASE opts.promote \/ opts.engine = "ic3sa" -> PromoteInputvars(ts, ts.inputvars)
            [] ~opts.promote /\ opts.engine # "ic3sa" ->
                 IF ~OnlyCurr(ts, prop) /\ NoNext(ts, prop)
                 THEN PromoteInputvars(ts, FreeSymbols(prop)) ELSE ts, "monitor")
  /\ UNCHANGED <<file, opts, enc, prop, hasMonitor, sim, cex, invar, printed>>

\* add_prop_monitor, and the assertion after it.
Monitor ==
  /\ pc = "monitor"
  /\ IF OnlyCurr(ts, prop) THEN Pass(ts, "assume") /\ UNCHANGED <<prop, hasMonitor>>
     ELSE LET new == AddPropMonitor(ts, prop)
          IN  /\ Pass(new.ts, "assume") /\ prop' = new.prop /\ hasMonitor' = TRUE
  /\ UNCHANGED <<file, opts, enc, sim, cex, invar, printed>>

AssumeProp ==
  /\ pc = "assume"
  /\ Pass(IF opts.assumeProp THEN PropInTrans(ts, prop) ELSE ts, "engine")
  /\ UNCHANGED <<file, opts, enc, prop, hasMonitor, sim, cex, invar, printed>>

-----------------------------------------------------------------------------
(* What the engines promise about the system and property they get.        *)

\* The states first reached after k steps.
FirstReached(sys) ==
  LET after(s) == UNION { Post(sys, s, in) : in \in InputsOf(sys) }
      step(acc, k) ==
        LET new == UNION { after(s) : s \in Last(acc.layers) } \ acc.seen
        IN  [layers |-> Append(acc.layers, new), seen |-> acc.seen \cup new]
      start == InitialStates(sys)
  IN  FoldLeft(step, [layers |-> <<start>>, seen |-> start], [k \in 1..Depth |-> k]).layers

\* A run to a state in the last of the layers.
RunTo(sys, layers, last) ==
  LET none == CHOOSE in \in InputsOf(sys) : TRUE
      before(run, layer) ==
        LET t == Head(run).state
            step == CHOOSE x \in layer \X InputsOf(sys) : t \in Post(sys, x[1], x[2])
        IN  <<[state |-> step[1], input |-> step[2]]>> \o run
  IN  FoldLeft(before, <<[state |-> last, input |-> none]>>, Reverse(Front(layers)))

Violating(sys, p, states) == { s \in states : ~Holds(p, s) }

Bound == opts.bound + (IF hasMonitor THEN 1 ELSE 0)

\* check_until(bound_ + has_monitor) and the invariant of the answer TRUE.
Engine ==
  /\ pc = "engine"
  /\ \E layers \in {FirstReached(ts)} :
       LET bad == { k \in 1..Len(layers) : Violating(ts, prop, layers[k]) # {} }
           shortest == CHOOSE k \in bad : \A j \in bad : k <= j
       IN  \/ /\ bad # {} /\ shortest - 1 <= Bound
              /\ \E s \in Violating(ts, prop, layers[shortest]) :
                   cex' = RunTo(ts, SubSeq(layers, 1, shortest), s)
              /\ pc' = "witness" /\ UNCHANGED invar
           \/ /\ bad = {}
              /\ invar' = UNION Range(layers)
              /\ pc' = "invar" /\ UNCHANGED cex
           \/ /\ bad # {} => shortest - 1 > Bound
              /\ pc' = "unknown" /\ UNCHANGED <<cex, invar>>
           \/ /\ opts.engine = "faulty"
              /\ invar' \in { {}, layers[1], layers[1] \cup layers[2],
                              { s \in Valuations(ts.statevars, ts.sort) : Holds(prop, s) } }
              /\ pc' = "invar" /\ UNCHANGED cex
  /\ UNCHANGED <<file, opts, enc, ts, prop, hasMonitor, sim, printed, verdict>>

\* The steps the passes put before and after the file's own.
WithoutAddedSteps(run) ==
  LET erased == IF opts.pseudoInit THEN Tail(run) ELSE run
  IN  IF hasMonitor THEN Front(erased) ELSE erased

Witness ==
  /\ pc = "witness"
  /\ cex' = WithoutAddedSteps(cex)
  /\ pc' = "print"
  /\ UNCHANGED <<file, opts, enc, ts, prop, hasMonitor, sim, invar, printed, verdict>>

\* check_invar
InvarPasses ==
  /\ InitialStates(ts) \subseteq invar
  /\ \A s \in invar, in \in InputsOf(ts) : Post(ts, s, in) \subseteq invar
  /\ Violating(ts, prop, invar) = {}

CheckInvar ==
  /\ pc = "invar"
  /\ IF opts.checkInvar /\ ~InvarPasses THEN Throw
     ELSE pc' = "unsat" /\ UNCHANGED <<ts, verdict>>
  /\ UNCHANGED <<file, opts, enc, prop, hasMonitor, sim, cex, invar, printed>>

-----------------------------------------------------------------------------
Shown(env, symbols) == Restrict(env, symbols \cap DOMAIN env)

\* Seeded fault: states without a next function are printed for time 0 only.
OnlyFirstFrame(run) ==
  [ start  |-> Shown(run[1].state, enc.states \ enc.initialized),
    free   |-> [k \in 2..Len(run) |-> <<>>],
    inputs |-> [k \in 1..Len(run) |-> Shown(run[k].input @@ run[k].state, enc.inputs)] ]

\* print_witness_btor: the states that are not initialised, then the states
\* without a next function and the inputs of each step, as far as they are
\* still in the system.
Btor2Witness(run) ==
  [ start  |-> Shown(run[1].state, enc.states \ enc.initialized),
    free   |-> [k \in 2..Len(run) |-> Shown(run[k].state, enc.noNext)],
    inputs |-> [k \in 1..Len(run) |-> Shown(run[k].input @@ run[k].state, enc.inputs)] ]

Report ==
  /\ pc \in {"print", "unsat", "unknown"}
  /\ printed' = IF pc # "print" THEN <<>>
                ELSE IF file.format = "btor2" THEN Btor2Witness(cex) ELSE cex
  /\ verdict' = IF pc = "print" THEN "sat" ELSE pc
  /\ pc' = "done"
  /\ UNCHANGED <<file, opts, enc, ts, prop, hasMonitor, sim, cex, invar>>

PonoNext ==
  \/ Parse \/ SelectProp \/ SimulateAndDump \/ Clock \/ Reset \/ StaticCoi \/ PseudoInit
  \/ Promote \/ Monitor \/ AssumeProp \/ Engine \/ Witness \/ CheckInvar \/ Report

PonoSpec == PonoInit /\ [][PonoNext]_ponoVars

-----------------------------------------------------------------------------
(* The file's meaning under the options --clock and --reset.               *)

\* At time k the clock is k modulo 2, and reset is active for the first
\* resetBound steps only.
Environment(s, in, k) ==
  LET both == s @@ in
  IN  /\ opts.clock # "" => both[opts.clock] = k % 2
      /\ opts.reset # "" =>
           (both[opts.reset] = IF opts.resetNegative THEN 0 ELSE 1) <=> k < opts.resetBound

FileProp == PropertyTerms(file)[opts.propIdx + 1]

\* Whether the file's property is violated at some time up to n.
FileViolated(n) ==
  LET after == [s \in FileStates(file) |->
                 [in \in FileInputs(file) |-> { t \in FileStates(file) : MayStep(file, s, in, t) }]]
      may(s, in, k) == Legal(file, s, in) /\ Environment(s, in, k)
      step(acc, k) ==
        [ states |-> UNION { UNION { IF may(s, in, k) THEN after[s][in] ELSE {} :
                                       in \in FileInputs(file) } : s \in acc.states },
          found  |-> \/ acc.found
                     \/ /\ opts.reset = "" \/ k >= opts.resetBound
                        /\ \E s \in acc.states, in \in FileInputs(file) :
                             may(s, in, k) /\ Violated(file, FileProp, s, in) ]
      start == [states |-> { s \in FileStates(file) : MayStart(file, s) }, found |-> FALSE]
  IN  FoldLeft(step, start, [k \in 1..n + 1 |-> k - 1]).found

-----------------------------------------------------------------------------
(* Properties.                                                             *)

\* The answer is about the file: whatever passes ran, sat means that some run
\* of the file violates the property, unsat that none does, and unknown that
\* none does within the bound, less the steps the passes add.  An engine that
\* may be wrong (the runs of IC3 show how) is only trusted when its invariant
\* is checked.
VerdictIsFiles ==
  /\ verdict = "sat" => FileViolated(Depth)
  /\ verdict = "unsat" /\ (opts.engine # "faulty" \/ opts.checkInvar) => ~FileViolated(Depth)
  /\ verdict = "unknown" => ~FileViolated(opts.bound - IF opts.pseudoInit THEN 2 ELSE 0)

\* What a simulator of the file makes of a printed BTOR2 witness.
Replayed(w) ==
  LET start == FoldLeft(
        LAMBDA s, l : IF l.tag = "init" THEN (l.symbol :> Eval(l.term, s)) @@ s ELSE s,
        [v \in DOMAIN StateWidths(file) |-> IF v \in DOMAIN w.start THEN w.start[v] ELSE 0],
        file.lines)
      input(k) == [v \in DOMAIN InputWidths(file) |->
                     IF v \in DOMAIN w.inputs[k] THEN w.inputs[k][v] ELSE 0]
      next(s, k) ==
        [v \in DOMAIN s |->
           IF \E l \in LinesOf(file, "next") : l.symbol = v
           THEN Eval((CHOOSE l \in LinesOf(file, "next") : l.symbol = v).term, s @@ input(k - 1))
           ELSE IF v \in DOMAIN w.free[k] THEN w.free[k][v] ELSE 0]
      step(run, k) == Append(run, [state |-> next(Last(run).state, k), input |-> input(k)])
  IN  FoldLeft(step, <<[state |-> start, input |-> input(1)]>>,
               [k \in 1..Len(w.inputs) - 1 |-> k + 1])

\* A run to a violation; --reset says nothing of the input of its last state.
FileRun(run) ==
  LET states == DOMAIN StateWidths(file)
      inputs == DOMAIN InputWidths(file)
      s(k)   == Restrict(run[k].state, states)
      in(k)  == Restrict(run[k].input @@ run[k].state, inputs)
      n      == Len(run)
  IN  /\ MayStart(file, s(1))
      /\ \A k \in 1..n : Legal(file, s(k), in(k))
      /\ \A k \in 1..n - 1 : /\ Environment(s(k), in(k), k - 1)
                             /\ MayStep(file, s(k), in(k), s(k + 1))
      /\ Violated(file, FileProp, s(n), in(n))

\* The counterexample that is printed, without the steps the passes added and
\* the symbols they removed, is a run of the file to a violation.
WitnessReplays ==
  verdict = "sat" => FileRun(IF file.format = "btor2" THEN Replayed(printed) ELSE printed)
=============================================================================
