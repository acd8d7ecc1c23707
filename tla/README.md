# Pono in TLA+

Pono is an SMT-based model checker: it reads a transition system (BTOR2, SMV,
VMT, CoreIR) and a property, and answers TRUE, FALSE (with a witness) or
UNKNOWN. This directory models the way from the command line and the file to
the answer and the witness: the readers, the passes over the system, the
engines, the unrollers and the printers. TLC checks it on small systems; TLAPS
proves for every system that the answers of the engines are right (IC3 over
bits, over words and with predicate abstraction, BMC, k-induction, the three
interpolation engines, the CEGAR loops and the liveness provers), that the
options mean what their help says, and that a counterexample stays one on its way
to the client and onto the waveform.

A model checker has no users that race each other. What makes its code hard is
*incrementality* and *translation*. Frames, clauses, unrollings, selectors,
solver frames and reached bounds survive from one query to the next, and an
answer is right only if everything left behind by earlier queries is still
true. A system goes through many hands (parser, flattening, second parser, cone
of influence, promotion, monitor, abstraction, unrolling) and a trace comes all
the way back; each hand must keep what the next one relies on. The properties
below are about that.

## The system

| part | state it keeps | operations | interacts with |
|---|---|---|---|
| options (`options`) | the fields of `PonoOptions` | read the command line, one option at a time | read by everything |
| frontends (`frontends`) | the file being read, names, lists of the current case | parse, flatten modules, build the system | transition systems, a solver in another thread (SMV cases) |
| transition systems (`core/ts`, `fts`, `rts`, `prop`) | init, trans, variables, updates, constraints, `deterministic_` | add variables, updates, constraints; promote inputs; COI rebuild | frontends and modifiers write, engines read |
| modifiers (`modifiers`, `utils`) | none (system to system) | control signals, COI, pseudo init, monitor, promotion, abstraction, history and prophecy variables | `pono.cpp` and the CEGAR loops |
| `pono.cpp` | options, the termination flag | the pipeline, signal handler, output | everything |
| unrollers (`core/unroller`, `core/functional_unroller`) | a cache of timed variables per step | `at_time`, `untime` | every engine |
| prover base (`engines/prover`) | `reached_k_`, `bad_`, `witness_`, `invar_` | `initialize`, `reset_env`, `prove`, `check_until`, `witness` | all engines derive from it |
| IC3 core (`engines/ic3base`) | `frames_`, solver labels, proof goal queue, `cex_` | `step`, `block_all`, `rel_ind_check`, generalisation, `propagate`, `reset_solver` | virtual methods of the flavours; the flag of `pono.cpp` |
| IC3 flavours (`ic3`, `ic3ia`, `ic3sa`, `syguspdr`, `ic3bits`, `mbic3`, `msat_ic3ia`) | predicates, term abstractions, partial models, terms | model to cube, predecessor generalisation, `refine` | IC3 core, interpolator, operator abstractors |
| BMC (`engines/bmc`) | unrolling and clauses in the solver, `bin_search_frames_` | interval steps, three searches | CEGAR loops |
| k-induction (`kinduction`, `bmc_simplepath`) | unrolling, simple path clauses, selectors | inductive and base case checks | CEGAR loops |
| interpolation (`interpolantmc`, `interp_seq_mc`, `dual_approx_reach`) | reached sets, interpolation sequences | `step` | interpolator |
| CEGAR (`cegar_values`, `cegar_ops_uf`, `ceg_prophecy_arrays`, `refiners`) | abstract system, axioms | `check_until`, `cegar_refine` | wraps any engine, or another loop |
| liveness (`kliveness`, `liveness_to_safety_translator`) | counter, monitor, lasso | `check_until`, lasso detection | a fresh engine per count, BMC in lockstep |
| printers (`printers`) | last value of each signal | write BTOR2 and VCD witnesses | the trace of the engine |

What is hard, and for each component the property that makes it correct:

* *IC3*: one step changes frames, labels, goals and depth in many places; a
  clause is learnt under assumptions about the frame below that a later
  subsumption, propagation, solver reset, refinement or signal must not break.
  Correct when frames over-approximate what their depth reaches, the solver
  holds what the data structure says, goals are where they can still matter,
  TRUE comes with an inductive invariant, FALSE with a run, and it ends.
* *IC3SA, SyGuS-PDR*: a goal stands for more states than the model it came
  from. Correct when what was left out does not matter for the step, and when
  lemmas and axioms hide no way to a bad state.
* *BMC*: permanently negated states and a search that pushes and pops. Correct
  when no bound is claimed that has a counterexample and the searches end
  where they should.
* *K-induction*: four queries per bound over clauses switched by selectors.
  Correct when no clause hides a counterexample and the simple path check makes
  it complete.
* *Interpolation*: sets and sequences strengthened by interpolants of different
  bounds, solver levels pushed in one function and popped in another. Correct
  when the sets go on over-approximating and the prover's contract is kept.
* *CEGAR*: the system changes under an engine that is restarted or goes on,
  loops run inside loops, axioms over prophecy variables count their delay from
  a bound. Correct when TRUE and FALSE are about the concrete system and each
  refinement excludes the trace it came from.
* *Liveness*: counts, a lasso test on traces found for another property, a BMC
  beside it. Correct when TRUE means no fair run, FALSE a lasso, and counting
  far enough decides.
* *Frontends*: the SMV reader writes a flat module as text and reads it again;
  BTOR2 has one sort where the solver has two. Correct when the system built is
  the file's.
* *Passes and printers*: correct when the verdict is the file's, the witness
  printed replays on the file, and the waveform shows the trace.
* The asynchrony is the SIGTERM/SIGINT handler, which sets a flag that IC3
  polls, and the solver thread of the SMV case check with its timeout. There
  are no messages and nothing is persisted, so crash recovery and delivery are
  not topics here.

`PROJECT.json` lists the components with their status and the hazards line by
line.

## Modules

| module | models |
|---|---|
| `TransSys` | systems and formulas as sets of states, as engines see them through a solver |
| `IC3Base`, `IC3`, `IC3IA` | `engines/ic3base.cpp` and the flavours of those names |
| `MBIC3` | `engines/mbic3.cpp`: model-based IC3 over words; `IC3` over the bits of a word is `ic3bits.cpp` |
| `IC3SA` | `engines/ic3sa.cpp`: term abstraction, justified projection, both refinements |
| `SygusPdr` | terms and predicates of SyGuS-PDR; `engines/syguspdr.cpp`, `utils/partial_model.cpp`, the operator abstraction by inputs |
| `Bmc`, `KInduction` | the engine of that name |
| `SafetyProver` | the abstract specification of `engines/prover.h`: what TRUE, FALSE, UNKNOWN, `reached_k_` and `witness_length()` promise |
| `InterpEngine`, `InterpolantMC`, `InterpSeqMC`, `DualApproxReach`, `Engines` | what the interpolation engines share, each of them, and their composition with k-induction behind one interface |
| `CegarBase`, `CegProphecyArrays`, `CegarEngines` | abstract systems and axioms; the array loop with its axiom enumeration; the loops over operators and values, alone and around the array loop |
| `Liveness` | `kliveness.cpp` and the liveness to safety translation |
| `TransitionSystem` | terms, the class `TransitionSystem` with its bookkeeping and the unrollers' caches, as operators from object to object |
| `Modifiers`, `Encoders`, `PonoMain` | passes from system to system; how the three readers build a system from declarations; the main program |
| `Options` | the command line |
| `Unrolling` | both unrollers at work while the system grows (their caches are operators of `TransitionSystem`) |
| `Witness` | a counterexample from the engine through `prover.cpp` to BTOR2 and VCD text |
| `SmvModules`, `SmvEncoder` | SMV expressions and their precedences; modules written out as text; the encoder with its two readings and the case check |
| `Btor2Encoder` | every operator of the BTOR2 encoder; its line types and names |
| `MC*` | instances for TLC |
| `TransSysProofs` | what the proofs use of numbers, recursion and paths |
| `IC3Proofs`, `IC3IAProofs` | theorems about the IC3 engines: the shared steps, over bits and over words; with predicate abstraction |
| `BmcProofs`, `EngineProofs` | theorems about BMC; about k-induction and the interpolation engines |
| `CegarProofs`, `LivenessProofs` | theorems about the CEGAR loops and the liveness provers |
| `ProgramProofs` | theorems about the options, the witness and the waveform |

There are two kinds of module, and two ways to see a formula.

**Sets of states.** In the engines proper (`TransSys`, IC3, BMC, k-induction,
interpolation, CEGAR, liveness) a formula over current state variables is the
set of states that satisfy it, a transition relation a set of pairs, inputs are
projected away, and the solver is exact and external: a satisfiable query may
return any model, an unsatisfiable one any core, an interpolant is any set with
the defining property. One action is the code between two answers that decide
what happens next (in IC3 also between two polls of the flag). Solvers that
answer unknown are outside, except where the code has an outcome of its own for
it (`RefineFail`).

**Terms.** Where the code *is* about terms (frontends, passes, unrollers,
IC3SA, SyGuS-PDR) they are trees, `<<op, args...>>`, built by the same
constructors in the same order, and evaluated by `Eval`. These modules compare
what the built system means with what the file means, which is defined
separately from how it is read.

The rest of this section says how state and actions correspond to the code.

**IC3Base.** The variables carry the names of the members: `frames` is
`frames_`, `asserted` what the solver holds under `frame_labels_`, `goals` the
`ProofGoalQueue` (with the chain of `next` pointers spelt out), `cur` the local
`collateral` while it is generalised and pushed up, `at`/`todo` the loop of
`propagate`, `terminate` the flag. `pc` tells where the call is:

    idle -> loop -> blocking <-> goal -> indgen -> highest -> goal ...
                 \                 \-> refine -> done | loop | idle
                  \-> refine        blocking/goal -> propagate -> loop | done

`CheckUntil` may be called again after UNKNOWN, as the API allows. `Cores`
stands for the unsat branch of `rel_ind_check`: a core, with literals put back
until it excludes the initial states; when the cube itself overlaps them the
code can only assert, so the model lets the core through as the Release build
does (`configure.sh` builds Release by default). A frame clause is kept as the
cube it negates; comparisons of cubes are syntactic where the code's are.

**IC3IA** replaces `trans` by the abstraction over `preds` and adds the three
outcomes of `refine()`. Each sequence interpolant counts as one atom; with
interpolants of several atoms the code adds more predicates at once, which the
model reaches over several refinements.

**MBIC3.** A cube says which values the words have and which of them are equal
(`WordCube`); the equalities are split into bounds before a predecessor is
reduced or, with `--mbic3-indgen-mode` 1 and 2, a cube generalised by a core or
by an interpolant. The other steps are IC3Base's, and the actions that ask for a
model or generalise have their own form (`Word...`). The words tell the states
apart, so the atoms of cubes (`Atoms`) do. Where a cube meets the
relation its label is asserted, so the label as a literal is `States`
(`TransLabel`). With that preimage the other modes would hand the reducer or
the interpolator a label it does not know, and are left out.

**IC3SA.** A cube is the partition of the terms by their values in a model
(`EquivalenceClasses`), projected on the variables that justify the step
(`JustifyCoi`, `IsControlled`). `Generalize` prepends a predecessor, and any
chain of predecessors is taken instead of the frames of IC3Base. `RefineFunctional`
is the BMC-like unrolling and its lemma, `RefineValue` the walk with concrete
values; `LearnLemma` makes a path axiom a constraint or a predicate.

**SygusPdr.** The frames hold lemmas; a goal is a partial state
(`PartialModel`), with the position from which it was pushed. The may-block
attempts, the terms that grow by stages and the repeated attempt after an
extension are actions of their own. With `opLevel = 1` the results of costly
operators are inputs and `refine()` adds what they must be.

**Bmc** keeps the solver's stack of assertion frames: what is popped is gone.
`Refine` is the environment of a CEGAR loop, reduced to what BMC sees of it.
`bin_search_frames_` is an `unsigned int`; its wrap-around is the value
`Wrapped`. **KInduction** keeps the pairs of times with a simple path clause and
the times where the initial states are negated.

**The interpolation engines** have the same `check_until` and `reset_env`
(`InterpEngine`); their state is named after the members (`R`, `reach_seq_`,
`forward_seq_` ...). A sequence interpolant must also contain the successors of
the one before it: a duty of the interpolator that the debug check
`check_itp_sequence` does not test and without which a fixed point proves
nothing. The interpolator may throw at any call; the engines leave their
sequences and solver levels half changed then, so the models end there.

**SafetyProver** is the contract. The interpolation engines and k-induction are
shown to implement it: the abstract state is `sys`, `reached_k_` and the answer,
and every step is progress by bounds without a counterexample, an answer that is
right, or a stutter. CEGAR, liveness and the main program use an engine only
through what the contract promises.

**The CEGAR loops.** An abstract state is a valuation of variables,
uninterpreted functions and frozen constants. An axiom says that something
abstract means what it stands for: over one state, over a step, over a prophecy
variable that predicts an index some steps before the violation. Which axioms
are conjoined, at which length, whether the prover underneath is restarted or
goes on, and the minimal axioms of a core are as in the code.

**Liveness.** `KLiveness` with its three counter encodings, the lasso test and
BMC in lockstep, over a fresh safety prover per count; the counter's width is
computed as the code does.

**TransitionSystem, Modifiers, PonoMain.** An object is a record; a method is an
operator that changes it, and an exception or a failed assertion is recorded in
it and ends whatever follows. `PonoMain` is a sequence of actions, one per step
of `main` and `check_prop`: encode, signals, cone of influence, pseudo initial
state, promotion, monitor, assumption, engine, invariant check, witness. The
engine there is any that keeps the contract, or a faulty one whose invariants
`--check-invar` has to catch.

**Unrolling.** Each time has its own cache, refreshed when the number of
variables has grown; the functional unroller writes a state variable as a term
over earlier symbols and cuts every `interval_` steps.

**Witness.** What the solver's model says, `compute_witness` of each class that
has one, `witness()`, the transfer to the encoder's terms, and the text: which
lines of a BTOR2 witness are printed, which signals VCD declares under which
names and which value changes it dumps, arrays included.

**The frontends.** SMV texts are token sequences that are read by the tables
bison makes of the grammar and its precedences; every reduction builds a typed
term as the action does, cases included. Modules become text, by
substitution of an argument's text for its parameter, and the text is read
again. The case check runs beside the encoder with a timeout. BTOR2 lines go
through the special cases, the tables and the conversions between BOOL and
bit-vectors of width 1.

Definitions whose comment starts with *Seeded fault* are not part of any
specification. Each is a plausible mistake in the definition that follows it;
putting it in that definition's place must make a property fail, which shows
the property is sensitive to the code.

## Runs

| run | result | what it shows |
|---|---|---|
| `MCIC3` | passes | bit-level and model-based IC3 with generalisation, pregeneralisation, solver reset and a signal at any moment: goals step into the goals they were made for, `FramesSound`, `LabelsMatchFrames`, `TrueIsSound`, `FalseHasWitness`, `FramesOnlyStrengthen`, and every call returns |
| `MCIC3IA` | passes | IC3IA with refinement, predicate reduction and a signal at any moment: goals stay outside the frame below, TRUE is concrete, every refinement rules its trace out |
| `MCBmc` | passes | intervals, negated states, three searches, CEGAR resets: the shortest counterexample is not lost, searches pop what they pushed, calls return |
| `MCEngines` | passes | k-induction with every combination of the `--kind-*` options and the interpolation engines with resets, failures and every option implement `SafetyProver`; k-induction decides at the diameter; no assertion fires; invariants are inductive |
| `MCCegar` | passes | the stacks of loops, over functional and relational systems: what they answer is about the concrete system, and what is learnt excludes the trace it was learnt from. That the loops return is not checked |
| `MCLiveness` | passes | TRUE and FALSE are about fair runs; counting past the number of states decides |
| `MCProgram` | passes | four parts: options mean what the help says; the verdict is the file's and the witness replays on it; timed copies and functional unrolling mean the steps; the witness is a counterexample and the waveform shows it |
| `MCFrontends` | passes | two parts: SMV files with modules and cases, BTOR2 files with every pair of operators, become the systems they describe |
| `MCFlavours` | passes | IC3SA and SyGuS-PDR: projections are justified, goals reach bad, lemmas hide no bad state, TRUE is right |
| `MCIC3Signal` | violates `InvarIsInductive` | finding 1 |
| `MCSygusStill` | violates `FalseIsConcrete` | finding 2 |
| `MCIC3Preimage` | violates `TrueIsSound` | finding 3 |

`MCProgram`, `MCFrontends` and `MCFlavours` hold parts that do not interact: a
behaviour picks one part and the others stay in an initial state, so the state
space is the sum and not the product.

**Bounds.** Engines are deterministic loops around queries, so the size of an
instance is the number of *systems* it quantifies over, not of processes.
Systems are chosen so that every branch is taken: safe and unsafe at several
depths, deterministic and not, with dead ends, with predicates too weak to prove
anything, with constraints over inputs.

* IC3: eight states; IC3IA: five; bounds (5, 6) past the fixed point, and 1 so that
  a second call goes on from UNKNOWN. Model-based IC3: a Boolean and two words of
  one bit, or a word of two; interpolants of at most three disjuncts.
* BMC: bounds let an interval be searched in two halves. K-induction: bounds
  pass the number of states, after which every run repeats one.
* Interpolation: bound 4 is enough to converge or refute on four states, and
  unreachable states give the interpolants something to differ on.
* CEGAR: up to five abstract states, `MaxLen = 5`: axioms of
  every kind the array loop and the outer loops learn, two loops stacked. In a
  functional system an axiom is a constraint and holds initially, too; the view
  of IC3SA and the array loop stay relational (`opts.functional`).
* Liveness: six states (three values and a bit that is an input or a state
  variable without an update), at most four counts.
* Options: every option alone with every argument, and up to four of those that
  share fields. `INT_MAX` is 50: only whether a number exceeds it matters.
  Numbers are numerals, `-1` (which `stoul` turns into the largest) and one that
  no unsigned long holds.
* Main program: eleven files in three formats, variables of at most two bits,
  traces to depth 9 (`Depth`), every subset of the passes that the code lets
  be combined, reset bounds 1 to 3.
* Unrolling: times 0 to 2, intervals 0, 1, 2, two variables that come later.
  Witness: two steps, a memory of two elements, one `witness()` call.
* SMV: two nested operators of every pair of precedence, three modules, up to
  three instances, cases of three branches. BTOR2: every pair of operators over
  widths 1 and 2, both argument positions, with and without complements.
* IC3SA: words of two bits, chains of four cubes, two lemmas. SyGuS-PDR: words
  of two bits, five frames, terms two bits wide at most.

`Bounds` limits calls only because `reached_k_` grows without limit otherwise;
where the other bounds above end a behaviour the guard that names them says so.
Every action fires in some passing run.

**Deadlock** is not checked: an engine that has answered is finished.

**Fairness.** Pono is one thread that runs until `check_until` returns, so the
steps of a running call are weakly fair. Calls, signals and CEGAR refinements
need never come. `CallsReturn` (IC3, BMC) rests on it; `EnoughCountsDecide`
(liveness) is an action property, about what a step may not do. `RefineFail` needs no fairness of its own: the fair formula is the
disjunction of the running call's steps.

## Findings

Each is shown by a run that must fail.

1. **A signal during blocking can turn into TRUE** (`ic3base.cpp:672`).
   `block_all` returns true to "pretend success"; `step` then propagates and
   may find an empty frame. The invariant given out is not inductive.
2. **Operator abstraction can report FALSE for a safe system**
   (`op_abstractor.cpp:88`, `--sygus-op-lv 1`). The cone of influence is taken
   after costly operators became inputs, so what only they read loses its
   updates, and the refinement compares with values the system never has.

3. **The functional preimage turns unsafe systems into safe ones**
   (`mbic3.cpp:331`, `-e mbic3 --ic3-functional-preimage`). The model is
   substituted in the label of the transition relation, a symbol of its own; the
   predecessor is that label, blocking it makes every later query
   unsatisfiable, and the answer is TRUE.

Other places where the code does something else than a comment or its use
suggests, met while modelling; the models do what the code does, and the
instances of the passing runs stay clear of them:

* `ic3ia.cpp:169` `--ic3ia-skip-init-predicates`: nothing separates the initial
  states from blocked cubes, invariants may be wrong (`~SkipInitPreds` is an
  assumption of the IC3IA theorems). `bmc.cpp:148` reports a counterexample at
  the start of an interval at its end; `bmc.cpp:176` keeps a frame counter over
  `reset_env`. `kinduction.cpp:455` cuts a witness short when bound steps are
  above 1. `interpolantmc.cpp:196`: an invariant that contains bad dead ends.
* `array_axiom_enumerator.cpp:429`: an axiom over an index of another time
  contains a timed variable, so `only_curr` always says no and the axiom is
  never looked at in the last state; with infinitely many indices a spurious
  trace can be reported. `kliveness.cpp:237`: the assertion on the justice steps
  fails in a Debug build when the trace goes on beyond the bad state; the run is
  about Release, where the answer is still a lasso.
* `options.cpp:991`: `--no-ic3ia-reduce-preds` and
  `--no-ic3ia-track-important-vars` fall through and also turn off the
  simulation of counterexamples. Numbers out of range leave the program with an
  uncaught exception; `ic3bool` is accepted and has no engine.
* `control_signals.cpp:44`: a second, local `clk_state` makes every clock that
  is an input an error. `ts.cpp:520`: the rebuild from a cone of influence keeps
  variables without their updates and leaves `deterministic_` set, against
  `ts.h:292`. `pono.cpp:635`: exceptions are caught in Release builds only.
* SMV: `xnor` is written out as `xor`; an unparenthesised conditional on the
  left of an operator, or an unparenthesised argument, reads differently the
  second time; signed `<` is read as unsigned; a case inside a later branch
  clears the conditions of the outer one (`smvparser.y:1434`). The header of a
  `VAR` section is written although all its variables are instances, of which
  nothing is (`smv_node.cpp:232`); the second reading is then a syntax error and
  the program exits (a file of the run has this, and is refused). In a Debug
  build `-`, `*` and signed `/` of words assert a term before it is made
  (`smvparser.y:1045`, `1070`, `1096`); the model is of the Release build.
* BTOR2: `rol`, `ror`, `saddo`, `smulo` and `usubo` compute something else; a
  state named like the encoder's own names throws or is aliased.
* `ic3sa.cpp:546`: value refinement may accept a trace whose inputs the
  constraints forbid; `ic3sa.cpp:298`: an axiom about a dead end removes it even
  when it ends a counterexample. SyGuS-PDR in `SPLIT_FROM_DESIGN` may learn a
  lemma that does not block its goal.
* `functional_unroller.cpp:63` tests `k % interval_` of the time asked for instead
  of the time it fills. `prover.cpp:226`: `witness()` of IC3 asked twice appends
  the trace to itself (`MaxAsks = 2` shows it). `vcd_witness_printer.cpp:559`:
  a memory element that goes back to the default keeps its old value on the
  waveform.

## Proofs

The theorems hold for every set of states, every system, every bound and every
option that the named assumptions allow. `PROJECT.json` lists them.

| module | proved | under |
|---|---|---|
| `IC3Proofs`, bits | `TypeOK`, `FramesSound`, `LabelsMatchFrames`, `GoalsOutsideLowerFrame`, `GoalsStepOn`, `TrueIsSound`, `FalseHasWitness`, FALSE means unsafe, no counterexample within `reached_k_` before a signal, `FramesOnlyStrengthen` | |
| `IC3Proofs`, words | the invariant of bit-level IC3 (`MbInvariance`) and so the same, in each mode of generalisation | `NoPreimage` |
| `IC3IAProofs` | `TypeOK`, `FramesSound`, `GoalsOutsideLowerFrame`, `TrueIsSound`, `FalseHasWitness`, no concrete counterexample within `reached_k_` before a signal, `FramesOnlyStrengthen`, `RefinementRulesOutCex` | `~SkipInitPreds` |
| `BmcProofs` | `SearchSucceeds`, `FirstBadIsShortest`, FALSE is real, no counterexample within `reached_k_` (where the intervals cover all bounds); a run that tests every bound implements `SafetyProver` | `NoBinaryCegar` |
| `EngineProofs` | the refinement `ImplementsProver`, `AssertionsHold`, `InvarInductive`, the answers are right; `DecidedAtDiameter` | the last: finitely many states |
| `CegarProofs` | `TrueIsSound`, `FalseIsConcrete`, `RefinementExcludesCex` | FALSE: `EndIsNotIndexed`; the last also `StepsAgree` |
| `LivenessProofs` | `FalseIsLasso`, `TrueIsSound`, `EnoughCountsDecide` | the last two: finitely many states |
| `ProgramProofs` | `OptionsAsDocumented`, `WitnessIsCounterexample`, `SignalsAsInTrace` | the first: no option falls into the next case; the second: the engine unrolls, or `witness()` is called once |

**Assumptions.** On the constants, the named `ASSUME`s of the modules, which TLC
evaluates: systems and options have their types; the atoms of init and bad
determine them (`AtomsAssumption`: `get_predicates` collects the atoms of the
term); the words of a system are its state (`MbOptionsAssumption`); a state agrees
with itself and a variable without an update takes any value
(`KindAssumption`, `FreeAssumption`); a state fixes what the variables with
updates say (`UpdatedAssumption`); a prophecy variable for a value is frozen
(`FrozenAssumption`); the words of a command line are options with arguments
(`CommandLinesAssumption`); initial states and successors are states, and a state
gives each array as a function on finitely many indices (`DesignsAssumption`); a
liveness property has a condition (`JusticeAssumption`:
the code takes the first of the vector). Bit-level IC3 gets Boolean state
variables only, which is a guard of its `Init`, for `check_ts` throws otherwise.

Some theorems need more, each for a reason in the code:

* `~SkipInitPreds`: with `--ic3ia-skip-init-predicates` nothing separates the
  initial states from blocked cubes. `NoPreimage`: finding 3.
* `NoBinaryCegar`: `bin_search_frames_` is not reset by `reset_env`, so a binary
  search inside a CEGAR loop may pop frames that are not its own. It is asked only
  of options with which a search can start (`MaySearch`). In a CEGAR loop the
  fallback leaves the counter wrapped, so `SearchSucceeds` asks for the less
  incremental search there.
* `EndIsNotIndexed`: the enumeration does not look at an axiom over an index of
  another time in the last state (`array_axiom_enumerator.cpp:429`), so no such
  axiom may be what excludes a bad state. `StepsAgree`: an operator over next
  states is evaluated as it is in some state after any initial one.
* Options: the two options of IC3IA before `--no-ic3ia-sim-cex` have no break
  behind them (`options.cpp:991`). `OptionsAreAsDocumented` is about command lines
  without the two, `OtherFieldsAreAsDocumented` about every line and every field
  they do not fall into.
* One call of `witness()`: an IC3 computes the values at each call and appends
  them (`prover.cpp:226`), so only the first copy is a counterexample
  (`FirstWitnessIsCounterexample`). `pono.cpp` calls it once
  (`WitnessOfOneCall`). The waveform is right for every number of calls: it shows
  what the copy says.
* Finitely many states: a run that repeats no state is bounded then. For the
  counter, that a bit-vector of the computed width holds every count.

**Induction.** The provers do not instantiate the induction theorems of the
library, so `TransSysProofs` derives set forms of induction from the least
element of a set of numbers, and with them: a function defined by recursion on a
number exists; a path can be cut, extended and joined; a closed set contains a
path that starts in it; the sets of states that exactly n steps lead to or from
are the ends of the paths of that length; there is a shortest counterexample,
and it repeats no state and meets init only once.

**IC3.** `FramesSound` is not inductive alone. A clause is learnt from a goal, so
goals must be outside the frame below (`GoalsInv`, `GoalsOutsideLowerFrame`),
which for a predecessor found by the solver depends on the frames being unions
of predicate cubes (`AtomsInv`, `AbstractionInv`); the collateral under
generalisation must stay relatively inductive (`CollateralInv`); TRUE needs that
everything below the frontier is safe (`SafeBelowInv`), that solver and data
structure agree (`LabelsInv`), and where the call is (`PhaseInv`). `SharedStep`
proves that a step of any flavour keeps all this. It is about generic steps: what
a flavour may put in place of a model is in `Substitutes`, what it may learn
from a blocked goal in `Generalizations`, and each flavour shows that its own
cubes are (`PredecessorsSubstitute`, `WordPredecessorsSubstitute`,
`CoresGeneralize`, `GeneralizedGeneralizes`). Over words this holds because a
cube of all atoms of a model is one state (`WordCubeExact`) and splitting an
equality into bounds keeps what the cube says (`SplitWeakens`).
A refinement shrinks the abstract relation, which makes every clause only more
inductive (`RefinementRefines`).

That FALSE has a run needs distances: a target is as many steps from bad as its
trace is long, in the concrete system (`TracesInv`). In IC3IA the targets are
cubes of an abstraction, and the run comes from the queries of `refine()`; the
invariant says which shape the trace has at that point (`CexShape`). A bound is
counted after its frame was pushed (`DepthInv`), and a shorter counterexample
would pass from frame to frame and step into bad below the frontier
(`DepthClears`).

**BMC.** The invariant says for every place in the code which frames the solver
holds (`BetweenBounds`, `Searching`, `BinarySearch`, `LinearSearch`,
`LessIncSearch`). A search is started for a run that satisfies the base level
(`Witnessed`); it stays one, so a query that finds nothing below a bound finds
something at it. A query without a model clears all bounds that its clauses ask
for, since a counterexample can be run on to the end of the interval or the
interval is one bound (`NoneMissed`).

**Interpolation and k-induction.** Each engine has its invariant. McMillan's
(`InterpInv`): whatever left the last interpolant has all its successors in the
reached set, which has a state of every path that long, and nothing in it but the
initial states can reach bad at a tested time. The sequences (`IsmcInv`): each set
holds the image of the one before, and all but the first exclude bad. Dual
approximation (`DarInv`): images stay inside the forward sequence, predecessors
inside the backward one, and a pass hands on from position to position that no
step leads from one into the other. K-induction (`KindInv`): its clauses exclude no
shortest counterexample, so an unsatisfiable check means that none has that many
steps; with the simple path clauses the bound stays below the number of states
(`WithinDiameter`). `EnginePromise` says of each step what it keeps of the contract
(`PromisedStep`), and `PromisedIsProver` turns that into a step of `SafetyProver`.
K-induction implements it when it checks every bound; otherwise its answers are
still right.

**CEGAR.** Whatever was conjoined to the abstract system is an axiom of it, an
axiom over one time, or one over a prophecy variable, and holds on every
concrete run; so a concrete run to bad would be a run of the abstract system,
which the prover underneath has excluded when it says TRUE (`SoundInv`). A run on
which no axiom is violated is a concrete one (`FalseInv`). Both speak of both
copies of the system (the loop's own and the prover's), of the axioms still in
hand and of a verdict on its way through two loops.

**Liveness.** A counterexample of the counter is a run that meets the condition
as often as it counts (`LassoInv`), and a state met twice on it closes a lasso.
For TRUE, a fair lasso of the system is run round: a cycle through all conditions
may be as long as it likes, one round adds one to the count or one condition to
those seen, and each encoding of the counter can say it. For
`EnoughCountsDecide`, more justice steps than states repeat a state
(`DecideInv`), and what lies between is found by the revisit test or by BMC on
the translated system.

**Options.** `OptionsInv` says after every turn of the loop what `FieldsSay` of the
words read so far: a field is assigned when one of them is documented to set it,
to the value of the last one. What each option is documented to set is what the
code of its case sets (`SetsAsDocumented`), apart from the two that fall through.

**Witness.** An engine that unrolls has, from its answer on, the values of a
counterexample as long as it says (`WitnessAtAnswer`); an IC3 has as many goals
as a counterexample has states, so dropping the goals from the query leaves a
model (`WitnessWhenAsked`). An element of an array is that of the outermost store
at its index, or the constant (`ElementOfArray`), and the copy keeps every state
variable and input (`CopyShowsCex`).

**Waveform.** Ids are used once, and an array's are no signal's
(`DeclaredOnce`, kept by every declaration although names that are taken are
ignored); so all entries of a frame for a signal's id are its value
(`AssignmentsAre`). The printer's last value of an id is the one the lines so far
show and no line is later than the time (`Holds`); a change adds a line or repeats
what is shown (`ChangeShows`), and what earlier times show stays (`OneMore`). The
recursions of `dump_all` and `dump_diff` over values and frames are well defined
by `IndexedRecursion`. What is not proved of the waveform is the elements of
arrays, for it is not true (`vcd_witness_printer.cpp:559`, see Findings).

The two modules avoid `@@`, of which the prover knows nothing: `Over` and `Put`
say what is assigned.

**Only model-checked.** Liveness under fairness (`CallsReturn`); IC3SA,
SyGuS-PDR, the main program, the frontends, the unrollers: they are about
recursive operators on terms and texts, which the provers cannot unfold for every
input. IC3 is not shown to
implement `SafetyProver`: a goal that is queued again one frame higher may end
in a trace longer than `reached_k_ + 1` steps, and after a signal depth is counted
without blocking. What it promises instead is in the theorems above.

## Not modelled, and why

* CoreIR, Python bindings, dumps, logging, profiling, help texts, the vendored
  libraries `contrib/`: input and output, or not Pono's.
* Solver internals and answers unknown; term transfer between solvers
  (`to_prover_solver`), of which only the values of a witness are followed.
* Arrays in files: the readers' array operators. Arrays appear in `CegarBase`
  by the meaning of their axioms and in `Witness` as values. Axioms over the
  index that differs from all others need infinitely many indices.
* `msat_ic3ia` only as an engine that hands over a witness; `ic3sa_interp`; `OpUfAbstractor`.
* Token level of the SMV and BTOR2 files (names, comments, numerals): names are
  values, texts sequences of tokens.
* Parts of hazards the instances do not reach: `bin_search_frames_` over
  `reset_env` under a binary search (`bmc.cpp:176`); a case in a later branch
  (`smvparser.y:1434`); the two options that fall through (`options.cpp:991`),
  of which only the theorem `OtherFieldsAreAsDocumented` speaks; a
  counterexample that ends where a lemma of IC3SA was learned from a dead end
  (`ic3sa.cpp:298`); a functional unroller whose system grows (only the
  relational one's grows in the run); no progress of SyGuS-PDR's term learner,
  which ends a behaviour of the model at the assertion (`syguspdr.cpp:469`).
* Hazards left without a place of their own: overflow of the doubled bound
  (`bmc.cpp:72`, beyond 2^30), a second `check_until` of k-induction after
  UNKNOWN (`kinduction.cpp:94`), what a throwing interpolator leaves behind
  (`interp_seq_mc.cpp:112`), an interpolator that answers unknown
  (`ic3ia.cpp:318`), the assertion on two positions (`syguspdr.cpp:476`).

## Plan

What was planned first (CEGAR, liveness, the bookkeeping of systems) is done.
Next:

1. Proofs: a contract for IC3 (a counterexample of at least
   `reached_k_ + 1` steps) that the CEGAR loops can use as they use
   `SafetyProver`.
2. Arrays in BTOR2 and SMV files, and the array abstraction as a rewriting of
   terms, so that `CegarBase`'s axioms come from the code that builds them.
3. IC3SA and SyGuS-PDR over the frames of IC3Base instead of chains.
