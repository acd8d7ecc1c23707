------------------------------- MODULE Witness --------------------------------
(***************************************************************************)
(* The counterexample of a safety prover, from the engine that finds it to *)
(* the file that shows it: BaseProver and SafetyProver (engines/           *)
(* prover.cpp), the witness of IC3Base, the external engine MsatIC3IA, and *)
(* the printers.  What the solver answers is external: get_value reads a   *)
(* model of what is asserted.  A design is a system with the names its     *)
(* terms have; values are numbers, and arrays what the solver's values are.*)
(***************************************************************************)
EXTENDS Integers, Sequences, SequencesExt, FiniteSets, FiniteSetsExt, TLC

(* How a counterexample is written: printers/vcd_witness_printer.cpp, with *)
(* the signals it declares and the value changes it dumps, and what        *)
(* printers/btor2_witness_printer.cpp writes of an array.                  *)
(*                                                                         *)
(* The solver gives an array as stores around a constant array: a record   *)
(* with stores, pairs of index and element, the outermost first, and base, *)
(* the constant or NoValue when the innermost array is not a value.        *)

NoValue == -1

\* mpz_class::get_str(2): the binary digits of n, with no leading zero.
Digits(n) ==
  LET length == CHOOSE k \in 1..n + 1 : n < 2^k /\ (k = 1 \/ n >= 2^(k - 1))
  IN  [ k \in 1..length |-> (n \div 2^(length - k)) % 2 ]

\* as_bits: "#b..." is written as it is, "(_ bvN w)" as the digits of N,
\* padded with zeros to the width or cut to it.
AsBits(value) ==
  IF value.format = "binary" THEN [ k \in 1..value.width |-> (value.n \div 2^(value.width - k)) % 2 ]
  ELSE LET digits == Digits(value.n)
           zeros  == [ k \in 1..value.width - Len(digits) |-> 0 ]
       IN  IF Len(digits) <= value.width THEN zeros \o digits
           ELSE SubSeq(digits, Len(digits) - value.width + 1, Len(digits))

-----------------------------------------------------------------------------
(* Arrays in a BTOR2 witness: pairs of index and element.                  *)

\* The elements no store names have the constant, which is left out when it
\* is 0: a reader takes 0 for what is not specified.
DefaultLines(array, indices) ==
  LET written == { array.stores[k][1] : k \in DOMAIN array.stores }
  IN  IF array.base \in {NoValue, 0} THEN <<>>
      ELSE SelectSeq([ k \in 1..Cardinality(indices) |-> <<k - 1, array.base>> ],
                     LAMBDA line : line[1] \notin written)

\* print_btor_val_at_time: the stores, the outermost first, then the constant,
\* the values as bits in the format the solver prints them.
PrintedArray(array, indices, format, width) ==
  LET lines == array.stores \o DefaultLines(array, indices)
  IN  [ k \in DOMAIN lines |->
          <<lines[k][1], AsBits([format |-> format, n |-> lines[k][2], width |-> width])>> ]

-----------------------------------------------------------------------------
(* The signals of a waveform.  A name is split at its dots into path;      *)
(* internal when it starts with $, location when it is the position of a   *)
(* bad state in a source file (is_bad_state_pattern).                      *)

CONSTANT PlainPart   \* a part of a name -> the part with its colons replaced

\* What the printer has declared: bit-vector signals and arrays in the order
\* of their declaration, the ids used up, and whether it has thrown.
NoSignals == [bv |-> <<>>, arrays |-> <<>>, hashes |-> 0, properties |-> 0, thrown |-> FALSE]

\* check_insert_scope.  A signal whose scope already has the name is ignored.
InsertSignal(decl, name, isReg, ast) ==
  LET path  == IF name.location THEN <<"property" \o ToString(decl.properties)>>
               ELSE [ k \in DOMAIN name.path |-> PlainPart[name.path[k]] ]
      named == IF name.location THEN [decl EXCEPT !.properties = @ + 1] ELSE decl
  IN  IF name.internal THEN decl
      ELSE IF \E k \in DOMAIN decl.bv : decl.bv[k].path = path /\ decl.bv[k].isReg = isReg THEN named
      ELSE [named EXCEPT !.bv = Append(@, [path |-> path, isReg |-> isReg, ast |-> ast,
                                           hash |-> decl.hashes]),
                         !.hashes = @ + 1]

\* check_insert_scope_array: an id for each index of a store in some frame,
\* and one for the default when some frame has one.
InsertArray(decl, name, ast, trace) ==
  LET path     == [ k \in DOMAIN name.path |-> PlainPart[name.path[k]] ]
      frames   == { k \in DOMAIN trace : ast \in DOMAIN trace[k] }
      stored   == UNION { { trace[f][ast].stores[k][1] : k \in DOMAIN trace[f][ast].stores } : f \in frames }
      default  == \E f \in frames : trace[f][ast].base # NoValue
      order    == SetToSeq(stored)
      n        == Cardinality(stored)
      idOf(i)  == decl.hashes + (CHOOSE k \in 1..n : order[k] = i) - 1
  IN  IF \E k \in DOMAIN decl.arrays : decl.arrays[k].path = path THEN [decl EXCEPT !.thrown = TRUE]
      ELSE [decl EXCEPT !.arrays = Append(@, [ path |-> path, ast |-> ast,
                                               index |-> [ i \in stored |-> idOf(i) ],
                                               default |-> IF default THEN decl.hashes + n ELSE NoValue ]),
                        !.hashes = @ + n + IF default THEN 1 ELSE 0]

-----------------------------------------------------------------------------
(* The values.  A line changes the signal of a hash id at a time.          *)

\* What a frame assigns to the declared signals, in the order it is written:
\* the signals, then each array from its outermost store to its constant.
\* A term the frame has no value of is passed over.
Assignments(decl, frame) ==
  LET bv(sig) == IF sig.ast \notin DOMAIN frame THEN <<>> ELSE << <<sig.hash, frame[sig.ast]>> >>
      stores(arr) ==
        FlattenSeq([ k \in DOMAIN frame[arr.ast].stores |->
          LET store == frame[arr.ast].stores[k]
          IN  IF store[1] \in DOMAIN arr.index THEN << <<arr.index[store[1]], store[2]>> >> ELSE <<>> ])
      base(arr) == IF frame[arr.ast].base = NoValue \/ arr.default = NoValue THEN <<>>
                   ELSE << <<arr.default, frame[arr.ast].base>> >>
      array(arr) == IF arr.ast \notin DOMAIN frame THEN <<>> ELSE stores(arr) \o base(arr)
  IN  FlattenSeq([ k \in DOMAIN decl.bv |-> bv(decl.bv[k]) ])
        \o FlattenSeq([ k \in DOMAIN decl.arrays |-> array(decl.arrays[k]) ])

\* The last values with a new one for an id.
Put(prev, hash, value) == [ h \in DOMAIN prev \cup {hash} |-> IF h = hash THEN value ELSE prev[h] ]

\* dump_all, at time 0: every value is written, and the first of each id kept.
KeepFirst(prev, a) == IF a[1] \in DOMAIN prev THEN prev ELSE Put(prev, a[1], a[2])

DumpAll(assigned, time) ==
  LET kept[n \in 0..Len(assigned)] ==
        IF n = 0 THEN <<>> ELSE KeepFirst(kept[n - 1], assigned[n])
  IN  [ prev  |-> kept[Len(assigned)],
        lines |-> [ k \in DOMAIN assigned |-> [time |-> time, hash |-> assigned[k][1], value |-> assigned[k][2]] ] ]

\* Seeded fault: the value written is not kept for the next comparison.
DumpChangeKeepingOld(d, a, time) ==
  IF a[1] \in DOMAIN d.prev /\ d.prev[a[1]] = a[2] THEN d
  ELSE [ prev  |-> IF a[1] \in DOMAIN d.prev THEN d.prev ELSE Put(d.prev, a[1], a[2]),
         lines |-> Append(d.lines, [time |-> time, hash |-> a[1], value |-> a[2]]) ]

\* dump_diff, at a later time: only a value that differs from the last one.
DumpChange(d, a, time) ==
  IF a[1] \in DOMAIN d.prev /\ d.prev[a[1]] = a[2] THEN d
  ELSE [ prev  |-> Put(d.prev, a[1], a[2]),
         lines |-> Append(d.lines, [time |-> time, hash |-> a[1], value |-> a[2]]) ]

\* The changes at a time, after the lines there are.
DumpDiff(assigned, before, time) ==
  LET dumped[n \in 0..Len(assigned)] ==
        IF n = 0 THEN before ELSE DumpChange(dumped[n - 1], assigned[n], time)
  IN  dumped[Len(assigned)]

\* What a viewer of the waveform shows for an id at a time: the last change.
WaveShows(lines, hash, time) ==
  LET changes == { k \in DOMAIN lines : lines[k].hash = hash /\ lines[k].time <= time }
  IN  IF changes = {} THEN NoValue
      ELSE lines[CHOOSE k \in changes : \A j \in changes : j <= k].value

-----------------------------------------------------------------------------

CONSTANTS
  Designs,   \* the systems with their names
  MaxSteps,  \* the longest counterexample
  MaxAsks    \* how often witness() is called

ASSUME WitnessBounds == MaxSteps \in Nat /\ MaxAsks \in Nat \ {0}

\* The initial states and the successors are states; the arrays are state
\* variables, in each state from the indices to numbers.
ASSUME DesignsAssumption == \A d \in Designs :
  /\ d.init \subseteq d.states
  /\ \A point \in d.states \X d.inputs : d.next[point] \subseteq d.states
  /\ d.arrays \subseteq d.statevars /\ d.statevars \cap d.inputvars = {}
  /\ IsFiniteSet(d.indices)
  /\ \A s \in d.states, v \in d.arrays : s[v] \in [d.indices -> Nat]

VARIABLES
  design,    \* orig_ts_ and the property
  engine,    \* "unrolling", "ic3" or "msat"
  solver,    \* [resets, style, format]: does it reset, how it gives arrays and values
  client,    \* what the client does next
  reachedK,  \* reached_k_
  cexGoals,  \* cex_
  failedToReset, \* failed_to_reset_solver_
  witness,   \* witness_: a sequence of maps from terms to values
  out,       \* the client's copy
  complete,  \* what witness() returned
  asks,      \* calls of witness() so far
  todo,      \* the names and variables the VCD printer still has to declare
  decl,      \* what it has declared
  vcd,       \* [prev, lines]: the last values and the lines written
  btor       \* the array lines of a BTOR2 witness, per frame

prover  == <<design, engine, solver, reachedK, cexGoals, failedToReset, witness, out, complete, asks>>
printer == <<todo, decl, vcd, btor>>
witnessVars == <<prover, client, printer>>

-----------------------------------------------------------------------------
(* The system.                                                             *)

\* The runs of n steps, a state and an input at each time, whose last k steps
\* need not be transitions.
Runs(d, n, k) ==
  LET run[t \in 0..n] ==
        IF t = 0 THEN { << <<s, i>> >> : s \in d.init, i \in d.inputs }
        ELSE UNION { { Append(p, <<s, i>>) :
                         s \in IF t > n - k THEN d.states ELSE d.next[p[t]], i \in d.inputs } :
                     p \in run[t - 1] }
  IN  run[n]

\* The counterexamples of n steps.
Counterexamples(d, n) == { p \in Runs(d, n, 0) : p[n + 1][1] \in d.bad }

\* How the solver gives an array.
ArrayValue(array, style) ==
  LET base == CASE style = "zeros" -> 0 [] style = "ones" -> 1 [] style = "open" -> NoValue
      indices == SetToSeq({ i \in DOMAIN array : array[i] # base })
  IN  [stores |-> [ k \in DOMAIN indices |-> <<indices[k], array[indices[k]]>> ], base |-> base]

\* get_value of the terms of a system: its variables and its named terms
\* (next-state variables are named too, but no one shows their values).
ValuesIn(d, point, style) ==
  [ t \in d.statevars \cup d.inputvars \cup ({ n.term : n \in d.named } \ d.nextvars) |->
      IF t \in d.arrays THEN ArrayValue(point[1][t], style)
      ELSE IF t \in d.statevars THEN point[1][t]
      ELSE IF t \in d.inputvars THEN point[2]
      ELSE d.defined[t][point] ]

-----------------------------------------------------------------------------
Solvers == [ resets : BOOLEAN, style : {"zeros", "ones", "open"}, format : {"binary", "decimal"} ]

WitnessStart(d, e, s) ==
  /\ design = d /\ engine = e /\ solver = s
  /\ client = "check"
  /\ reachedK = -1 /\ cexGoals = <<>> /\ failedToReset = FALSE
  /\ witness = <<>> /\ out = <<>> /\ complete = FALSE /\ asks = 0
  /\ todo = [named |-> {}, states |-> {}, inputs |-> {}] /\ decl = NoSignals
  /\ vcd = [prev |-> <<>>, lines |-> <<>>] /\ btor = <<>>

WitnessInit ==
  \E d \in Designs, e \in {"unrolling", "ic3", "msat"}, s \in Solvers : WitnessStart(d, e, s)

\* witness_length: the number of steps.
WitnessLength(goals) == IF engine = "ic3" THEN Len(goals) - 1 ELSE reachedK' + 1

\* SafetyProver::compute_witness: the values at time 0 to witness_length().
ComputeWitness(model, n) == [ k \in 1..n + 1 |-> ValuesIn(design, model[k], solver.style) ]

\* check_until of an engine that unrolls: at bound n the query has a model,
\* which is read before it is gone.
FindUnrolling ==
  /\ client = "check" /\ engine = "unrolling"
  /\ \E n \in 0..MaxSteps : \E model \in Counterexamples(design, n) :
       /\ reachedK' = n - 1
       /\ witness' = witness \o ComputeWitness(model, WitnessLength(cexGoals))
  /\ client' = "ask"
  /\ UNCHANGED <<design, engine, solver, cexGoals, failedToReset, out, complete, asks, printer>>

\* check_until of an IC3: reset_solver has been tried or not, and
\* reconstruct_trace follows the goals from one that meets the initial states
\* to the last one, and adds bad.  A goal is a set of states.
FindIC3 ==
  /\ client = "check" /\ engine = "ic3"
  /\ failedToReset' \in {FALSE, ~solver.resets}
  /\ \E n \in 0..MaxSteps : \E goals \in [1..n -> design.goals] :
       /\ Counterexamples(design, n) # {}
       /\ n > 0 => goals[1] \cap design.init # {}
       /\ cexGoals' = Append(goals, design.bad)
  /\ client' = "ask"
  /\ UNCHANGED <<design, engine, solver, reachedK, witness, out, complete, asks, printer>>

\* MsatIC3IA::compute_witness: the models of the query that fixes the states
\* the external engine gives; it gives no inputs.
MsatModels(wit) ==
  { p \in Counterexamples(design, Len(wit) - 1) : \A t \in DOMAIN wit : p[t][1] = wit[t] }

\* MsatIC3IA::prove: the external engine answers with the states of a
\* counterexample.
ProveMsat ==
  /\ client = "check" /\ engine = "msat" /\ solver.resets
  /\ \E n \in 0..MaxSteps : \E p \in Counterexamples(design, n) :
       LET wit == [ t \in DOMAIN p |-> p[t][1] ]
       IN  /\ reachedK' = Len(wit) - 2
           /\ \E model \in MsatModels(wit) :
                witness' = witness \o ComputeWitness(model, WitnessLength(cexGoals))
  /\ client' = "ask"
  /\ UNCHANGED <<design, engine, solver, cexGoals, failedToReset, out, complete, asks, printer>>

\* Seeded fault: the last transition is not asserted.
QueryOneShort(n) == { p \in Runs(design, n, 1) : p[n + 1][1] \in design.bad }

\* The query of IC3Base::compute_witness: a BMC at the length of cex_.
Query(n) == Counterexamples(design, n)

\* IC3Base::compute_witness: the goals guide the query, and are dropped when
\* there is no model with them.
ComputeIC3 ==
  LET n      == WitnessLength(cexGoals)
      guided == { p \in Query(n) : \A t \in 1..n : p[t][1] \in cexGoals[t] }
  IN  \E model \in IF guided # {} THEN guided ELSE Query(n) :
        witness' = witness \o ComputeWitness(model, n)

\* BaseProver::witness: the values go to the original system, the named terms
\* only while no input is missing.
Transfer(maps) ==
  [ k \in DOMAIN maps |->
      LET has(terms) == terms \cap DOMAIN maps[k]
          lacks == \E j \in 1..k : ~(design.inputvars \subseteq DOMAIN maps[j])
          names == IF lacks THEN {} ELSE { n.term : n \in design.named }
      IN  [ t \in design.statevars \cup has(design.inputvars \cup names) |-> maps[k][t] ] ]

Asking == client = "ask" /\ asks < MaxAsks /\ asks' = asks + 1

\* witness(): an IC3 computes the witness anew at each call.
Ask ==
  /\ Asking
  /\ engine = "ic3" => solver.resets
  /\ IF engine = "ic3" THEN UNCHANGED reachedK /\ ComputeIC3 ELSE UNCHANGED <<reachedK, witness>>
  /\ out' = Transfer(witness')
  /\ complete' = \A k \in DOMAIN witness' : design.inputvars \subseteq DOMAIN witness'[k]
  /\ UNCHANGED <<design, engine, solver, client, cexGoals, failedToReset, printer>>

\* Without reset_assertions compute_witness gives up or throws, and an IC3 has
\* no witness.
AskInVain ==
  /\ Asking
  /\ engine = "ic3" /\ ~solver.resets
  /\ client' = IF failedToReset THEN "PonoException" ELSE "SmtException"
  /\ UNCHANGED <<design, engine, solver, reachedK, cexGoals, failedToReset, witness, out, complete, printer>>

-----------------------------------------------------------------------------
(* The printers, once witness() has answered.                              *)

\* The VCD printer declares the named terms that are not next-state variables
\* or arrays, then the state variables, then the inputs, each in the order of
\* a hash table.
StartPrinting ==
  /\ client = "ask" /\ asks > 0
  /\ client' = "declare"
  /\ todo' = [ named  |-> { n \in design.named : n.term \notin design.nextvars \cup design.arrays },
               states |-> design.statevars, inputs |-> design.inputvars ]
  /\ btor' = [ k \in 1..Len(out) |-> [ t \in design.arrays |-> PrintedArray(out[k][t], design.indices, solver.format, design.width) ] ]
  /\ UNCHANGED <<prover, decl, vcd>>

DeclareNamed ==
  /\ client = "declare"
  /\ \E n \in todo.named :
       /\ decl' = InsertSignal(decl, n.name, n.term \in design.statevars, n.term)
       /\ todo' = [todo EXCEPT !.named = @ \ {n}]
  /\ UNCHANGED <<prover, client, vcd, btor>>

DeclareState ==
  /\ client = "declare" /\ todo.named = {} /\ ~decl.thrown
  /\ \E v \in todo.states :
       /\ decl' = IF v \in design.arrays THEN InsertArray(decl, design.name[v], v, out)
                  ELSE InsertSignal(decl, design.name[v], TRUE, v)
       /\ todo' = [todo EXCEPT !.states = @ \ {v}]
  /\ UNCHANGED <<prover, client, vcd, btor>>

DeclareInput ==
  /\ client = "declare" /\ todo.named = {} /\ todo.states = {} /\ ~decl.thrown
  /\ \E v \in todo.inputs :
       /\ decl' = IF v \in design.arrays THEN decl ELSE InsertSignal(decl, design.name[v], FALSE, v)
       /\ todo' = [todo EXCEPT !.inputs = @ \ {v}]
  /\ UNCHANGED <<prover, client, vcd, btor>>

\* DumpValues: every value at time 0, then the differences.
DumpValues ==
  /\ client = "declare" /\ todo = [named |-> {}, states |-> {}, inputs |-> {}]
  /\ LET written[time \in 0..Len(out) - 1] ==
           IF time = 0 THEN DumpAll(Assignments(decl, out[1]), 0)
           ELSE DumpDiff(Assignments(decl, out[time + 1]), written[time - 1], time)
     IN  vcd' = written[Len(out) - 1]
  /\ client' = "done"
  /\ UNCHANGED <<prover, todo, decl, btor>>

WitnessNext ==
  \/ FindUnrolling \/ FindIC3 \/ ProveMsat \/ Ask \/ AskInVain
  \/ StartPrinting \/ DeclareNamed \/ DeclareState \/ DeclareInput \/ DumpValues

WitnessSpec == WitnessInit /\ [][WitnessNext]_witnessVars

-----------------------------------------------------------------------------
(* What a reader of the witness relies on.                                 *)

Element(array, i) ==
  LET stored == { k \in DOMAIN array.stores : array.stores[k][1] = i }
  IN  IF stored = {} THEN array.base ELSE array.stores[Min(stored)][2]

\* The value of a variable in the client's copy, arrays as functions.
Read(v, k) ==
  IF v \in design.arrays THEN [ i \in design.indices |-> Element(out[k][v], i) ] ELSE out[k][v]

\* What witness() gives after FALSE is a counterexample of the original
\* system of witness_length() steps, inputs included, whichever engine found it.
WitnessIsCounterexample ==
  out # <<>> =>
    \E n \in 0..MaxSteps : \E p \in Counterexamples(design, n) :
      /\ Len(out) = n + 1
      /\ n = IF engine = "ic3" THEN Len(cexGoals) - 1 ELSE reachedK + 1
      /\ \A k \in 1..n + 1 :
           /\ \A v \in design.statevars : Read(v, k) = p[k][1][v]
           /\ \A v \in design.inputvars : Read(v, k) = p[k][2]

\* A waveform shows each declared signal, at each time, with the value the
\* counterexample has for the term it was declared for, although most of the
\* values are left out of the file.
SignalsAsInTrace ==
  client = "done" =>
    \A s \in DOMAIN decl.bv : \A k \in DOMAIN out :
      decl.bv[s].ast \in DOMAIN out[k] => WaveShows(vcd.lines, decl.bv[s].hash, k - 1) = out[k][decl.bv[s].ast]
===============================================================================
