--------------------------- MODULE ProgramProofs ---------------------------
(***************************************************************************)
(* Around the engines: the options mean what their help says, and a witness *)
(* is what it is taken for, on its way from the engine to the waveform.    *)
(*                                                                         *)
(* The options.  The fields read so far are those of the last option that  *)
(* is documented to set each of them, after every turn of the loop.        *)
(*                                                                         *)
(* The witness.  An engine that unrolls has the values of a counterexample *)
(* from its answer on; an IC3 has goals as many as the states of one, and  *)
(* computes the values when it is asked.  Arrays survive being stores      *)
(* around a constant, and the client's copy keeps every variable.          *)
(*                                                                         *)
(* The waveform.  The declared signals have ids of their own, which no     *)
(* array shares; the value last kept for an id is the one the lines so far *)
(* show; so a value that is left out is shown all the same.                *)
(***************************************************************************)
EXTENDS Options, Witness, TransSysProofs

-----------------------------------------------------------------------------
(* The table of the options.                                               *)

\* The three options that are documented to set more than a field of their own.
Wider == { Word("vcd", "vcd_name"), Word("dump-btor2-witness", "btor2_witness_name"),
           On("no-kind-ind-check", "kind_no_ind_check") }
WiderNames == {"vcd", "dump-btor2-witness", "no-kind-ind-check"}

\* No other row has the name of one of the three.
LEMMA WiderRows ==
  ASSUME NEW r \in Rows, r.opt \in WiderNames
  PROVE  r \in Wider
<1> USE DEF On, Off, Number, Word, Pair, Wider, WiderNames
<1>1. CASE r \in MainOptions
  BY <1>1 DEF MainOptions
<1>2. CASE r \in SolverOptions
  BY <1>2 DEF SolverOptions
<1>3. CASE r \in TaskOptions
  BY <1>3 DEF TaskOptions
<1>4. CASE r \in IC3Options
  BY <1>4 DEF IC3Options
<1>5. CASE r \in CegarOptions
  BY <1>5 DEF CegarOptions
<1>6. CASE r \in SygusOptions
  BY <1>6 DEF SygusOptions
<1>7. CASE r \in BmcOptions
  BY <1>7 DEF BmcOptions
<1>8. CASE r \in KindOptions
  BY <1>8 DEF KindOptions
<1>9. CASE r \in InterpOptions
  BY <1>9 DEF InterpOptions
<1>10. CASE r \in KliveOptions
  BY <1>10 DEF KliveOptions
<1>11. QED
  BY <1>1, <1>2, <1>3, <1>4, <1>5, <1>6, <1>7, <1>8, <1>9, <1>10 DEF Rows

\* What the table says of them.
LEMMA WiderTable ==
  ASSUME NEW o \in WiderNames
  PROVE  /\ o = "vcd" => usage[o] = Word("vcd", "vcd_name")
         /\ o = "dump-btor2-witness" => usage[o] = Word("dump-btor2-witness", "btor2_witness_name")
         /\ o = "no-kind-ind-check" => usage[o] = On("no-kind-ind-check", "kind_no_ind_check")
<1>1. \E r \in Rows : r.opt = o
  <2>1. CASE o = "vcd"
    <3>1. Word("vcd", "vcd_name") \in Rows
      BY DEF Rows, MainOptions
    <3>2. QED  BY <2>1, <3>1 DEF Word
  <2>2. CASE o = "dump-btor2-witness"
    <3>1. Word("dump-btor2-witness", "btor2_witness_name") \in Rows
      BY DEF Rows, TaskOptions
    <3>2. QED  BY <2>2, <3>1 DEF Word
  <2>3. CASE o = "no-kind-ind-check"
    <3>1. On("no-kind-ind-check", "kind_no_ind_check") \in Rows
      BY DEF Rows, KindOptions
    <3>2. QED  BY <2>3, <3>1 DEF On
  <2>4. QED  BY <2>1, <2>2, <2>3 DEF WiderNames
<1>2. usage[o] \in Rows /\ usage[o].opt = o
  <2> DEFINE row == CHOOSE r \in Rows : r.opt = o
  <2>1. row \in Rows /\ row.opt = o
    BY <1>1
  <2>2. o \in { r.opt : r \in Rows }
    BY <1>1
  <2>3. usage[o] = row
    BY <2>2 DEF usage
  <2>4. QED  BY <2>1, <2>3
<1>3. usage[o] \in Wider
  BY <1>2, WiderRows
<1>4. CASE usage[o] = Word("vcd", "vcd_name")
  <2>1. o = "vcd"
    BY <1>2, <1>4 DEF Word
  <2>2. QED  BY <1>4, <2>1
<1>5. CASE usage[o] = Word("dump-btor2-witness", "btor2_witness_name")
  <2>1. o = "dump-btor2-witness"
    BY <1>2, <1>5 DEF Word
  <2>2. QED  BY <1>5, <2>1
<1>6. CASE usage[o] = On("no-kind-ind-check", "kind_no_ind_check")
  <2>1. o = "no-kind-ind-check"
    BY <1>2, <1>6 DEF On
  <2>2. QED  BY <1>6, <2>1
<1>7. QED
  BY <1>3, <1>4, <1>5, <1>6 DEF Wider

-----------------------------------------------------------------------------
(* The fields.                                                             *)

\* The options of IC3IA with no break behind them, and what they set besides
\* their own fields.
FallThrough == {"no-ic3ia-reduce-preds", "no-ic3ia-track-important-vars"}
FallenInto  == {"ic3ia_track_important_vars", "ic3ia_sim_cex"}

\* A field no option of the line sets by falling into another one.
Told(f) == f \in FallenInto => \A i \in DOMAIN argv : argv[i].opt \notin FallThrough

\* What options set besides their fields.
LEMMA AlsoSetsTable ==
  ASSUME NEW o
  PROVE  /\ o = "vcd" => AlsoSets(o) = [witness |-> TRUE]
         /\ o = "dump-btor2-witness" => AlsoSets(o) = [witness |-> TRUE]
         /\ o = "no-kind-ind-check" =>
              AlsoSets(o) = [ kind_no_ind_check_init_states |-> TRUE,
                              kind_no_ind_check_property |-> TRUE ]
         /\ o \in FallThrough => DOMAIN AlsoSets(o) \subseteq FallenInto
         /\ o \notin WiderNames \cup FallThrough => AlsoSets(o) = <<>>
<1>1. o = "vcd" => AlsoSets(o) = [witness |-> TRUE]
  BY DEF AlsoSets
<1>2. o = "dump-btor2-witness" => AlsoSets(o) = [witness |-> TRUE]
  BY DEF AlsoSets
<1>3. o = "no-kind-ind-check" =>
        AlsoSets(o) = [kind_no_ind_check_init_states |-> TRUE, kind_no_ind_check_property |-> TRUE]
  BY DEF AlsoSets
<1>4. ASSUME o = "no-ic3ia-reduce-preds"
      PROVE  DOMAIN AlsoSets(o) = {"ic3ia_track_important_vars", "ic3ia_sim_cex"}
  BY <1>4 DEF AlsoSets
<1>5. ASSUME o = "no-ic3ia-track-important-vars"
      PROVE  DOMAIN AlsoSets(o) = {"ic3ia_sim_cex"}
  BY <1>5 DEF AlsoSets
<1>6. ASSUME o \notin WiderNames \cup FallThrough
      PROVE  AlsoSets(o) = <<>>
  BY <1>6 DEF AlsoSets, WiderNames, FallThrough
<1>7. QED  BY <1>1, <1>2, <1>3, <1>4, <1>5, <1>6 DEF FallThrough, FallenInto

\* An option sets what it is documented to set, to what it is documented to.
LEMMA SetsAsDocumented ==
  ASSUME NEW o \in STRING, NEW f, f \in FallenInto => o \notin FallThrough
  PROVE  /\ f \in Documented(o) <=> f \in DOMAIN AlsoSets(o) \cup {usage[o].field}
         /\ f \in DOMAIN AlsoSets(o) =>
              /\ AlsoSets(o)[f] = TRUE
              /\ usage[o].check = "None" => usage[o].to = TRUE
              /\ usage[o].check # "None" => f # usage[o].field
<1>1. CASE o \in FallThrough
  <2>1. f \notin FallenInto
    BY <1>1
  <2>2. DOMAIN AlsoSets(o) \subseteq FallenInto /\ Documented(o) = {usage[o].field}
    BY <1>1, AlsoSetsTable DEF Documented, FallThrough
  <2>3. QED  BY <2>1, <2>2
<1>2. CASE o \in WiderNames
  BY <1>2, WiderTable, AlsoSetsTable DEF Documented, WiderNames, Word, On
<1>3. CASE o \notin FallThrough /\ o \notin WiderNames
  <2>1. AlsoSets(o) = <<>> /\ Documented(o) = {usage[o].field}
    BY <1>3, AlsoSetsTable DEF Documented, WiderNames
  <2>2. DOMAIN <<>> = {}
    OBVIOUS
  <2>3. QED  BY <2>1, <2>2
<1>4. QED  BY <1>1, <1>2, <1>3

\* Which of the first n words of the line are documented to set a field.
Setters(f, n) == { i \in DOMAIN argv : i <= n /\ argv[i].opt # "file" /\ f \in Documented(argv[i].opt) }

\* The fields are what the first n words say.
FieldsSay(n) ==
  \A f : Told(f) =>
    /\ Setters(f, n) = {} => f \notin DOMAIN fields
    /\ Setters(f, n) # {} =>
         \E i \in Setters(f, n) :
           /\ \A j \in Setters(f, n) : j <= i
           /\ f \in DOMAIN fields /\ fields[f] = DocumentedValue(i, f)

OptionsInv ==
  /\ argv \in CommandLines
  /\ atOption \in Nat
  /\ result = "none" => FieldsSay(atOption - 1)
  /\ result = "UNKNOWN" => FieldsSay(Len(argv))

\* Nothing is read at the start.
LEMMA OptionsInitInv == OptionsInit => OptionsInv
<1> SUFFICES ASSUME OptionsInit
             PROVE  OptionsInv
  OBVIOUS
<1>1. argv \in CommandLines /\ atOption = 0 /\ fields = <<>> /\ result = "none"
  BY DEF OptionsInit, OptionsStart
<1>2. argv \in Seq([opt : STRING, arg : STRING])
  BY <1>1, CommandLinesAssumption
<1>3. \A f : Setters(f, -1) = {}
  BY <1>2 DEF Setters
<1>4. DOMAIN fields = {} /\ atOption - 1 = -1
  BY <1>1
<1>5. FieldsSay(atOption - 1)
  BY <1>3, <1>4 DEF FieldsSay
<1>6. QED  BY <1>1, <1>5 DEF OptionsInv

\* A word of the line is an option with its argument.
LEMMA ElementIn ==
  ASSUME NEW S, NEW s \in Seq(S), NEW i \in DOMAIN s
  PROVE  s[i] \in S
OBVIOUS

\* A turn of the loop that reads an option gives its fields their documented
\* values, and leaves the others.
LEMMA ReadOptionSays ==
  ASSUME OptionsInv, ReadOption, result' = "none"
  PROVE  FieldsSay(atOption - 1)'
<1> DEFINE o == argv[atOption]
           u == usage[o.opt]
           value == IF u.check = "None" THEN u.to ELSE o.arg
<1>1. /\ argv \in Seq([opt : STRING, arg : STRING])
      /\ atOption \in DOMAIN argv /\ atOption \in Nat
      /\ FieldsSay(atOption - 1)
      /\ argv' = argv /\ atOption' - 1 = atOption
  BY CommandLinesAssumption DEF OptionsInv, ReadOption
<1>2. \A i \in DOMAIN argv : i \in Nat
  BY <1>1
<1>3. o.opt = "file" => fields' = fields
  BY DEF ReadOption
<1>4. o.opt # "file" => fields' = Over(AlsoSets(o.opt), Over([ f \in {u.field} |-> value ], fields))
  BY DEF ReadOption
<1>5. ASSUME NEW f, Told(f)
      PROVE  /\ Setters(f, atOption) = {} => f \notin DOMAIN fields'
             /\ Setters(f, atOption) # {} =>
                  \E i \in Setters(f, atOption) :
                    /\ \A j \in Setters(f, atOption) : j <= i
                    /\ f \in DOMAIN fields' /\ fields'[f] = DocumentedValue(i, f)
  <2>1. o.opt \in STRING /\ (f \in FallenInto => o.opt \notin FallThrough)
    <3>1. o \in [opt : STRING, arg : STRING]
      BY <1>1, ElementIn
    <3>2. QED  BY <1>1, <1>5, <3>1 DEF Told
  <2>2. /\ f \in Documented(o.opt) <=> f \in DOMAIN AlsoSets(o.opt) \cup {u.field}
        /\ f \in DOMAIN AlsoSets(o.opt) =>
             /\ AlsoSets(o.opt)[f] = TRUE
             /\ u.check = "None" => u.to = TRUE
             /\ u.check # "None" => f # u.field
    BY <2>1, SetsAsDocumented
  <2>3. CASE o.opt = "file" \/ f \notin Documented(o.opt)
    <3>1. Setters(f, atOption) = Setters(f, atOption - 1)
      BY <1>1, <1>2, <2>3 DEF Setters
    <3>2. /\ f \in DOMAIN fields' <=> f \in DOMAIN fields
          /\ f \in DOMAIN fields => fields'[f] = fields[f]
      BY <1>3, <1>4, <2>2, <2>3 DEF Over
    <3>3. QED  BY <1>1, <1>5, <3>1, <3>2 DEF FieldsSay
  <2>4. CASE o.opt # "file" /\ f \in Documented(o.opt)
    <3>1. atOption \in Setters(f, atOption) /\ \A j \in Setters(f, atOption) : j <= atOption
      BY <1>1, <2>4 DEF Setters
    <3>2. CASE f \in DOMAIN AlsoSets(o.opt)
      <4>1. f \in DOMAIN fields' /\ fields'[f] = TRUE
        BY <1>4, <2>2, <2>4, <3>2 DEF Over
      <4>2. DocumentedValue(atOption, f) = TRUE
        BY <2>2, <3>2 DEF DocumentedValue
      <4>3. QED  BY <3>1, <4>1, <4>2
    <3>3. CASE f \notin DOMAIN AlsoSets(o.opt)
      <4>1. f = u.field
        BY <2>2, <2>4, <3>3
      <4>2. f \in DOMAIN fields' /\ fields'[f] = value
        BY <1>4, <2>4, <3>3, <4>1 DEF Over
      <4>3. DocumentedValue(atOption, f) = value
        BY <4>1 DEF DocumentedValue
      <4>4. QED  BY <3>1, <4>2, <4>3
    <3>4. QED  BY <3>2, <3>3
  <2>5. QED  BY <2>3, <2>4
<1>6. QED  BY <1>1, <1>5 DEF FieldsSay, Told, Setters, DocumentedValue

\* The invariant through a turn of the loop.
LEMMA OptionsStepInv == OptionsInv /\ [OptionsNext]_optionVars => OptionsInv'
<1> SUFFICES ASSUME OptionsInv, [OptionsNext]_optionVars
             PROVE  OptionsInv'
  OBVIOUS
<1> USE DEF OptionsInv
<1>1. CASE ParseOptions
  <2>1. argv' = argv /\ fields' = fields /\ atOption = 0 /\ atOption' \in {0, 1} /\ result = "none"
        /\ result' # "UNKNOWN" /\ (result' = "none" => atOption' = 1)
    BY <1>1 DEF ParseOptions
  <2>2. argv \in Seq([opt : STRING, arg : STRING])
    BY CommandLinesAssumption
  <2>3. \A f : Setters(f, 0) = Setters(f, -1)
    BY <2>2 DEF Setters
  <2>4. atOption - 1 = -1
    BY <2>1
  <2>5. FieldsSay(0)
    BY <2>1, <2>3, <2>4 DEF FieldsSay
  <2>6. FieldsSay(0)'
    BY <2>1, <2>5 DEF FieldsSay, Told, Setters, DocumentedValue
  <2>7. QED  BY <2>1, <2>6
<1>2. CASE ReadOption
  <2>1. argv' = argv /\ atOption' = atOption + 1 /\ result' # "UNKNOWN"
    BY <1>2 DEF ReadOption
  <2>2. result' = "none" => FieldsSay(atOption - 1)'
    BY <1>2, ReadOptionSays
  <2>3. QED  BY <2>1, <2>2
<1>3. CASE OptionsRead
  <2>1. /\ argv' = argv /\ fields' = fields /\ atOption' = atOption
        /\ result' = "UNKNOWN" /\ result = "none" /\ atOption - 1 = Len(argv)
    <3>1. argv \in Seq([opt : STRING, arg : STRING])
      BY CommandLinesAssumption
    <3>2. QED  BY <1>3, <3>1 DEF OptionsRead
  <2>2. FieldsSay(Len(argv))
    BY <2>1
  <2>3. FieldsSay(Len(argv))'
    BY <2>1, <2>2 DEF FieldsSay, Told, Setters, DocumentedValue
  <2>4. QED  BY <2>1, <2>3
<1>4. CASE UNCHANGED optionVars
  BY <1>4 DEF optionVars, FieldsSay, Told, Setters, DocumentedValue
<1>5. QED  BY <1>1, <1>2, <1>3, <1>4 DEF OptionsNext

\* OptionsAsDocumented for the fields no option falls into.
ToldFieldsAsDocumented ==
  result = "UNKNOWN" =>
    \A f \in { usage[o].field : o \in DOMAIN usage } \ FallenInto :
      LET setters == { i \in DOMAIN argv : argv[i].opt # "file" /\ f \in Documented(argv[i].opt) }
      IN  Field(f) = IF setters = {} THEN Default(f)
                     ELSE DocumentedValue(CHOOSE i \in setters : \A j \in setters : j <= i, f)

\* At the end of the line the invariant is what the help says of a field.
LEMMA InvFieldDocumented ==
  ASSUME OptionsInv, result = "UNKNOWN", NEW f, Told(f),
         NEW setters, setters = { i \in DOMAIN argv : argv[i].opt # "file" /\ f \in Documented(argv[i].opt) }
  PROVE  Field(f) = IF setters = {} THEN Default(f)
                    ELSE DocumentedValue(CHOOSE i \in setters : \A j \in setters : j <= i, f)
<1>1. argv \in Seq([opt : STRING, arg : STRING]) /\ FieldsSay(Len(argv))
  BY CommandLinesAssumption DEF OptionsInv
<1>2. setters = Setters(f, Len(argv)) /\ setters \subseteq Nat
  BY <1>1 DEF Setters
<1>3. CASE setters = {}
  BY <1>1, <1>2, <1>3 DEF FieldsSay, Field
<1>4. CASE setters # {}
  <2>1. PICK i \in setters : /\ \A j \in setters : j <= i
                             /\ f \in DOMAIN fields /\ fields[f] = DocumentedValue(i, f)
    BY <1>1, <1>2, <1>4 DEF FieldsSay
  <2> DEFINE k == CHOOSE l \in setters : \A j \in setters : j <= l
  <2>2. k \in setters /\ \A j \in setters : j <= k
    BY <2>1
  <2>3. k = i
    <3>1. k <= i /\ i <= k /\ k \in Nat /\ i \in Nat
      BY <1>2, <2>1, <2>2
    <3>2. QED  BY <3>1
  <2>4. QED  BY <1>4, <2>1, <2>3 DEF Field
<1>5. QED  BY <1>3, <1>4

\* The invariant of the options.
LEMMA OptionsInvariance == OptionsSpec => []OptionsInv
BY OptionsInitInv, OptionsStepInv, PTL DEF OptionsSpec

\* Whatever the order of the options and whatever is given twice, each field has
\* the value of the last option that is documented to set it, or its default:
\* on command lines without the two options of IC3IA that have no break behind
\* them (options.cpp:991).
THEOREM OptionsAreAsDocumented ==
  ASSUME \A line \in CommandLines : \A i \in DOMAIN line : line[i].opt \notin FallThrough
  PROVE  OptionsSpec => []OptionsAsDocumented
<1>1. OptionsInv => OptionsAsDocumented
  BY InvFieldDocumented DEF OptionsInv, OptionsAsDocumented, Told
<1>2. QED  BY <1>1, OptionsInvariance, PTL

\* On every command line the same is true of every field but the two that are
\* fallen into.
THEOREM OtherFieldsAreAsDocumented == OptionsSpec => []ToldFieldsAsDocumented
<1>1. OptionsInv => ToldFieldsAsDocumented
  BY InvFieldDocumented DEF ToldFieldsAsDocumented, Told
<1>2. QED  BY <1>1, OptionsInvariance, PTL

-----------------------------------------------------------------------------
(* The helpers of the library.                                             *)

\* A set of numbers up to n that is not empty has a largest one.
LEMMA GreatestUpTo ==
  ASSUME NEW n \in Nat, NEW T, T \subseteq 1..n, T # {}
  PROVE  \E x \in T : \A y \in T : y <= x
<1> DEFINE U == { n - y : y \in T }
<1>1. U \subseteq Nat /\ U # {}
  <2>1. \A y \in T : n - y \in Nat
    OBVIOUS
  <2>2. U \subseteq Nat
    BY <2>1
  <2>3. PICK y \in T : TRUE
    OBVIOUS
  <2>4. n - y \in U
    OBVIOUS
  <2>5. QED  BY <2>2, <2>4
<1>2. PICK u \in U : \A v \in U : u <= v
  <2> HIDE DEF U
  <2>1. QED  BY <1>1, LeastNat
<1>3. PICK x \in T : u = n - x
  BY <1>2
<1>4. ASSUME NEW y \in T
      PROVE  y <= x
  <2>1. u <= n - y
    BY <1>2
  <2>2. QED  BY <1>3, <2>1
<1>5. QED  BY <1>4

\* Max and Min of the library.
LEMMA MaxIs ==
  ASSUME NEW n \in Nat, NEW T, T \subseteq 1..n, T # {}
  PROVE  Max(T) \in T /\ \A y \in T : y <= Max(T)
<1>1. PICK x \in T : \A y \in T : y <= x
  BY GreatestUpTo
<1>2. \A y \in T : x >= y
  BY <1>1
<1>3. Max(T) \in T /\ \A y \in T : Max(T) >= y
  BY <1>2 DEF Max
<1>4. QED  BY <1>3

LEMMA MinIs ==
  ASSUME NEW T, T \subseteq Nat, T # {}
  PROVE  Min(T) \in T
<1>1. PICK x \in T : \A y \in T : x <= y
  BY LeastNat
<1>2. QED  BY <1>1 DEF Min

\* SetToSeq names every member, once.
LEMMA SetToSeqIs ==
  ASSUME NEW S, IsFiniteSet(S)
  PROVE  /\ Cardinality(S) \in Nat
         /\ SetToSeq(S) \in [1..Cardinality(S) -> S]
         /\ \A e \in S : \E k \in 1..Cardinality(S) : SetToSeq(S)[k] = e
<1> DEFINE n == Cardinality(S)
           Good(f) == f \in [1..n -> S] /\ IsInjective(f)
<1>1. n \in Nat
  BY FS_CardinalityType
<1>2. IsFiniteSet(1..n) /\ Cardinality(1..n) = n
  BY <1>1, FS_Interval
<1>3. PICK f : f \in Bijection(1..n, S)
  BY <1>2, FS_SameCardinalityBij DEF ExistsBijection
<1>4. Good(f)
  BY <1>3 DEF Bijection, Injection, IsInjective
<1>5. Good(SetToSeq(S))
  BY <1>4 DEF SetToSeq
<1>6. SetToSeq(S) \in Injection(1..n, S)
  BY <1>5 DEF Injection, IsInjective
<1>7. SetToSeq(S) \in Surjection(1..n, S)
  BY <1>2, <1>6, FS_Injection
<1>8. QED  BY <1>1, <1>5, <1>7 DEF Surjection

-----------------------------------------------------------------------------
(* Runs, and what is read of them.                                         *)

\* A run of n steps is a sequence of n + 1 points.
LEMMA RunsArePoints ==
  ASSUME NEW d \in Designs, NEW n \in Nat, NEW p \in Runs(d, n, 0)
  PROVE  p \in Seq(d.states \X d.inputs) /\ Len(p) = n + 1
<1> DEFINE Points == d.states \X d.inputs
           First == { << <<s, i>> >> : s \in d.init, i \in d.inputs }
           Longer(t, runs) == UNION { { Append(q, <<s, i>>) :
                         s \in IF t > n - 0 THEN d.states ELSE d.next[q[t]], i \in d.inputs } :
                     q \in runs }
           Is(f, m) == f = [ t \in 0..m |-> IF t = 0 THEN First ELSE Longer(t, f[t - 1]) ]
           T == { m \in Nat : \E f : Is(f, m) }
<1> HIDE DEF First, Longer
<1>1. 0 \in T
  <2>1. Is([ t \in 0..0 |-> First ], 0)
    OBVIOUS
  <2> HIDE DEF Is
  <2>2. QED  BY <2>1
<1>2. ASSUME NEW m \in Nat, m \in T
      PROVE  m + 1 \in T
  <2>1. \E f : Is(f, m)
    <3> HIDE DEF Is
    <3>1. QED  BY <1>2
  <2>2. PICK f : Is(f, m)
    BY <2>1
  <2> DEFINE g == [ t \in 0..m + 1 |-> IF t = m + 1 THEN Longer(m + 1, f[m]) ELSE f[t] ]
  <2>3. \A t \in 0..m + 1 : g[t] = IF t = 0 THEN First ELSE Longer(t, g[t - 1])
    <3> SUFFICES ASSUME NEW t \in 0..m + 1
                 PROVE  g[t] = IF t = 0 THEN First ELSE Longer(t, g[t - 1])
      OBVIOUS
    <3>1. CASE t = m + 1
      <4>1. t # 0 /\ t - 1 = m /\ m \in 0..m + 1 /\ m # m + 1
        BY <3>1
      <4>2. QED  BY <3>1, <4>1
    <3>2. CASE t \in 0..m
      <4>1. g[t] = f[t] /\ (t # 0 => g[t - 1] = f[t - 1])
        BY <3>2
      <4>2. f[t] = IF t = 0 THEN First ELSE Longer(t, f[t - 1])
        BY <2>2, <3>2
      <4>3. QED  BY <4>1, <4>2
    <3>3. QED  BY <3>1, <3>2
  <2>4. Is(g, m + 1)
    <3>1. g = [ t \in 0..m + 1 |-> g[t] ]
      OBVIOUS
    <3> HIDE DEF g
    <3>2. QED  BY <2>3, <3>1
  <2> HIDE DEF Is
  <2>5. QED  BY <2>4
<1>3. \E f : Is(f, n)
  <2>1. n \in T
    <3> HIDE DEF T
    <3>1. QED  BY <1>1, <1>2, NatSetInduction
  <2> HIDE DEF Is
  <2>2. QED  BY <2>1
<1> DEFINE run == CHOOSE f : Is(f, n)
<1>4. Is(run, n)
  <2> HIDE DEF Is
  <2>1. QED  BY <1>3
<1>5. Runs(d, n, 0) = run[n]
  BY DEF Runs, First, Longer
<1> HIDE DEF run
<1> DEFINE Typed == { t \in 0..n : \A q \in run[t] : q \in Seq(Points) /\ Len(q) = t + 1 }
<1>6. 0 \in Typed
  <2>1. d.init \subseteq d.states
    BY DesignsAssumption
  <2>2. run[0] = First
    BY <1>4
  <2>3. QED  BY <2>1, <2>2 DEF First
<1>7. \A t \in 0..n : t \in Typed /\ t + 1 \in 0..n => t + 1 \in Typed
  <2> SUFFICES ASSUME NEW t \in 0..n, t \in Typed, t + 1 \in 0..n
               PROVE  t + 1 \in Typed
    OBVIOUS
  <2>1. run[t + 1] = Longer(t + 1, run[t])
    <3>1. t + 1 # 0 /\ (t + 1) - 1 = t
      OBVIOUS
    <3>2. QED  BY <1>4, <3>1
  <2>2. ASSUME NEW q \in run[t + 1]
        PROVE  q \in Seq(Points) /\ Len(q) = (t + 1) + 1
    <3> DEFINE Next(r) == IF t + 1 > n - 0 THEN d.states ELSE d.next[r[t + 1]]
               After(r) == { Append(r, <<s, i>>) : s \in Next(r), i \in d.inputs }
    <3>0. PICK r \in run[t] : q \in After(r)
      <4>1. run[t + 1] = UNION { After(r) : r \in run[t] }
        BY <2>1 DEF Longer
      <4> HIDE DEF After
      <4>2. QED  BY <2>2, <4>1
    <3>1. PICK s \in Next(r), i \in d.inputs : q = Append(r, <<s, i>>)
      BY <3>0
    <3>2. r \in Seq(Points) /\ Len(r) = t + 1 /\ r[t + 1] \in Points
      OBVIOUS
    <3>3. ~(t + 1 > n - 0) /\ d.next[r[t + 1]] \subseteq d.states
      BY <3>2, DesignsAssumption
    <3>4. <<s, i>> \in Points
      BY <3>1, <3>3
    <3>5. QED  BY <3>1, <3>2, <3>4
  <2>3. QED  BY <2>2
<1>8. 0..n \subseteq Typed
  <2> HIDE DEF Typed
  <2>1. QED  BY <1>6, <1>7, IntervalInduction
<1>9. QED  BY <1>5, <1>8

\* The elements of an array survive being stores around a constant.
LEMMA ElementOfArray ==
  ASSUME NEW S, IsFiniteSet(S), NEW array \in [S -> Nat],
         NEW style \in {"zeros", "ones", "open"}, NEW i \in S
  PROVE  Element(ArrayValue(array, style), i) = array[i]
<1> DEFINE base == CASE style = "zeros" -> 0 [] style = "ones" -> 1 [] style = "open" -> NoValue
           other == { j \in DOMAIN array : array[j] # base }
           indices == SetToSeq(other)
           stores == [ k \in DOMAIN indices |-> <<indices[k], array[indices[k]]>> ]
           stored == { k \in DOMAIN stores : stores[k][1] = i }
<1>1. ArrayValue(array, style) = [stores |-> stores, base |-> base]
  BY DEF ArrayValue
<1>2. IsFiniteSet(other)
  BY FS_Subset
<1> HIDE DEF base
<1>3. /\ Cardinality(other) \in Nat
      /\ indices \in [1..Cardinality(other) -> other]
      /\ \A e \in other : \E k \in 1..Cardinality(other) : indices[k] = e
  <2> HIDE DEF other
  <2>1. QED  BY <1>2, SetToSeqIs
<1> HIDE DEF indices
<1>4. stored \subseteq Nat /\ \A k \in stored : k \in DOMAIN indices /\ indices[k] = i
  BY <1>3
<1>5. CASE stored = {}
  <2>1. array[i] = base
    BY <1>3, <1>5
  <2>2. QED  BY <1>1, <1>5, <2>1 DEF Element
<1>6. CASE stored # {}
  <2>1. Min(stored) \in stored
    BY <1>4, <1>6, MinIs
  <2>2. stores[Min(stored)][2] = array[i]
    BY <1>4, <2>1
  <2>3. QED  BY <1>1, <1>6, <2>2 DEF Element
<1>7. QED  BY <1>5, <1>6
-----------------------------------------------------------------------------
(* The witness.                                                            *)

\* Joining to nothing.
LEMMA NothingJoined ==
  ASSUME NEW m \in Nat, NEW s, s = [ k \in 1..m |-> s[k] ]
  PROVE  <<>> \o s = s /\ Len(s) = m /\ DOMAIN s = 1..m
<1> DEFINE Values == { s[k] : k \in 1..m }
<1>1. s \in [1..m -> Values]
  OBVIOUS
<1>2. s \in Seq(Values) /\ Len(s) = m
  BY <1>1
<1>3. QED  BY <1>1, <1>2

\* The maps are the values of a counterexample of n steps.
FromCex(maps, n) == \E p \in Counterexamples(design, n) : maps = ComputeWitness(p, n)

WitnessTyped == design \in Designs /\ solver \in Solvers /\ asks \in Nat

\* Nothing is there before the answer.
WitnessNothingYet == client = "check" => witness = <<>> /\ out = <<>> /\ asks = 0

\* An engine that unrolls has its witness from the answer on.
WitnessAtAnswer ==
  client # "check" /\ engine # "ic3" =>
    /\ reachedK + 1 \in 0..MaxSteps
    /\ FromCex(witness, reachedK + 1)
    /\ out # <<>> => out = Transfer(witness)

\* An IC3 has goals as long as a counterexample, and its witness is one of
\* that length until it is asked a second time, when the values are appended.
WitnessWhenAsked ==
  client # "check" /\ engine = "ic3" =>
    /\ Len(cexGoals) - 1 \in 0..MaxSteps
    /\ Counterexamples(design, Len(cexGoals) - 1) # {}
    /\ asks = 0 => witness = <<>> /\ out = <<>>
    /\ asks <= 1 /\ out # <<>> =>
         FromCex(witness, Len(cexGoals) - 1) /\ out = Transfer(witness)

WitnessInv == WitnessTyped /\ WitnessNothingYet /\ WitnessAtAnswer /\ WitnessWhenAsked

\* The values of a counterexample are as many as it has points.
LEMMA WitnessComputed ==
  ASSUME NEW n \in Nat, NEW p
  PROVE  /\ <<>> \o ComputeWitness(p, n) = ComputeWitness(p, n)
         /\ Len(ComputeWitness(p, n)) = n + 1
         /\ DOMAIN ComputeWitness(p, n) = 1..n + 1
<1> DEFINE w == ComputeWitness(p, n)
<1>1. w = [ k \in 1..n + 1 |-> w[k] ]
  BY DEF ComputeWitness
<1>2. n + 1 \in Nat
  OBVIOUS
<1> HIDE DEF w
<1>3. <<>> \o w = w /\ Len(w) = n + 1 /\ DOMAIN w = 1..n + 1
  BY <1>1, <1>2, NothingJoined
<1>4. QED  BY <1>3 DEF w

\* A copy of the values of a counterexample shows its points.
LEMMA CopyShowsCex ==
  ASSUME WitnessTyped, NEW n \in 0..MaxSteps, FromCex(witness, n), out = Transfer(witness)
  PROVE  \E p \in Counterexamples(design, n) :
           /\ Len(out) = n + 1
           /\ \A k \in 1..n + 1 :
                /\ \A v \in design.statevars : Read(v, k) = p[k][1][v]
                /\ \A v \in design.inputvars : Read(v, k) = p[k][2]
<1>n. n \in Nat
  BY WitnessBounds
<1>1. PICK p \in Counterexamples(design, n) : witness = ComputeWitness(p, n)
  BY DEF FromCex
<1>2. p \in Seq(design.states \X design.inputs) /\ Len(p) = n + 1
  BY <1>n, RunsArePoints DEF Counterexamples, WitnessTyped
<1>3. DOMAIN witness = 1..n + 1
  BY <1>n, <1>1, WitnessComputed
<1> DEFINE Terms == design.statevars \cup design.inputvars \cup ({ m.term : m \in design.named } \ design.nextvars)
<1>4. \A k \in 1..n + 1 : witness[k] = ValuesIn(design, p[k], solver.style)
  BY <1>1 DEF ComputeWitness
<1>5. \A k \in 1..n + 1 : DOMAIN witness[k] = Terms
  BY <1>4 DEF ValuesIn
<1>6. Len(out) = n + 1
  <2>1. out = [ k \in 1..n + 1 |-> out[k] ]
    BY <1>3 DEF Transfer
  <2>2. n + 1 \in Nat
    BY <1>n
  <2>3. QED  BY <2>1, <2>2, NothingJoined
<1>7. ASSUME NEW k \in 1..n + 1
      PROVE  /\ design.statevars \cup design.inputvars \subseteq DOMAIN out[k]
             /\ \A v \in design.statevars \cup design.inputvars : out[k][v] = witness[k][v]
  BY <1>3, <1>5 DEF Transfer
<1>8. ASSUME NEW k \in 1..n + 1, NEW v \in design.statevars
      PROVE  Read(v, k) = p[k][1][v]
  <2>1. CASE v \in design.arrays
    <3>1. p[k][1] \in design.states
      BY <1>2
    <3>2. p[k][1][v] \in [design.indices -> Nat] /\ IsFiniteSet(design.indices)
      BY <2>1, <3>1, DesignsAssumption DEF WitnessTyped
    <3>3. out[k][v] = ArrayValue(p[k][1][v], solver.style)
      BY <1>4, <1>7, <2>1 DEF ValuesIn
    <3>4. solver.style \in {"zeros", "ones", "open"}
      BY DEF WitnessTyped, Solvers
    <3>5. \A i \in design.indices : Element(out[k][v], i) = p[k][1][v][i]
      BY <3>2, <3>3, <3>4, ElementOfArray
    <3>6. QED  BY <2>1, <3>2, <3>5 DEF Read
  <2>2. CASE v \notin design.arrays
    <3>1. v \in Terms
      OBVIOUS
    <3>2. witness[k][v] = p[k][1][v]
      BY <1>4, <2>2, <3>1 DEF ValuesIn
    <3>3. out[k][v] = witness[k][v]
      BY <1>7
    <3>4. QED  BY <2>2, <3>2, <3>3 DEF Read
  <2>3. QED  BY <2>1, <2>2
<1>9. ASSUME NEW k \in 1..n + 1, NEW v \in design.inputvars
      PROVE  Read(v, k) = p[k][2]
  <2>1. v \notin design.arrays /\ v \notin design.statevars
    BY DesignsAssumption DEF WitnessTyped
  <2>2. v \in Terms
    OBVIOUS
  <2>3. witness[k][v] = p[k][2]
    BY <1>4, <2>1, <2>2 DEF ValuesIn
  <2>4. out[k][v] = witness[k][v]
    BY <1>7
  <2>5. QED  BY <2>1, <2>3, <2>4 DEF Read
<1>10. QED  BY <1>6, <1>8, <1>9

\* No engine has answered yet.
LEMMA WitnessInitInv == WitnessInit => WitnessInv
<1> SUFFICES ASSUME WitnessInit
             PROVE  WitnessInv
  OBVIOUS
<1>1. QED  BY DEF WitnessInit, WitnessStart, WitnessInv, WitnessTyped, WitnessNothingYet,
                  WitnessAtAnswer, WitnessWhenAsked

\* Bounds on the steps, as numbers.
LEMMA StepsAreNumbers == 0..MaxSteps \subseteq Nat /\ MaxSteps \in Nat
  BY WitnessBounds

\* The invariant through the answer of each engine, the calls of witness() and
\* the printer.
LEMMA WitnessStepInv == WitnessInv /\ [WitnessNext]_witnessVars => WitnessInv'
<1> SUFFICES ASSUME WitnessInv, [WitnessNext]_witnessVars
             PROVE  WitnessInv'
  OBVIOUS
<1> USE DEF prover, printer
<1>1. CASE FindUnrolling
  <2>0. PICK n \in 0..MaxSteps : \E model \in Counterexamples(design, n) :
               reachedK' = n - 1 /\ witness' = witness \o ComputeWitness(model, WitnessLength(cexGoals))
    BY <1>1 DEF FindUnrolling
  <2>1. PICK model \in Counterexamples(design, n) :
               reachedK' = n - 1 /\ witness' = witness \o ComputeWitness(model, WitnessLength(cexGoals))
    BY <2>0
  <2>2. n \in Nat /\ reachedK' + 1 = n
    BY <2>1, StepsAreNumbers
  <2>3. WitnessLength(cexGoals) = n
    BY <1>1, <2>2 DEF FindUnrolling, WitnessLength
  <2>4. witness' = ComputeWitness(model, n)
    BY <1>1, <2>1, <2>2, <2>3, WitnessComputed DEF FindUnrolling, WitnessInv, WitnessNothingYet
  <2>5. FromCex(witness, reachedK + 1)'
    BY <1>1, <2>2, <2>4 DEF FindUnrolling, FromCex, ComputeWitness
  <2>6. out' = <<>>
    BY <1>1 DEF FindUnrolling, WitnessInv, WitnessNothingYet
  <2>7. QED  BY <1>1, <2>2, <2>5, <2>6 DEF FindUnrolling, WitnessInv, WitnessTyped, WitnessNothingYet,
                  WitnessAtAnswer, WitnessWhenAsked
<1>2. CASE FindIC3
  <2>1. PICK n \in 0..MaxSteps : \E goals \in [1..n -> design.goals] :
               Counterexamples(design, n) # {} /\ cexGoals' = Append(goals, design.bad)
    BY <1>2 DEF FindIC3
  <2>1g. PICK goals \in [1..n -> design.goals] :
               Counterexamples(design, n) # {} /\ cexGoals' = Append(goals, design.bad)
    BY <2>1
  <2>2. n \in Nat
    BY StepsAreNumbers
  <2>3. goals \in Seq(design.goals) /\ Len(goals) = n
    BY <2>2
  <2>4. Len(cexGoals') - 1 = n
    <3>1. goals \in Seq(design.goals \cup {design.bad})
      BY <2>3
    <3>2. QED  BY <2>1g, <2>2, <2>3, <3>1
  <2>5. QED  BY <1>2, <2>1g, <2>4 DEF FindIC3, WitnessInv, WitnessTyped, WitnessNothingYet,
                  WitnessAtAnswer, WitnessWhenAsked, Counterexamples
<1>3. CASE ProveMsat
  <2>0. PICK n \in 0..MaxSteps : \E p \in Counterexamples(design, n) :
          LET wit == [ t \in DOMAIN p |-> p[t][1] ]
          IN  /\ reachedK' = Len(wit) - 2
              /\ \E model \in MsatModels(wit) :
                   witness' = witness \o ComputeWitness(model, WitnessLength(cexGoals))
    BY <1>3 DEF ProveMsat
  <2>1. PICK p \in Counterexamples(design, n) :
          LET wit == [ t \in DOMAIN p |-> p[t][1] ]
          IN  /\ reachedK' = Len(wit) - 2
              /\ \E model \in MsatModels(wit) :
                   witness' = witness \o ComputeWitness(model, WitnessLength(cexGoals))
    BY <2>0
  <2> DEFINE wit == [ t \in DOMAIN p |-> p[t][1] ]
  <2>2. n \in Nat /\ n + 1 \in Nat
    BY StepsAreNumbers
  <2>3. Len(p) = n + 1 /\ DOMAIN p = 1..n + 1
    <3>1. p \in Seq(design.states \X design.inputs) /\ Len(p) = n + 1
      BY <2>2, RunsArePoints DEF Counterexamples, WitnessInv, WitnessTyped
    <3>2. QED  BY <3>1
  <2>4. Len(wit) = n + 1
    <3>1. wit = [ k \in 1..n + 1 |-> wit[k] ]
      BY <2>3
    <3> HIDE DEF wit
    <3>2. QED  BY <2>2, <3>1, NothingJoined
  <2>5. PICK model \in MsatModels(wit) :
               witness' = witness \o ComputeWitness(model, WitnessLength(cexGoals))
    BY <2>1
  <2>6. model \in Counterexamples(design, n)
    <3> HIDE DEF wit
    <3>1. Len(wit) - 1 = n
      BY <2>2, <2>4
    <3>2. QED  BY <2>5, <3>1 DEF MsatModels
  <2>7. reachedK' + 1 = n
    BY <2>1, <2>2, <2>4
  <2> HIDE DEF wit
  <2>8. WitnessLength(cexGoals) = n
    BY <1>3, <2>7 DEF ProveMsat, WitnessLength
  <2>9. witness' = ComputeWitness(model, n)
    BY <1>3, <2>2, <2>5, <2>8, WitnessComputed DEF ProveMsat, WitnessInv, WitnessNothingYet
  <2>10. FromCex(witness, reachedK + 1)'
    BY <1>3, <2>6, <2>7, <2>9 DEF ProveMsat, FromCex, ComputeWitness
  <2>11. out' = <<>>
    BY <1>3 DEF ProveMsat, WitnessInv, WitnessNothingYet
  <2>12. QED  BY <1>3, <2>7, <2>10, <2>11 DEF ProveMsat, WitnessInv, WitnessTyped, WitnessNothingYet,
                  WitnessAtAnswer, WitnessWhenAsked
<1>4. CASE Ask
  <2>0. /\ client = "ask" /\ client' = "ask" /\ asks' = asks + 1 /\ asks \in Nat /\ asks' \in Nat
        /\ UNCHANGED <<design, engine, solver, reachedK, cexGoals>>
        /\ out' = Transfer(witness')
    <3>1. asks \in Nat
      BY DEF WitnessInv, WitnessTyped
    <3>2. QED  BY <1>4, <3>1 DEF Ask, Asking, ComputeIC3
  <2>1. out' = Transfer(witness)'
    BY <2>0 DEF Transfer
  <2>2. CASE engine # "ic3"
    <3>1. witness' = witness
      BY <1>4, <2>2 DEF Ask
    <3>2. FromCex(witness, reachedK + 1)' /\ (reachedK + 1)' \in 0..MaxSteps
      BY <2>0, <2>2, <3>1 DEF WitnessInv, WitnessAtAnswer, FromCex, ComputeWitness
    <3>3. QED  BY <2>0, <2>1, <2>2, <3>2 DEF WitnessInv, WitnessTyped, WitnessNothingYet,
                  WitnessAtAnswer, WitnessWhenAsked
  <2>3. CASE engine = "ic3"
    <3> DEFINE n == Len(cexGoals) - 1
    <3>1. n \in 0..MaxSteps /\ Counterexamples(design, n) # {}
      BY <2>0, <2>3 DEF WitnessInv, WitnessWhenAsked
    <3>2. n \in Nat
      BY <3>1, StepsAreNumbers
    <3>3. WitnessLength(cexGoals) = n
      BY <2>3 DEF WitnessLength
    <3>4. PICK model \in Counterexamples(design, n) : witness' = witness \o ComputeWitness(model, n)
      BY <1>4, <2>3, <3>3 DEF Ask, ComputeIC3, Query
    <3>5. asks' <= 1 => FromCex(witness, Len(cexGoals) - 1)'
      <4> SUFFICES ASSUME asks' <= 1
                   PROVE  FromCex(witness, Len(cexGoals) - 1)'
        OBVIOUS
      <4>1. witness = <<>>
        BY <2>0, <2>3 DEF WitnessInv, WitnessWhenAsked
      <4> HIDE DEF n
      <4>2. witness' = ComputeWitness(model, n)
        BY <3>2, <3>4, <4>1, WitnessComputed
      <4>3. QED  BY <2>0, <4>2 DEF FromCex, ComputeWitness, n
    <3>6. QED  BY <2>0, <2>1, <2>3, <3>1, <3>5 DEF WitnessInv, WitnessTyped, WitnessNothingYet,
                  WitnessAtAnswer, WitnessWhenAsked
  <2>4. QED  BY <2>2, <2>3
<1>5. CASE AskInVain
  <2>0. /\ client = "ask" /\ client' # "check" /\ asks' = asks + 1 /\ asks \in Nat /\ asks' \in Nat
        /\ UNCHANGED <<design, engine, solver, reachedK, cexGoals, witness, out>>
        /\ engine = "ic3"
    <3>1. asks \in Nat
      BY DEF WitnessInv, WitnessTyped
    <3>2. QED  BY <1>5, <3>1 DEF AskInVain, Asking
  <2>1. asks' <= 1 => asks = 0
    BY <2>0
  <2>2. asks' # 0
    BY <2>0
  <2>3. QED  BY <2>0, <2>1, <2>2 DEF WitnessInv, WitnessTyped, WitnessNothingYet,
                  WitnessAtAnswer, WitnessWhenAsked, Counterexamples
<1>6. ASSUME UNCHANGED prover, client = "check" <=> client' = "check"
      PROVE  WitnessInv'
  <2>1. /\ design' = design /\ engine' = engine /\ solver' = solver /\ reachedK' = reachedK
        /\ cexGoals' = cexGoals /\ witness' = witness /\ out' = out /\ asks' = asks
    BY <1>6
  <2>3. Transfer(witness)' = Transfer(witness)
    BY <2>1 DEF Transfer
  <2>4. WitnessTyped' /\ WitnessNothingYet'
    BY <1>6, <2>1 DEF WitnessInv, WitnessTyped, WitnessNothingYet
  <2>5. WitnessAtAnswer'
    <3> SUFFICES ASSUME (client # "check" /\ engine # "ic3")'
                 PROVE  WitnessAtAnswer'
      BY DEF WitnessAtAnswer
    <3>1. WitnessAtAnswer /\ client # "check" /\ engine # "ic3"
      BY <1>6, <2>1 DEF WitnessInv
    <3>2. FromCex(witness, reachedK + 1)'
      BY <2>1, <3>1 DEF WitnessAtAnswer, FromCex, ComputeWitness
    <3>3. QED  BY <2>1, <2>3, <3>1, <3>2 DEF WitnessAtAnswer
  <2>6. WitnessWhenAsked'
    <3> SUFFICES ASSUME (client # "check" /\ engine = "ic3")'
                 PROVE  WitnessWhenAsked'
      BY DEF WitnessWhenAsked
    <3>1. WitnessWhenAsked /\ client # "check" /\ engine = "ic3"
      BY <1>6, <2>1 DEF WitnessInv
    <3>2. (asks <= 1 /\ out # <<>> => FromCex(witness, Len(cexGoals) - 1))'
      BY <2>1, <3>1 DEF WitnessWhenAsked, FromCex, ComputeWitness
    <3>3. QED  BY <2>1, <2>3, <3>1, <3>2 DEF WitnessWhenAsked
  <2>7. QED  BY <2>4, <2>5, <2>6 DEF WitnessInv
<1>7. CASE StartPrinting \/ DeclareNamed \/ DeclareState \/ DeclareInput \/ DumpValues \/ UNCHANGED witnessVars
  <2>1. UNCHANGED prover
    BY <1>7 DEF StartPrinting, DeclareNamed, DeclareState, DeclareInput, DumpValues, witnessVars
  <2>2. client = "check" <=> client' = "check"
    BY <1>7 DEF StartPrinting, DeclareNamed, DeclareState, DeclareInput, DumpValues, witnessVars
  <2>3. QED  BY <1>6, <2>1, <2>2
<1>8. QED  BY <1>1, <1>2, <1>3, <1>4, <1>5, <1>7 DEF WitnessNext

\* The invariant of the witness.
LEMMA WitnessInvariance == WitnessSpec => []WitnessInv
  BY WitnessInitInv, WitnessStepInv, PTL DEF WitnessSpec

\* The copy a client has is a counterexample as long as an IC3 was asked once.
LEMMA CopyIsCounterexample ==
  WitnessInv /\ (engine # "ic3" \/ asks <= 1) => WitnessIsCounterexample
<1> SUFFICES ASSUME WitnessInv, engine # "ic3" \/ asks <= 1, out # <<>>
             PROVE  WitnessIsCounterexample
  BY DEF WitnessIsCounterexample
<1> DEFINE n == IF engine = "ic3" THEN Len(cexGoals) - 1 ELSE reachedK + 1
<1>1. WitnessTyped /\ client # "check"
  BY DEF WitnessInv, WitnessNothingYet
<1>2. n \in 0..MaxSteps /\ FromCex(witness, n) /\ out = Transfer(witness)
  BY <1>1 DEF WitnessInv, WitnessAtAnswer, WitnessWhenAsked
<1> HIDE DEF n
<1>3. QED  BY <1>1, <1>2, CopyShowsCex DEF WitnessIsCounterexample, n

\* What witness() gives is a counterexample of the original system, of the
\* length the engine says, for every design and every solver: always when the
\* engine unrolls, and at the first call when it is an IC3.
THEOREM FirstWitnessIsCounterexample ==
  WitnessSpec => []((engine # "ic3" \/ asks <= 1) => WitnessIsCounterexample)
<1>1. WitnessInv => ((engine # "ic3" \/ asks <= 1) => WitnessIsCounterexample)
  BY CopyIsCounterexample
<1>2. QED  BY <1>1, WitnessInvariance, PTL

\* When witness() is called once, as pono does, it is a counterexample
\* whatever the engine.
THEOREM WitnessOfOneCall ==
  ASSUME MaxAsks = 1
  PROVE  WitnessSpec => []WitnessIsCounterexample
<1> DEFINE Once == asks <= 1
<1>1. WitnessInit => Once
  BY DEF WitnessInit, WitnessStart
<1>2. Once /\ [WitnessNext]_witnessVars /\ WitnessInv => Once'
  <2> SUFFICES ASSUME asks <= 1, [WitnessNext]_witnessVars, asks \in Nat
               PROVE  asks' <= 1
    BY DEF WitnessInv, WitnessTyped
  <2>1. CASE Ask \/ AskInVain
    <3>1. asks < MaxAsks /\ asks' = asks + 1
      BY <2>1 DEF Ask, AskInVain, Asking
    <3>2. QED  BY <3>1
  <2>2. CASE FindUnrolling \/ FindIC3 \/ ProveMsat
    <3>1. asks' = asks
      BY <2>2 DEF FindUnrolling, FindIC3, ProveMsat
    <3>2. QED  BY <3>1
  <2>3. CASE StartPrinting \/ DeclareNamed \/ DeclareState \/ DeclareInput \/ DumpValues
              \/ UNCHANGED witnessVars
    <3>1. UNCHANGED prover
      BY <2>3 DEF StartPrinting, DeclareNamed, DeclareState, DeclareInput, DumpValues, witnessVars
    <3>2. QED  BY <3>1 DEF prover
  <2>4. QED  BY <2>1, <2>2, <2>3 DEF WitnessNext
<1>3. WitnessInv /\ Once => WitnessIsCounterexample
  BY CopyIsCounterexample
<1> HIDE DEF Once
<1>4. QED  BY <1>1, <1>2, <1>3, WitnessInvariance, PTL DEF WitnessSpec

-----------------------------------------------------------------------------
(* The waveform.                                                           *)

\* A function defined by recursion on a number, with a step for each number.
StepByStep(f, n, start, step) ==
  f = [ k \in 0..n |-> IF k = 0 THEN start ELSE step[k][f[k - 1]] ]

\* Such a function exists when the steps stay in a set.
LEMMA IndexedRecursion ==
  ASSUME NEW n \in Nat, NEW A, NEW start \in A, NEW step \in [1..n -> [A -> A]]
  PROVE  \E f : StepByStep(f, n, start, step)
<1> DEFINE Defines(f, m) == /\ f[0] = start
                            /\ \A k \in 1..m : f[k] = step[k][f[k - 1]]
           T == { m \in 0..n : \E f \in [0..m -> A] : Defines(f, m) }
<1>1. 0 \in T
  <2> DEFINE g == [ k \in 0..0 |-> start ]
  <2>1. g \in [0..0 -> A] /\ Defines(g, 0)
    OBVIOUS
  <2> HIDE DEF g, Defines
  <2>2. QED  BY <2>1
<1>2. \A m \in 0..n : m \in T /\ m + 1 \in 0..n => m + 1 \in T
  <2> SUFFICES ASSUME NEW m \in 0..n, m \in T, m + 1 \in 0..n
               PROVE  m + 1 \in T
    OBVIOUS
  <2>1. PICK f \in [0..m -> A] : Defines(f, m)
    OBVIOUS
  <2> DEFINE g == [ k \in 0..(m + 1) |-> IF k = m + 1 THEN step[m + 1][f[m]] ELSE f[k] ]
  <2>2. g \in [0..(m + 1) -> A]
    <3>1. m + 1 \in 1..n /\ f[m] \in A
      OBVIOUS
    <3>2. step[m + 1][f[m]] \in A
      BY <3>1
    <3>3. QED  BY <3>2
  <2>3. Defines(g, m + 1)
    <3>1. g[0] = start
      BY <2>1
    <3>2. ASSUME NEW k \in 1..m + 1
          PROVE  g[k] = step[k][g[k - 1]]
      <4>1. CASE k = m + 1
        <5>1. g[k - 1] = f[m]
          BY <4>1
        <5>2. QED  BY <4>1, <5>1
      <4>2. CASE k \in 1..m
        <5>1. g[k] = f[k] /\ g[k - 1] = f[k - 1]
          BY <4>2
        <5>2. QED  BY <2>1, <4>2, <5>1
      <4>3. QED  BY <4>1, <4>2
    <3>3. QED  BY <3>1, <3>2
  <2> HIDE DEF g, Defines
  <2>4. QED  BY <2>2, <2>3
<1>3. 0..n \subseteq T
  <2> HIDE DEF T
  <2>1. QED  BY <1>1, <1>2, IntervalInduction
<1>4. PICK f \in [0..n -> A] : Defines(f, n)
  BY <1>3
<1>5. f = [ k \in 0..n |-> IF k = 0 THEN start ELSE step[k][f[k - 1]] ]
  BY <1>4
<1>6. QED  BY <1>5 DEF StepByStep

\* The lines of a waveform, and what a printer keeps with them.
WaveLines(V) == Seq([time : Nat, hash : Nat, value : V])
Kept(V) == UNION { [S -> V] : S \in SUBSET Nat }
Dumps(V) == [prev : Kept(V), lines : WaveLines(V)]

\* No line is later than a time, and the value kept for an id is the one shown.
UpTo(d, time) == \A k \in DOMAIN d.lines : d.lines[k].time <= time
LastKept(d, h, time) == h \in DOMAIN d.prev => WaveShows(d.lines, h, time) = d.prev[h]

Changes(lines, h, time) == { k \in DOMAIN lines : lines[k].hash = h /\ lines[k].time <= time }

\* What is shown is the last change there is.
LEMMA WaveShowsLast ==
  ASSUME NEW V, NEW lines \in WaveLines(V), NEW h, NEW time \in Nat,
         NEW k \in Changes(lines, h, time), \A j \in Changes(lines, h, time) : j <= k
  PROVE  WaveShows(lines, h, time) = lines[k].value
<1> DEFINE T == Changes(lines, h, time)
           last == CHOOSE m \in T : \A j \in T : j <= m
<1>1. T \subseteq Nat
  BY DEF Changes, WaveLines
<1>2. WaveShows(lines, h, time) = lines[last].value
  BY DEF WaveShows, Changes
<1> HIDE DEF T
<1>3. k \in T /\ \A j \in T : j <= k
  BY DEF T
<1>4. last \in T /\ \A j \in T : j <= last
  BY <1>3
<1> HIDE DEF last
<1>5. last = k
  BY <1>1, <1>3, <1>4
<1>6. QED  BY <1>2, <1>5 DEF last

\* Without a change nothing is shown; else there is a last one.
LEMMA WaveShowsSome ==
  ASSUME NEW V, NEW lines \in WaveLines(V), NEW h, NEW time \in Nat
  PROVE  \/ Changes(lines, h, time) = {} /\ WaveShows(lines, h, time) = NoValue
         \/ \E k \in Changes(lines, h, time) :
              /\ \A j \in Changes(lines, h, time) : j <= k
              /\ WaveShows(lines, h, time) = lines[k].value
<1> DEFINE T == Changes(lines, h, time)
<1>1. CASE T = {}
  BY <1>1 DEF WaveShows, Changes
<1>2. CASE T # {}
  <2>1. T \subseteq 1..Len(lines) /\ Len(lines) \in Nat
    BY DEF Changes, WaveLines
  <2>2. PICK k \in T : \A j \in T : j <= k
    <3> HIDE DEF T
    <3>1. QED  BY <1>2, <2>1, GreatestUpTo
  <2>3. WaveShows(lines, h, time) = lines[k].value
    BY <2>2, WaveShowsLast
  <2>4. QED  BY <2>2, <2>3
<1>3. QED  BY <1>1, <1>2

\* A line that is added shows its value from its time on, and changes no other.
LEMMA WaveAppend ==
  ASSUME NEW V, NEW lines \in WaveLines(V), NEW l \in [time : Nat, hash : Nat, value : V],
         NEW h, NEW time \in Nat
  PROVE  WaveShows(Append(lines, l), h, time) =
           IF l.hash = h /\ l.time <= time THEN l.value ELSE WaveShows(lines, h, time)
<1> DEFINE more == Append(lines, l)
           n == Len(lines)
<1>1. more \in WaveLines(V) /\ n \in Nat /\ DOMAIN more = 1..n + 1 /\ DOMAIN lines = 1..n
  BY DEF WaveLines
<1>2. more[n + 1] = l /\ \A k \in 1..n : more[k] = lines[k]
  BY DEF WaveLines
<1> HIDE DEF more, n
<1>3. CASE l.hash = h /\ l.time <= time
  <2>1. n + 1 \in Changes(more, h, time) /\ \A j \in Changes(more, h, time) : j <= n + 1
    BY <1>1, <1>2, <1>3 DEF Changes
  <2>2. WaveShows(more, h, time) = more[n + 1].value
    BY <1>1, <2>1, WaveShowsLast
  <2>3. QED  BY <1>2, <1>3, <2>2 DEF more
<1>4. CASE ~(l.hash = h /\ l.time <= time)
  <2>1. Changes(more, h, time) = Changes(lines, h, time)
    BY <1>1, <1>2, <1>4 DEF Changes
  <2>2. CASE Changes(lines, h, time) = {}
    <3>1. WaveShows(lines, h, time) = NoValue /\ WaveShows(more, h, time) = NoValue
      BY <2>1, <2>2 DEF WaveShows, Changes
    <3>2. QED  BY <1>4, <3>1 DEF more
  <2>3. CASE Changes(lines, h, time) # {}
    <3>1. PICK k \in Changes(lines, h, time) :
            /\ \A j \in Changes(lines, h, time) : j <= k
            /\ WaveShows(lines, h, time) = lines[k].value
      BY <2>3, WaveShowsSome
    <3>2. WaveShows(more, h, time) = more[k].value
      BY <1>1, <2>1, <3>1, WaveShowsLast
    <3>3. k \in 1..n
      BY <1>1 DEF Changes
    <3>4. QED  BY <1>2, <1>4, <3>1, <3>2, <3>3 DEF more
  <2>4. QED  BY <2>2, <2>3
<1>5. QED  BY <1>3, <1>4

\* When no line is later, a later time shows the same.
LEMMA WaveLater ==
  ASSUME NEW V, NEW d \in Dumps(V), NEW h, NEW time \in Nat, UpTo(d, time)
  PROVE  WaveShows(d.lines, h, time + 1) = WaveShows(d.lines, h, time)
<1>1. \A k \in DOMAIN d.lines : d.lines[k].time \in Nat /\ d.lines[k].time <= time
  <2>1. d.lines \in Seq([time : Nat, hash : Nat, value : V])
    BY DEF Dumps, WaveLines
  <2>2. \A k \in DOMAIN d.lines : d.lines[k] \in [time : Nat, hash : Nat, value : V]
    <3> DEFINE lines == d.lines
               Line == [time : Nat, hash : Nat, value : V]
    <3>1. lines \in Seq(Line)
      BY <2>1
    <3> HIDE DEF lines, Line
    <3>2. \A k \in DOMAIN lines : lines[k] \in Line
      BY <3>1
    <3>3. QED  BY <3>2 DEF lines, Line
  <2>3. QED  BY <2>2 DEF UpTo
<1>2. \A k \in DOMAIN d.lines : d.lines[k].time <= time + 1 <=> d.lines[k].time <= time
  BY <1>1
<1>3. { k \in DOMAIN d.lines : d.lines[k].hash = h /\ d.lines[k].time <= time + 1 }
        = { k \in DOMAIN d.lines : d.lines[k].hash = h /\ d.lines[k].time <= time }
  BY <1>2
<1>4. Changes(d.lines, h, time + 1) = Changes(d.lines, h, time)
  BY <1>3 DEF Changes
<1>5. \A t : WaveShows(d.lines, h, t) =
         IF Changes(d.lines, h, t) = {} THEN NoValue
         ELSE d.lines[CHOOSE k \in Changes(d.lines, h, t) : \A j \in Changes(d.lines, h, t) : j <= k].value
  BY DEF WaveShows, Changes
<1>6. QED  BY <1>4, <1>5

\* Keeping a value: it is the one of its id, and no other id has a new one.
Replaces(new, V, prev, h, value) ==
  /\ new \in Kept(V)
  /\ DOMAIN new = DOMAIN prev \cup {h}
  /\ new[h] = value
  /\ \A g \in DOMAIN prev : g # h => new[g] = prev[g]

\* What Put keeps.
LEMMA PutIs ==
  ASSUME NEW V, NEW prev \in Kept(V), NEW h \in Nat, NEW value \in V
  PROVE  Replaces(Put(prev, h, value), V, prev, h, value)
<1>1. PICK S \in SUBSET Nat : prev \in [S -> V]
  BY DEF Kept
<1>2. Put(prev, h, value) \in [S \cup {h} -> V]
  BY <1>1 DEF Put
<1>3. S \cup {h} \in SUBSET Nat
  OBVIOUS
<1>4. Put(prev, h, value) \in Kept(V)
  BY <1>2, <1>3 DEF Kept
<1>5. QED  BY <1>1, <1>4 DEF Put, Replaces

\* One value of dump_diff.
LEMMA ChangeShows ==
  ASSUME NEW V, NEW d \in Dumps(V), NEW a \in Nat \X V, NEW time \in Nat, UpTo(d, time)
  PROVE  /\ DumpChange(d, a, time) \in Dumps(V)
         /\ UpTo(DumpChange(d, a, time), time)
         /\ \A h, t \in Nat : t < time =>
              WaveShows(DumpChange(d, a, time).lines, h, t) = WaveShows(d.lines, h, t)
         /\ \A h \in Nat : LastKept(d, h, time) => LastKept(DumpChange(d, a, time), h, time)
         /\ a[1] \in DOMAIN DumpChange(d, a, time).prev /\ DumpChange(d, a, time).prev[a[1]] = a[2]
         /\ \A h \in DOMAIN d.prev : h # a[1] =>
              h \in DOMAIN DumpChange(d, a, time).prev /\ DumpChange(d, a, time).prev[h] = d.prev[h]
<1> DEFINE l == [time |-> time, hash |-> a[1], value |-> a[2]]
           new == [prev |-> Put(d.prev, a[1], a[2]), lines |-> Append(d.lines, l)]
<1>1. CASE a[1] \in DOMAIN d.prev /\ d.prev[a[1]] = a[2]
  <2>1. DumpChange(d, a, time) = d
    BY <1>1 DEF DumpChange
  <2>2. QED  BY <1>1, <2>1
<1>2. CASE ~(a[1] \in DOMAIN d.prev /\ d.prev[a[1]] = a[2])
  <2>1. DumpChange(d, a, time) = new
    BY <1>2 DEF DumpChange
  <2>2. l \in [time : Nat, hash : Nat, value : V] /\ d.lines \in WaveLines(V) /\ d.prev \in Kept(V)
        /\ a[1] \in Nat /\ a[2] \in V
    BY DEF Dumps
  <2>3. /\ Put(d.prev, a[1], a[2]) \in Kept(V)
        /\ DOMAIN Put(d.prev, a[1], a[2]) = DOMAIN d.prev \cup {a[1]}
        /\ Put(d.prev, a[1], a[2])[a[1]] = a[2]
        /\ \A g \in DOMAIN d.prev : g # a[1] => Put(d.prev, a[1], a[2])[g] = d.prev[g]
    <3>1. Replaces(Put(d.prev, a[1], a[2]), V, d.prev, a[1], a[2])
      BY <2>2, PutIs
    <3>2. QED  BY <3>1 DEF Replaces
  <2>4. new \in Dumps(V)
    BY <2>2, <2>3 DEF Dumps, WaveLines
  <2>5. UpTo(new, time)
    <3>1. /\ d.lines \in Seq([time : Nat, hash : Nat, value : V])
          /\ l \in [time : Nat, hash : Nat, value : V] /\ l.time = time
      BY <2>2 DEF WaveLines
    <3> DEFINE lines == d.lines
    <3>2. \A k \in DOMAIN lines : lines[k].time <= time
      BY DEF UpTo
    <3>3. lines \in Seq([time : Nat, hash : Nat, value : V])
      BY <3>1
    <3> HIDE DEF lines, l
    <3>4. \A k \in DOMAIN Append(lines, l) : Append(lines, l)[k] = l \/ (k \in DOMAIN lines /\ Append(lines, l)[k] = lines[k])
      BY <3>1, <3>3
    <3>5. \A k \in DOMAIN Append(lines, l) : Append(lines, l)[k].time <= time
      BY <3>1, <3>2, <3>4
    <3>6. QED  BY <3>5 DEF UpTo, lines
  <2>6. \A h, t \in Nat : WaveShows(new.lines, h, t) =
          IF a[1] = h /\ time <= t THEN a[2] ELSE WaveShows(d.lines, h, t)
    BY <2>2, WaveAppend
  <2>7. \A h, t \in Nat : t < time => WaveShows(new.lines, h, t) = WaveShows(d.lines, h, t)
    BY <2>6
  <2>8. ASSUME NEW h \in Nat, LastKept(d, h, time)
        PROVE  LastKept(new, h, time)
    <3>1. CASE h = a[1]
      BY <2>3, <2>6, <3>1 DEF LastKept
    <3>2. CASE h # a[1]
      BY <2>3, <2>6, <2>8, <3>2 DEF LastKept
    <3>3. QED  BY <3>1, <3>2
  <2>9. /\ a[1] \in DOMAIN new.prev /\ new.prev[a[1]] = a[2]
        /\ \A h \in DOMAIN d.prev : h # a[1] => h \in DOMAIN new.prev /\ new.prev[h] = d.prev[h]
    BY <2>3
  <2> HIDE DEF l, new
  <2>10. QED  BY <2>1, <2>4, <2>5, <2>7, <2>8, <2>9
<1>3. QED  BY <1>1, <1>2

\* All entries of an id have one value.
Agrees(assigned, h, x) == \A k \in DOMAIN assigned : assigned[k][1] = h => assigned[k][2] = x
Assigns(assigned, h) == \E k \in DOMAIN assigned : assigned[k][1] = h

\* dump_diff as a chain of changes.
Chain(f, assigned, before, time) ==
  /\ f[0] = before
  /\ \A n \in 1..Len(assigned) : f[n] = DumpChange(f[n - 1], assigned[n], time)
  /\ DumpDiff(assigned, before, time) = f[Len(assigned)]

\* The chain exists: the recursion of dump_diff is well defined.
LEMMA DiffChain ==
  ASSUME NEW V, NEW assigned \in Seq(Nat \X V), NEW before \in Dumps(V), NEW time \in Nat,
         UpTo(before, time)
  PROVE  \E f : Chain(f, assigned, before, time)
<1> DEFINE N == Len(assigned)
           A == { d \in Dumps(V) : UpTo(d, time) }
           Is(f) == f = [ n \in 0..N |-> IF n = 0 THEN before ELSE DumpChange(f[n - 1], assigned[n], time) ]
           step == [ n \in 1..N |-> [ d \in A |-> DumpChange(d, assigned[n], time) ] ]
<1>1. N \in Nat /\ \A n \in 1..N : assigned[n] \in Nat \X V
  OBVIOUS
<1>2. \A n \in 1..N, d \in A : DumpChange(d, assigned[n], time) \in A
  BY <1>1, ChangeShows
<1>3. step \in [1..N -> [A -> A]] /\ before \in A
  BY <1>2
<1>4. \E f : StepByStep(f, N, before, step)
  <2> HIDE DEF step, A, N
  <2>1. QED  BY <1>1, <1>3, IndexedRecursion
<1>5. PICK f : f = [ n \in 0..N |-> IF n = 0 THEN before ELSE step[n][f[n - 1]] ]
  BY <1>4 DEF StepByStep
<1>6. \A n \in 0..N : f[n] \in A
  <2> DEFINE T == { n \in 0..N : f[n] \in A }
  <2>1. 0 \in T
    <3> HIDE DEF step, A, N
    <3>1. QED  BY <1>1, <1>3, <1>5
  <2>2. \A n \in 0..N : n \in T /\ n + 1 \in 0..N => n + 1 \in T
    <3> SUFFICES ASSUME NEW n \in 0..N, f[n] \in A, n + 1 \in 0..N
                 PROVE  f[n + 1] \in A
      OBVIOUS
    <3> HIDE DEF step, A, N
    <3>1. n + 1 \in 1..N /\ n + 1 # 0 /\ (n + 1) - 1 = n
      BY <1>1
    <3>2. f[n + 1] = step[n + 1][f[n]]
      BY <1>5, <3>1
    <3>3. QED  BY <1>3, <3>1, <3>2
  <2>3. 0..N \subseteq T
    <3> HIDE DEF T, N
    <3>1. QED  BY <1>1, <2>1, <2>2, IntervalInduction
  <2>4. QED  BY <2>3
<1>7. \A n \in 1..N : f[n] = DumpChange(f[n - 1], assigned[n], time)
  <2> SUFFICES ASSUME NEW n \in 1..N
               PROVE  f[n] = DumpChange(f[n - 1], assigned[n], time)
    OBVIOUS
  <2>1. n - 1 \in 0..N /\ n \in 0..N /\ n # 0
    BY <1>1
  <2>2. f[n - 1] \in A
    BY <1>6, <2>1
  <2>3. f[n] = step[n][f[n - 1]]
    <3> HIDE DEF step, A, N
    <3>1. QED  BY <1>5, <2>1
  <2>4. step[n][f[n - 1]] = DumpChange(f[n - 1], assigned[n], time)
    <3> HIDE DEF A, N
    <3>1. QED  BY <2>2
  <2>5. QED  BY <2>3, <2>4
<1>8. Is(f)
  <2> HIDE DEF step, A, N
  <2>1. f = [ n \in 0..N |-> f[n] ] /\ f[0] = before
    BY <1>1, <1>5
  <2>2. \A n \in 0..N : f[n] = IF n = 0 THEN before ELSE DumpChange(f[n - 1], assigned[n], time)
    <3> SUFFICES ASSUME NEW n \in 0..N
                 PROVE  f[n] = IF n = 0 THEN before ELSE DumpChange(f[n - 1], assigned[n], time)
      OBVIOUS
    <3>1. n # 0 => n \in 1..N
      BY <1>1
    <3>2. QED  BY <1>7, <2>1, <3>1
  <2> DEFINE g == [ n \in 0..N |-> IF n = 0 THEN before ELSE DumpChange(f[n - 1], assigned[n], time) ]
  <2>3. g = f
    <3> DEFINE Value(n) == IF n = 0 THEN before ELSE DumpChange(f[n - 1], assigned[n], time)
    <3>1. \A n \in 0..N : f[n] = Value(n)
      BY <2>2
    <3>2. g = [ n \in 0..N |-> Value(n) ]
      OBVIOUS
    <3> HIDE DEF Value, g
    <3>3. QED  BY <2>1, <3>1, <3>2
  <2>4. QED  BY <2>3
<1> DEFINE c == CHOOSE h : Is(h)
<1>9. Is(c)
  <2> HIDE DEF Is
  <2>1. QED  BY <1>8
<1>10. DumpDiff(assigned, before, time) = c[N]
  BY DEF DumpDiff
<1> HIDE DEF c
<1>11. c[0] = before /\ \A n \in 1..N : c[n] = DumpChange(c[n - 1], assigned[n], time)
  <2> HIDE DEF N
  <2>1. c[0] = before
    BY <1>1, <1>9
  <2>2. ASSUME NEW n \in 1..N
        PROVE  c[n] = DumpChange(c[n - 1], assigned[n], time)
    <3>1. n \in 0..N /\ n # 0
      BY <1>1
    <3>2. QED  BY <1>9, <3>1
  <2>3. QED  BY <2>1, <2>2
<1>12. QED  BY <1>10, <1>11 DEF Chain

\* What dump_diff leaves: earlier times as they were, and at its time the value
\* of each id whose entries agree.
LEMMA DiffShows ==
  ASSUME NEW V, NEW assigned \in Seq(Nat \X V), NEW before \in Dumps(V), NEW time \in Nat,
         UpTo(before, time), NEW h \in Nat, NEW x, Agrees(assigned, h, x), LastKept(before, h, time)
  PROVE  LET after == DumpDiff(assigned, before, time)
         IN  /\ after \in Dumps(V) /\ UpTo(after, time) /\ LastKept(after, h, time)
             /\ \A t \in Nat : t < time => WaveShows(after.lines, h, t) = WaveShows(before.lines, h, t)
             /\ Assigns(assigned, h) => WaveShows(after.lines, h, time) = x
<1> DEFINE N == Len(assigned)
<1>1. PICK f : /\ f[0] = before
               /\ \A n \in 1..N : f[n] = DumpChange(f[n - 1], assigned[n], time)
               /\ DumpDiff(assigned, before, time) = f[N]
  BY DiffChain DEF Chain
<1> DEFINE Good(n) ==
      /\ f[n] \in Dumps(V) /\ UpTo(f[n], time) /\ LastKept(f[n], h, time)
      /\ \A t \in Nat : t < time => WaveShows(f[n].lines, h, t) = WaveShows(before.lines, h, t)
      /\ (\E m \in 1..n : assigned[m][1] = h) => h \in DOMAIN f[n].prev /\ f[n].prev[h] = x
    T == { n \in 0..N : Good(n) }
<1>2. N \in Nat /\ DOMAIN assigned = 1..N /\ \A n \in 1..N : assigned[n] \in Nat \X V
  OBVIOUS
<1>3. 0 \in T
  BY <1>1, <1>2
<1>4. \A n \in 0..N : n \in T /\ n + 1 \in 0..N => n + 1 \in T
  <2> SUFFICES ASSUME NEW n \in 0..N, Good(n), n + 1 \in 0..N
               PROVE  Good(n + 1)
    OBVIOUS
  <2> DEFINE d == f[n]
             a == assigned[n + 1]
             e == DumpChange(d, a, time)
  <2> HIDE DEF N
  <2>1. n + 1 \in 1..N /\ (n + 1) - 1 = n
    BY <1>2
  <2>2. f[n + 1] = e /\ a \in Nat \X V
    BY <1>1, <1>2, <2>1
  <2>3. d \in Dumps(V) /\ UpTo(d, time) /\ LastKept(d, h, time)
    OBVIOUS
  <2> HIDE DEF d, a
  <2>4. /\ e \in Dumps(V)
        /\ UpTo(e, time)
        /\ \A g, t \in Nat : t < time => WaveShows(e.lines, g, t) = WaveShows(d.lines, g, t)
        /\ \A g \in Nat : LastKept(d, g, time) => LastKept(e, g, time)
        /\ a[1] \in DOMAIN e.prev /\ e.prev[a[1]] = a[2]
        /\ \A g \in DOMAIN d.prev : g # a[1] => g \in DOMAIN e.prev /\ e.prev[g] = d.prev[g]
    BY <2>2, <2>3, ChangeShows
  <2> HIDE DEF e
  <2>5. \A t \in Nat : t < time => WaveShows(e.lines, h, t) = WaveShows(before.lines, h, t)
    BY <2>4 DEF d
  <2>6. ASSUME NEW m \in 1..n + 1, assigned[m][1] = h
        PROVE  h \in DOMAIN e.prev /\ e.prev[h] = x
    <3>1. CASE a[1] = h
      <4>1. a[2] = x
        BY <1>2, <2>1, <3>1 DEF Agrees, a
      <4>2. QED  BY <2>4, <3>1, <4>1
    <3>2. CASE a[1] # h
      <4>1. m # n + 1
        BY <2>6, <3>2 DEF a
      <4>2. m \in 1..n
        BY <4>1
      <4>3. h \in DOMAIN d.prev /\ d.prev[h] = x
        BY <2>6, <4>2 DEF d
      <4>4. QED  BY <2>4, <3>2, <4>3
    <3>3. QED  BY <3>1, <3>2
  <2>7. QED  BY <2>2, <2>3, <2>4, <2>5, <2>6
<1>5. N \in T
  <2>1. 0..N \subseteq T
    <3> HIDE DEF T, N
    <3>1. QED  BY <1>2, <1>3, <1>4, IntervalInduction
  <2>2. N \in 0..N
    BY <1>2
  <2>3. QED  BY <2>1, <2>2
<1>6. Good(N)
  BY <1>5
<1>7. Assigns(assigned, h) => WaveShows(f[N].lines, h, time) = x
  BY <1>2, <1>6 DEF Assigns, LastKept
<1> HIDE DEF N
<1>8. QED  BY <1>1, <1>6, <1>7

\* dump_all as a chain of values kept.
FirstChain(f, assigned, time) ==
  /\ f[0] = <<>>
  /\ \A n \in 1..Len(assigned) : f[n] = KeepFirst(f[n - 1], assigned[n])
  /\ DumpAll(assigned, time).prev = f[Len(assigned)]

\* One value of dump_all.
LEMMA KeepsFirst ==
  ASSUME NEW V, NEW prev \in Kept(V), NEW a \in Nat \X V
  PROVE  KeepFirst(prev, a) = prev \/ Replaces(KeepFirst(prev, a), V, prev, a[1], a[2])
<1>1. a[1] \in Nat /\ a[2] \in V
  OBVIOUS
<1>2. Replaces(Put(prev, a[1], a[2]), V, prev, a[1], a[2])
  BY <1>1, PutIs
<1>3. QED  BY <1>2 DEF KeepFirst

\* The chain exists: the recursion of dump_all is well defined.
LEMMA AllChain ==
  ASSUME NEW V, NEW assigned \in Seq(Nat \X V), NEW time \in Nat
  PROVE  \E f : FirstChain(f, assigned, time)
<1> DEFINE N == Len(assigned)
           A == Kept(V)
           Is(f) == f = [ n \in 0..N |-> IF n = 0 THEN <<>> ELSE KeepFirst(f[n - 1], assigned[n]) ]
           step == [ n \in 1..N |-> [ d \in A |-> KeepFirst(d, assigned[n]) ] ]
<1>0. N \in Nat
  OBVIOUS
<1>1. N \in Nat /\ \A n \in 1..N : assigned[n] \in Nat \X V
  OBVIOUS
<1>2. \A n \in 1..N, d \in A : KeepFirst(d, assigned[n]) \in A
  BY <1>1, KeepsFirst DEF Replaces
<1>2n. <<>> \in A
  <2>1. <<>> \in [{} -> V]
    OBVIOUS
  <2>2. {} \in SUBSET Nat
    OBVIOUS
  <2>3. QED  BY <2>1, <2>2 DEF Kept
<1>3. step \in [1..N -> [A -> A]] /\ <<>> \in A
  <2> HIDE DEF A
  <2>1. QED  BY <1>2, <1>2n
<1>4. \E f : StepByStep(f, N, <<>>, step)
  <2> HIDE DEF step, A, N
  <2>1. QED  BY <1>1, <1>3, IndexedRecursion
<1>5. PICK f : f = [ n \in 0..N |-> IF n = 0 THEN <<>> ELSE step[n][f[n - 1]] ]
  BY <1>4 DEF StepByStep
<1>6. \A n \in 0..N : f[n] \in A
  <2> DEFINE T == { n \in 0..N : f[n] \in A }
  <2>1. 0 \in T
    <3> HIDE DEF step, A, N
    <3>1. QED  BY <1>1, <1>3, <1>5
  <2>2. \A n \in 0..N : n \in T /\ n + 1 \in 0..N => n + 1 \in T
    <3> SUFFICES ASSUME NEW n \in 0..N, f[n] \in A, n + 1 \in 0..N
                 PROVE  f[n + 1] \in A
      OBVIOUS
    <3> HIDE DEF step, A, N
    <3>1. n + 1 \in 1..N /\ n + 1 # 0 /\ (n + 1) - 1 = n
      BY <1>0
    <3>2. f[n + 1] = step[n + 1][f[n]]
      BY <1>5, <3>1
    <3>3. QED  BY <1>3, <3>1, <3>2
  <2>3. 0..N \subseteq T
    <3> HIDE DEF T, N
    <3>1. QED  BY <1>1, <2>1, <2>2, IntervalInduction
  <2>4. QED  BY <2>3
<1>7. \A n \in 1..N : f[n] = KeepFirst(f[n - 1], assigned[n])
  <2> SUFFICES ASSUME NEW n \in 1..N
               PROVE  f[n] = KeepFirst(f[n - 1], assigned[n])
    OBVIOUS
  <2>1. n - 1 \in 0..N /\ n \in 0..N /\ n # 0
    BY <1>1
  <2>2. f[n - 1] \in A
    BY <1>6, <2>1
  <2>3. f[n] = step[n][f[n - 1]]
    <3> HIDE DEF step, A, N
    <3>1. QED  BY <1>5, <2>1
  <2>4. step[n][f[n - 1]] = KeepFirst(f[n - 1], assigned[n])
    <3> HIDE DEF A, N
    <3>1. QED  BY <2>2
  <2>5. QED  BY <2>3, <2>4
<1>8. Is(f)
  <2> HIDE DEF step, A, N
  <2>1. f = [ n \in 0..N |-> f[n] ] /\ f[0] = <<>>
    BY <1>1, <1>5
  <2> DEFINE Value(n) == IF n = 0 THEN <<>> ELSE KeepFirst(f[n - 1], assigned[n])
             g == [ n \in 0..N |-> Value(n) ]
  <2>2. \A n \in 0..N : f[n] = Value(n)
    <3> SUFFICES ASSUME NEW n \in 0..N
                 PROVE  f[n] = Value(n)
      OBVIOUS
    <3>1. n # 0 => n \in 1..N
      BY <1>1
    <3>2. QED  BY <1>7, <2>1, <3>1
  <2>3. g = f
    <3> HIDE DEF Value
    <3>1. QED  BY <2>1, <2>2
  <2>4. QED  BY <2>3
<1> DEFINE c == CHOOSE h : Is(h)
<1>9. Is(c)
  <2> HIDE DEF Is
  <2>1. QED  BY <1>8
<1>10. DumpAll(assigned, time).prev = c[N]
  BY DEF DumpAll
<1> HIDE DEF c
<1>11. c[0] = <<>> /\ \A n \in 1..N : c[n] = KeepFirst(c[n - 1], assigned[n])
  <2> HIDE DEF N
  <2>1. c[0] = <<>>
    BY <1>1, <1>9
  <2>2. ASSUME NEW n \in 1..N
        PROVE  c[n] = KeepFirst(c[n - 1], assigned[n])
    <3>1. n \in 0..N /\ n # 0
      BY <1>1
    <3>2. QED  BY <1>9, <3>1
  <2>3. QED  BY <2>1, <2>2
<1>12. QED  BY <1>10, <1>11 DEF FirstChain

\* What dump_all leaves: every value of an id whose entries agree.
LEMMA AllShows ==
  ASSUME NEW V, NEW assigned \in Seq(Nat \X V), NEW h \in Nat, NEW x, Agrees(assigned, h, x)
  PROVE  LET all == DumpAll(assigned, 0)
         IN  /\ all \in Dumps(V) /\ UpTo(all, 0) /\ LastKept(all, h, 0)
             /\ Assigns(assigned, h) => WaveShows(all.lines, h, 0) = x
<1> DEFINE N == Len(assigned)
           all == DumpAll(assigned, 0)
           lines == [ k \in DOMAIN assigned |-> [time |-> 0, hash |-> assigned[k][1], value |-> assigned[k][2]] ]
<1>1. PICK f : /\ f[0] = <<>>
               /\ \A n \in 1..N : f[n] = KeepFirst(f[n - 1], assigned[n])
               /\ all.prev = f[N]
  BY AllChain DEF FirstChain
<1>2. N \in Nat /\ DOMAIN assigned = 1..N /\ \A n \in 1..N : assigned[n] \in Nat \X V
  OBVIOUS
<1> DEFINE Good(n) == /\ f[n] \in Kept(V)
                      /\ h \in DOMAIN f[n] => Assigns(assigned, h) /\ f[n][h] = x
           T == { n \in 0..N : Good(n) }
<1>3. 0 \in T
  <2>1. <<>> \in [{} -> V]
    OBVIOUS
  <2>2. {} \in SUBSET Nat
    OBVIOUS
  <2>3. <<>> \in Kept(V)
    BY <2>1, <2>2 DEF Kept
  <2>4. DOMAIN <<>> = {}
    OBVIOUS
  <2>5. Good(0)
    BY <1>1, <2>3, <2>4
  <2>6. QED  BY <1>2, <2>5
<1>4. \A n \in 0..N : n \in T /\ n + 1 \in 0..N => n + 1 \in T
  <2> SUFFICES ASSUME NEW n \in 0..N, Good(n), n + 1 \in 0..N
               PROVE  Good(n + 1)
    OBVIOUS
  <2> DEFINE prev == f[n]
             a == assigned[n + 1]
             new == KeepFirst(prev, a)
  <2> HIDE DEF N
  <2>1. n + 1 \in 1..N /\ (n + 1) - 1 = n
    BY <1>2
  <2>2. f[n + 1] = new /\ a \in Nat \X V /\ prev \in Kept(V)
    BY <1>1, <1>2, <2>1
  <2> HIDE DEF prev, a
  <2>3. new = prev \/ Replaces(new, V, prev, a[1], a[2])
    BY <2>2, KeepsFirst
  <2> HIDE DEF new
  <2>4. new \in Kept(V)
    BY <2>2, <2>3 DEF Replaces
  <2>5. h \in DOMAIN new => Assigns(assigned, h) /\ new[h] = x
    <3> SUFFICES ASSUME h \in DOMAIN new
                 PROVE  Assigns(assigned, h) /\ new[h] = x
      OBVIOUS
    <3>1. CASE h \in DOMAIN prev /\ (new = prev \/ a[1] # h)
      <4>1. Assigns(assigned, h) /\ prev[h] = x
        BY <3>1 DEF prev
      <4>2. QED  BY <2>3, <3>1, <4>1 DEF Replaces
    <3>2. CASE new # prev /\ a[1] = h
      <4>1. a[2] = x /\ Assigns(assigned, h)
        BY <1>2, <2>1, <3>2 DEF Agrees, Assigns, a
      <4>2. QED  BY <2>3, <3>2, <4>1 DEF Replaces
    <3>3. QED  BY <2>3, <3>1, <3>2 DEF Replaces
  <2>6. QED  BY <2>2, <2>4, <2>5
<1>5. Good(N)
  <2>1. 0..N \subseteq T
    <3> HIDE DEF T, N
    <3>1. QED  BY <1>2, <1>3, <1>4, IntervalInduction
  <2>2. N \in 0..N
    BY <1>2
  <2>3. QED  BY <2>1, <2>2
<1>6. lines \in WaveLines(V) /\ DOMAIN lines = DOMAIN assigned
  <2>1. \A k \in 1..N : [time |-> 0, hash |-> assigned[k][1], value |-> assigned[k][2]] \in [time : Nat, hash : Nat, value : V]
    BY <1>2
  <2> DEFINE Line == [time : Nat, hash : Nat, value : V]
             line(k) == [time |-> 0, hash |-> assigned[k][1], value |-> assigned[k][2]]
  <2>2. lines \in [1..N -> Line]
    <3>1. lines = [ k \in 1..N |-> line(k) ]
      BY <1>2
    <3>2. \A k \in 1..N : line(k) \in Line
      BY <2>1
    <3> HIDE DEF line, Line, lines, N
    <3>3. QED  BY <3>1, <3>2
  <2> HIDE DEF lines, N, Line
  <2>3. lines \in Seq(Line)
    BY <1>2, <2>2
  <2>4. QED  BY <1>2, <2>2, <2>3 DEF WaveLines, Line
<1>7. all = [prev |-> all.prev, lines |-> lines] /\ all.lines = lines
  BY DEF DumpAll
<1>8. all \in Dumps(V)
  <2> HIDE DEF lines, all, N
  <2>1. QED  BY <1>1, <1>5, <1>6, <1>7 DEF Dumps
<1>9. UpTo(all, 0)
  <2>1. \A k \in DOMAIN lines : lines[k].time <= 0
    OBVIOUS
  <2> HIDE DEF lines, all, N
  <2>2. QED  BY <1>7, <2>1 DEF UpTo
<1>10. Assigns(assigned, h) => WaveShows(all.lines, h, 0) = x
  <2> SUFFICES ASSUME Assigns(assigned, h)
               PROVE  WaveShows(lines, h, 0) = x
    BY <1>7
  <2>1. \A k \in DOMAIN lines : lines[k].hash = assigned[k][1] /\ lines[k].value = assigned[k][2] /\ lines[k].time <= 0
    OBVIOUS
  <2> HIDE DEF lines, all, N
  <2>2. \A k \in Changes(lines, h, 0) : lines[k].value = x
    BY <1>6, <2>1 DEF Changes, Agrees
  <2>3. Changes(lines, h, 0) # {}
    BY <1>6, <2>1 DEF Changes, Assigns
  <2>4. QED  BY <1>6, <2>2, <2>3, WaveShowsSome
<1>11. LastKept(all, h, 0)
  <2> HIDE DEF lines, all, N
  <2>1. QED  BY <1>1, <1>5, <1>10 DEF LastKept
<1> HIDE DEF lines, all, N
<1>12. QED  BY <1>8, <1>9, <1>10, <1>11 DEF all

-----------------------------------------------------------------------------
(* What a frame assigns.                                                   *)

\* What is in two sequences one after the other.
LEMMA RangeOfConcat ==
  ASSUME NEW E, NEW s \in Seq(E), NEW t \in Seq(E)
  PROVE  s \o t \in Seq(E) /\ Range(s \o t) = Range(s) \cup Range(t)
<1> DEFINE m == Len(s)
           n == Len(t)
<1>1. /\ m \in Nat /\ n \in Nat /\ DOMAIN s = 1..m /\ DOMAIN t = 1..n
      /\ s \o t \in Seq(E) /\ DOMAIN (s \o t) = 1..m + n
  OBVIOUS
<1>2. /\ \A k \in 1..m : (s \o t)[k] = s[k]
      /\ \A k \in 1..n : (s \o t)[m + k] = t[k]
      /\ \A k \in 1..m + n : k > m => (s \o t)[k] = t[k - m]
  OBVIOUS
<1>3. Range(s \o t) \subseteq Range(s) \cup Range(t)
  <2> SUFFICES ASSUME NEW k \in 1..m + n
               PROVE  (s \o t)[k] \in Range(s) \cup Range(t)
    BY <1>1 DEF Range
  <2> HIDE DEF m, n
  <2>1. CASE k <= m
    <3>1. k \in 1..m
      BY <1>1, <2>1
    <3>2. QED  BY <1>1, <1>2, <3>1 DEF Range
  <2>2. CASE k > m
    <3>1. k - m \in 1..n
      BY <1>1, <2>2
    <3>2. QED  BY <1>1, <1>2, <2>2, <3>1 DEF Range
  <2>3. QED  BY <1>1, <2>1, <2>2
<1>4. Range(s) \cup Range(t) \subseteq Range(s \o t)
  <2> HIDE DEF m, n
  <2>1. \A k \in 1..m : k \in 1..m + n
    BY <1>1
  <2>2. \A k \in 1..n : m + k \in 1..m + n
    BY <1>1
  <2>3. \A k \in 1..m : s[k] \in Range(s \o t)
    <3> SUFFICES ASSUME NEW k \in 1..m
                 PROVE  s[k] \in Range(s \o t)
      OBVIOUS
    <3>1. k \in DOMAIN (s \o t) /\ (s \o t)[k] = s[k]
      BY <1>1, <1>2, <2>1
    <3>2. QED  BY <3>1 DEF Range
  <2>4. \A k \in 1..n : t[k] \in Range(s \o t)
    <3> SUFFICES ASSUME NEW k \in 1..n
                 PROVE  t[k] \in Range(s \o t)
      OBVIOUS
    <3>1. m + k \in DOMAIN (s \o t) /\ (s \o t)[m + k] = t[k]
      BY <1>1, <1>2, <2>2
    <3>2. QED  BY <3>1 DEF Range
  <2>5. QED  BY <1>1, <2>3, <2>4 DEF Range
<1>5. QED  BY <1>1, <1>3, <1>4

\* The elements of the sequences, and no others.
LEMMA FlattenIs ==
  ASSUME NEW E, NEW N \in Nat, NEW seqs \in [1..N -> Seq(E)]
  PROVE  /\ FlattenSeq(seqs) \in Seq(E)
         /\ Range(FlattenSeq(seqs)) = UNION { Range(seqs[j]) : j \in 1..N }
<1>0. seqs \in Seq(Seq(E)) /\ Len(seqs) = N
  OBVIOUS
<1>1. CASE N = 0
  <2>1. FlattenSeq(seqs) = seqs
    BY <1>0, <1>1 DEF FlattenSeq
  <2>2. seqs \in Seq(E) /\ DOMAIN seqs = {}
    <3>1. DOMAIN seqs = 1..0
      BY <1>1
    <3>2. seqs \in [1..0 -> E]
      BY <3>1, <1>1
    <3>3. QED  BY <3>1, <3>2
  <2>3. 1..N = {}
    BY <1>1
  <2>4. QED  BY <2>1, <2>2, <2>3 DEF Range
<1>2. CASE N # 0
  <2> DEFINE Is(f) == f = [ i \in 1..N |-> IF i = 1 THEN seqs[i] ELSE f[i - 1] \o seqs[i] ]
             step == [ k \in 1..N - 1 |-> [ s \in Seq(E) |-> s \o seqs[k + 1] ] ]
  <2>1. N - 1 \in Nat /\ 1 \in 1..N
    BY <1>2
  <2>2. step \in [1..N - 1 -> [Seq(E) -> Seq(E)]]
    <3>1. \A k \in 1..N - 1, s \in Seq(E) : s \o seqs[k + 1] \in Seq(E)
      <4> SUFFICES ASSUME NEW k \in 1..N - 1, NEW s \in Seq(E)
                   PROVE  s \o seqs[k + 1] \in Seq(E)
        OBVIOUS
      <4>1. k + 1 \in 1..N
        OBVIOUS
      <4>2. seqs[k + 1] \in Seq(E)
        BY <4>1
      <4>3. QED  BY <4>2
    <3>2. QED  BY <3>1
  <2>3. seqs[1] \in Seq(E)
    BY <2>1
  <2>4. \E g : StepByStep(g, N - 1, seqs[1], step)
    <3> HIDE DEF step
    <3>1. QED  BY <2>1, <2>2, <2>3, IndexedRecursion
  <2>5. PICK g : g = [ k \in 0..N - 1 |-> IF k = 0 THEN seqs[1] ELSE step[k][g[k - 1]] ]
    BY <2>4 DEF StepByStep
  <2>6. \A k \in 0..N - 1 : g[k] \in Seq(E)
    <3> DEFINE T == { k \in 0..N - 1 : g[k] \in Seq(E) }
    <3> HIDE DEF step
    <3>1. 0 \in T
      BY <2>1, <2>3, <2>5
    <3>2. \A k \in 0..N - 1 : k \in T /\ k + 1 \in 0..N - 1 => k + 1 \in T
      <4> SUFFICES ASSUME NEW k \in 0..N - 1, g[k] \in Seq(E), k + 1 \in 0..N - 1
                   PROVE  g[k + 1] \in Seq(E)
        OBVIOUS
      <4>1. k + 1 \in 1..N - 1 /\ k + 1 # 0 /\ (k + 1) - 1 = k
        OBVIOUS
      <4>2. g[k + 1] = step[k + 1][g[k]]
        BY <2>5, <4>1
      <4>3. QED  BY <2>2, <4>1, <4>2
    <3>3. 0..N - 1 \subseteq T
      <4> HIDE DEF T
      <4>1. QED  BY <2>1, <3>1, <3>2, IntervalInduction
    <3>4. QED  BY <3>3
  <2>7. \A k \in 1..N - 1 : g[k] = g[k - 1] \o seqs[k + 1]
    <3> SUFFICES ASSUME NEW k \in 1..N - 1
                 PROVE  g[k] = g[k - 1] \o seqs[k + 1]
      OBVIOUS
    <3>1. k - 1 \in 0..N - 1 /\ k \in 0..N - 1 /\ k # 0
      OBVIOUS
    <3>2. g[k - 1] \in Seq(E)
      BY <2>6, <3>1
    <3>3. g[k] = step[k][g[k - 1]]
      <4> HIDE DEF step
      <4>1. QED  BY <2>5, <3>1
    <3>4. QED  BY <3>2, <3>3
  <2> DEFINE f == [ i \in 1..N |-> g[i - 1] ]
  <2>8. Is(f)
    <3> DEFINE Value(i) == IF i = 1 THEN seqs[i] ELSE f[i - 1] \o seqs[i]
    <3>1. ASSUME NEW i \in 1..N
          PROVE  f[i] = Value(i)
      <4>1. CASE i = 1
        BY <2>1, <2>5, <4>1
      <4>2. CASE i # 1
        <5>1. i - 1 \in 1..N - 1 /\ i - 1 \in 1..N /\ (i - 1) + 1 = i
          BY <4>2
        <5>2. g[i - 1] = g[(i - 1) - 1] \o seqs[i]
          BY <2>7, <5>1
        <5>3. f[i] = g[i - 1] /\ f[i - 1] = g[(i - 1) - 1]
          BY <5>1
        <5>4. QED  BY <4>2, <5>2, <5>3
      <4>3. QED  BY <4>1, <4>2
    <3>2. f = [ i \in 1..N |-> f[i] ]
      OBVIOUS
    <3>3. [ i \in 1..N |-> f[i] ] = [ i \in 1..N |-> Value(i) ]
      <4> HIDE DEF f, Value
      <4>1. QED  BY <3>1
    <3> HIDE DEF f
    <3>4. QED  BY <3>2, <3>3
  <2> DEFINE c == CHOOSE h : Is(h)
  <2>9. Is(c)
    <3> HIDE DEF Is, f
    <3>1. QED  BY <2>8
  <2>10. FlattenSeq(seqs) = c[N]
    <3>1. Len(seqs) # 0
      BY <1>0, <1>2
    <3>2. QED  BY <1>0, <3>1 DEF FlattenSeq
  <2> HIDE DEF c
  <2>11. c[1] = seqs[1] /\ \A i \in 1..N : i # 1 => c[i] = c[i - 1] \o seqs[i]
    BY <2>1, <2>9
  <2> DEFINE Parts(i) == UNION { Range(seqs[j]) : j \in 1..i }
             Good(i) == c[i] \in Seq(E) /\ Range(c[i]) = Parts(i)
             T == { k \in 0..N - 1 : Good(k + 1) }
  <2> HIDE DEF Is
  <2>12. 0 \in T
    <3>1. Parts(1) = Range(seqs[1])
      OBVIOUS
    <3>2. Good(1)
      BY <2>1, <2>3, <2>11, <3>1
    <3>3. 0 \in 0..N - 1 /\ 0 + 1 = 1
      BY <2>1
    <3> HIDE DEF Parts
    <3>4. QED  BY <3>2, <3>3
  <2>13. \A k \in 0..N - 1 : k \in T /\ k + 1 \in 0..N - 1 => k + 1 \in T
    <3> SUFFICES ASSUME NEW k \in 0..N - 1, Good(k + 1), k + 1 \in 0..N - 1
                 PROVE  Good((k + 1) + 1)
      OBVIOUS
    <3> DEFINE i == (k + 1) + 1
    <3>1. i \in 1..N /\ i # 1 /\ i - 1 = k + 1
      OBVIOUS
    <3>2. c[i] = c[k + 1] \o seqs[i] /\ seqs[i] \in Seq(E) /\ c[k + 1] \in Seq(E)
      BY <2>11, <3>1
    <3>3. c[i] \in Seq(E) /\ Range(c[i]) = Range(c[k + 1]) \cup Range(seqs[i])
      <4> HIDE DEF i
      <4>1. QED  BY <3>2, RangeOfConcat
    <3>4. 1..i = 1..k + 1 \cup {i}
      OBVIOUS
    <3>5. Parts(i) = Parts(k + 1) \cup Range(seqs[i])
      <4> HIDE DEF i
      <4>1. QED  BY <3>4
    <3>6. QED  BY <3>3, <3>5
  <2>14. 0..N - 1 \subseteq T
    <3> HIDE DEF T
    <3>1. QED  BY <2>1, <2>12, <2>13, IntervalInduction
  <2>15. Good((N - 1) + 1)
    <3>1. N - 1 \in 0..N - 1
      BY <2>1
    <3>2. QED  BY <2>14, <3>1
  <2>16. (N - 1) + 1 = N
    OBVIOUS
  <2>17. QED  BY <2>10, <2>15, <2>16
<1>3. QED  BY <1>1, <1>2

\* Functions on 1..n are sequences, and a sequence grows at its end.
Sequence(s) == \E n \in Nat : s = [ k \in 1..n |-> s[k] ]

\* A function on 1..n is a sequence of its values.
LEMMA SequenceIs ==
  ASSUME NEW s, Sequence(s)
  PROVE  /\ Len(s) \in Nat /\ DOMAIN s = 1..Len(s)
         /\ s \in Seq(Range(s))
<1>1. PICK n \in Nat : s = [ k \in 1..n |-> s[k] ]
  BY DEF Sequence
<1>2. s \in [1..n -> Range(s)]
  BY <1>1 DEF Range
<1>3. s \in Seq(Range(s)) /\ Len(s) = n
  BY <1>2
<1>4. QED  BY <1>1, <1>3

\* One more at the end.
LEMMA SequenceGrows ==
  ASSUME NEW s, Sequence(s), NEW e
  PROVE  /\ Sequence(Append(s, e))
         /\ DOMAIN s = 1..Len(s) /\ DOMAIN Append(s, e) = 1..Len(s) + 1 /\ Len(s) \in Nat
         /\ Append(s, e)[Len(s) + 1] = e
         /\ \A k \in 1..Len(s) : Append(s, e)[k] = s[k]
<1> DEFINE E == Range(s) \cup {e}
           n == Len(s)
           t == Append(s, e)
<1>1. n \in Nat /\ DOMAIN s = 1..n /\ s \in Seq(Range(s))
  BY SequenceIs
<1>2. s \in Seq(E)
  <2> DEFINE R == Range(s)
  <2>1. s \in Seq(R)
    BY <1>1
  <2> HIDE DEF R
  <2>2. s \in Seq(R \cup {e})
    BY <2>1
  <2>3. QED  BY <2>2 DEF R
<1> HIDE DEF E
<1>3. e \in E
  BY DEF E
<1>4. /\ t \in Seq(E) /\ DOMAIN t = 1..n + 1 /\ t[n + 1] = e
      /\ \A k \in 1..n : t[k] = s[k]
  BY <1>1, <1>2, <1>3
<1>4n. n + 1 \in Nat
  BY <1>1
<1> HIDE DEF t, n
<1>4t. \E m \in Nat : t \in [1..m -> E]
  BY <1>4
<1>5. t = [ k \in 1..n + 1 |-> t[k] ] /\ n + 1 \in Nat
  BY <1>4, <1>4n, <1>4t
<1>6. Sequence(t)
  BY <1>5 DEF Sequence
<1>7. QED  BY <1>1, <1>4, <1>6 DEF t, n

\* The declared signals: ids are used once, an array's are not a signal's.
SignalIds(dc) == { dc.bv[k].hash : k \in DOMAIN dc.bv }
ArrayIds(arr) == { arr.index[i] : i \in DOMAIN arr.index } \cup ({arr.default} \ {NoValue})

Declared(X) == [bv : X, arrays : X, hashes : X, properties : X, thrown : X]

DeclaredOnce(dc, arrays) ==
  /\ \E X : dc \in Declared(X)
  /\ dc.hashes \in Nat
  /\ Sequence(dc.bv) /\ Sequence(dc.arrays)
  /\ \A k \in DOMAIN dc.bv : dc.bv[k].hash \in Nat /\ dc.bv[k].hash < dc.hashes
  /\ \A j, k \in DOMAIN dc.bv : dc.bv[j].hash = dc.bv[k].hash => j = k
  /\ \A j \in DOMAIN dc.arrays :
       /\ dc.arrays[j].ast \in arrays
       /\ \A id \in ArrayIds(dc.arrays[j]) :
            id \in Nat /\ id < dc.hashes /\ id \notin SignalIds(dc)

\* A frame gives each array as a sequence of stores.
FrameOf(frame, arrays, V) ==
  /\ \A t \in DOMAIN frame : frame[t] \in V
  /\ \A t \in DOMAIN frame \cap arrays :
       /\ Sequence(frame[t].stores)
       /\ \A k \in DOMAIN frame[t].stores : frame[t].stores[k][2] \in V
       /\ frame[t].base \in V

\* What is written for a frame: for each signal the value of its term, if the
\* frame has one.
LEMMA AssignmentsAre ==
  ASSUME NEW dc, NEW arrays, NEW frame, NEW V, DeclaredOnce(dc, arrays), FrameOf(frame, arrays, V)
  PROVE  /\ Assignments(dc, frame) \in Seq(Nat \X V)
         /\ \A s \in DOMAIN dc.bv :
              /\ Agrees(Assignments(dc, frame), dc.bv[s].hash, frame[dc.bv[s].ast])
              /\ dc.bv[s].ast \in DOMAIN frame => Assigns(Assignments(dc, frame), dc.bv[s].hash)
<1> DEFINE E == Nat \X V
      bv(sig) == IF sig.ast \notin DOMAIN frame THEN <<>> ELSE << <<sig.hash, frame[sig.ast]>> >>
      entry(arr, k) ==
        LET store == frame[arr.ast].stores[k]
        IN  IF store[1] \in DOMAIN arr.index THEN << <<arr.index[store[1]], store[2]>> >> ELSE <<>>
      entries(arr) == [ k \in DOMAIN frame[arr.ast].stores |-> entry(arr, k) ]
      stores(arr) == FlattenSeq(entries(arr))
      base(arr) == IF frame[arr.ast].base = NoValue \/ arr.default = NoValue THEN <<>>
                   ELSE << <<arr.default, frame[arr.ast].base>> >>
      array(arr) == IF arr.ast \notin DOMAIN frame THEN <<>> ELSE stores(arr) \o base(arr)
      bvs == [ k \in DOMAIN dc.bv |-> bv(dc.bv[k]) ]
      arrs == [ k \in DOMAIN dc.arrays |-> array(dc.arrays[k]) ]
      A == Assignments(dc, frame)
<1>1. A = FlattenSeq(bvs) \o FlattenSeq(arrs)
  BY DEF Assignments
<1>2. \A k \in DOMAIN dc.bv : bv(dc.bv[k]) \in Seq(E)
  <2> SUFFICES ASSUME NEW k \in DOMAIN dc.bv
               PROVE  bv(dc.bv[k]) \in Seq(E)
    OBVIOUS
  <2>1. CASE dc.bv[k].ast \notin DOMAIN frame
    BY <2>1
  <2>2. CASE dc.bv[k].ast \in DOMAIN frame
    <3>1. <<dc.bv[k].hash, frame[dc.bv[k].ast]>> \in E
      BY <2>2 DEF DeclaredOnce, FrameOf
    <3> HIDE DEF E
    <3>2. QED  BY <2>2, <3>1
  <2>3. QED  BY <2>1, <2>2
<1>3. \A k \in DOMAIN dc.bv : Range(bv(dc.bv[k])) =
         IF dc.bv[k].ast \notin DOMAIN frame THEN {} ELSE { <<dc.bv[k].hash, frame[dc.bv[k].ast]>> }
  BY DEF Range
<1>4. /\ Len(dc.bv) \in Nat /\ DOMAIN dc.bv = 1..Len(dc.bv)
      /\ Len(dc.arrays) \in Nat /\ DOMAIN dc.arrays = 1..Len(dc.arrays)
  BY SequenceIs DEF DeclaredOnce
<1>5. FlattenSeq(bvs) \in Seq(E) /\ Range(FlattenSeq(bvs)) = UNION { Range(bvs[j]) : j \in 1..Len(dc.bv) }
  <2>1. bvs \in [1..Len(dc.bv) -> Seq(E)]
    <3> HIDE DEF E, bv
    <3>1. QED  BY <1>2, <1>4
  <2> HIDE DEF E, bvs
  <2>2. QED  BY <1>4, <2>1, FlattenIs
<1>6. \A k \in DOMAIN dc.arrays :
         array(dc.arrays[k]) \in Seq(E) /\ \A e \in Range(array(dc.arrays[k])) : e[1] \in ArrayIds(dc.arrays[k])
  <2> SUFFICES ASSUME NEW q \in DOMAIN dc.arrays
               PROVE  array(dc.arrays[q]) \in Seq(E) /\ \A e \in Range(array(dc.arrays[q])) : e[1] \in ArrayIds(dc.arrays[q])
    OBVIOUS
  <2> DEFINE arr == dc.arrays[q]
  <2>1. arr.ast \in arrays /\ \A id \in ArrayIds(arr) : id \in Nat
    BY DEF DeclaredOnce
  <2> HIDE DEF arr
  <2>2. CASE arr.ast \notin DOMAIN frame
    <3>1. array(arr) = <<>>
      BY <2>2
    <3>2. <<>> \in Seq(E) /\ Range(<<>>) = {}
      BY DEF Range
    <3> HIDE DEF E, array
    <3>3. QED  BY <3>1, <3>2 DEF arr
  <2>3. CASE arr.ast \in DOMAIN frame
    <3> DEFINE ss == frame[arr.ast].stores
               b == frame[arr.ast].base
    <3>1. Sequence(ss) /\ (\A k \in DOMAIN ss : ss[k][2] \in V) /\ b \in V
      BY <2>1, <2>3 DEF FrameOf
    <3>2. Len(ss) \in Nat /\ DOMAIN ss = 1..Len(ss)
      BY <3>1, SequenceIs
    <3>3. ASSUME NEW k \in DOMAIN ss
          PROVE  entry(arr, k) \in Seq(E) /\ \A e \in Range(entry(arr, k)) : e[1] \in ArrayIds(arr)
      <4>1. CASE ss[k][1] \in DOMAIN arr.index
        <5>1. arr.index[ss[k][1]] \in ArrayIds(arr)
          BY <4>1 DEF ArrayIds
        <5>2. <<arr.index[ss[k][1]], ss[k][2]>> \in E
          BY <2>1, <3>1, <5>1
        <5>3. entry(arr, k) = << <<arr.index[ss[k][1]], ss[k][2]>> >>
          BY <4>1
        <5> HIDE DEF E, entry
        <5>4. QED  BY <5>1, <5>2, <5>3 DEF Range
      <4>2. CASE ss[k][1] \notin DOMAIN arr.index
        <5>1. entry(arr, k) = <<>>
          BY <4>2
        <5> HIDE DEF E, entry
        <5>2. QED  BY <5>1 DEF Range
      <4>3. QED  BY <4>1, <4>2
    <3>4. entries(arr) \in [1..Len(ss) -> Seq(E)]
      <4>1. entries(arr) = [ k \in DOMAIN ss |-> entry(arr, k) ]
        OBVIOUS
      <4> HIDE DEF E, entry, entries, ss
      <4>2. QED  BY <3>2, <3>3, <4>1
    <3>5. \A k \in 1..Len(ss) : entries(arr)[k] = entry(arr, k)
      BY <3>2
    <3>6. stores(arr) \in Seq(E) /\ Range(stores(arr)) = UNION { Range(entries(arr)[j]) : j \in 1..Len(ss) }
      <4> HIDE DEF E, entries, ss
      <4>1. QED  BY <3>2, <3>4, FlattenIs
    <3>7. \A e \in Range(stores(arr)) : e[1] \in ArrayIds(arr)
      <4> HIDE DEF E, entry, entries, stores, ss
      <4>1. QED  BY <3>2, <3>3, <3>5, <3>6
    <3>8. base(arr) \in Seq(E) /\ \A e \in Range(base(arr)) : e[1] \in ArrayIds(arr)
      <4>1. CASE b = NoValue \/ arr.default = NoValue
        <5>1. base(arr) = <<>>
          BY <4>1
        <5> HIDE DEF E, base
        <5>2. QED  BY <5>1 DEF Range
      <4>2. CASE ~(b = NoValue \/ arr.default = NoValue)
        <5>1. base(arr) = << <<arr.default, b>> >>
          BY <4>2
        <5>2. arr.default \in ArrayIds(arr)
          BY <4>2 DEF ArrayIds
        <5>3. <<arr.default, b>> \in E
          BY <2>1, <3>1, <5>2
        <5> HIDE DEF E, base, b
        <5>4. QED  BY <5>1, <5>2, <5>3 DEF Range
      <4>3. QED  BY <4>1, <4>2
    <3>9. array(arr) = stores(arr) \o base(arr)
      BY <2>3
    <3>10. array(arr) \in Seq(E) /\ Range(array(arr)) = Range(stores(arr)) \cup Range(base(arr))
      <4> HIDE DEF E, array, stores, base
      <4>1. stores(arr) \in Seq(E) /\ base(arr) \in Seq(E)
        BY <3>6, <3>8
      <4>2. QED  BY <3>9, <4>1, RangeOfConcat
    <3> HIDE DEF E, array, stores, base
    <3>11. QED  BY <3>7, <3>8, <3>10 DEF arr
  <2>4. QED  BY <2>2, <2>3
<1>7. FlattenSeq(arrs) \in Seq(E) /\ Range(FlattenSeq(arrs)) = UNION { Range(arrs[j]) : j \in 1..Len(dc.arrays) }
  <2>0. Len(dc.arrays) \in Nat
    BY <1>4
  <2>1. arrs \in [1..Len(dc.arrays) -> Seq(E)]
    <3> HIDE DEF E, array
    <3>1. QED  BY <1>4, <1>6
  <2> HIDE DEF E, arrs
  <2>2. QED  BY <2>0, <2>1, FlattenIs
<1>8. A \in Seq(E) /\ Range(A) = Range(FlattenSeq(bvs)) \cup Range(FlattenSeq(arrs))
  <2> HIDE DEF E, A, bvs, arrs
  <2>1. QED  BY <1>1, <1>5, <1>7, RangeOfConcat
<1>9. \A k \in DOMAIN dc.bv : bvs[k] = bv(dc.bv[k])
  OBVIOUS
<1>10. \A k \in DOMAIN dc.arrays : arrs[k] = array(dc.arrays[k])
  OBVIOUS
<1>11. ASSUME NEW e \in Range(FlattenSeq(arrs))
       PROVE  e[1] \notin SignalIds(dc)
  <2> HIDE DEF E, A, bvs, arrs, array
  <2>1. PICK j \in DOMAIN dc.arrays : e \in Range(array(dc.arrays[j]))
    BY <1>4, <1>7, <1>10, <1>11
  <2>2. e[1] \in ArrayIds(dc.arrays[j])
    BY <1>6, <2>1
  <2>3. QED  BY <2>2 DEF DeclaredOnce
<1>12. ASSUME NEW e \in Range(FlattenSeq(bvs))
       PROVE  \E j \in DOMAIN dc.bv : dc.bv[j].ast \in DOMAIN frame /\ e = <<dc.bv[j].hash, frame[dc.bv[j].ast]>>
  <2> HIDE DEF E, A, bvs, arrs, bv
  <2>1. PICK j \in DOMAIN dc.bv : e \in Range(bv(dc.bv[j]))
    BY <1>4, <1>5, <1>9, <1>12
  <2>2. QED  BY <1>3, <2>1
<1>13. ASSUME NEW s \in DOMAIN dc.bv
       PROVE  Agrees(A, dc.bv[s].hash, frame[dc.bv[s].ast])
  <2> SUFFICES ASSUME NEW k \in DOMAIN A, A[k][1] = dc.bv[s].hash
               PROVE  A[k][2] = frame[dc.bv[s].ast]
    BY DEF Agrees
  <2> HIDE DEF E, A, bvs, arrs
  <2>1. A[k] \in Range(A)
    BY DEF Range
  <2>2. dc.bv[s].hash \in SignalIds(dc)
    BY DEF SignalIds
  <2>3. A[k] \in Range(FlattenSeq(bvs))
    BY <1>8, <1>11, <2>1, <2>2
  <2>4. PICK j \in DOMAIN dc.bv : A[k] = <<dc.bv[j].hash, frame[dc.bv[j].ast]>>
    BY <1>12, <2>3
  <2>5. dc.bv[j].hash = dc.bv[s].hash
    BY <2>4
  <2>6. j = s
    BY <2>5 DEF DeclaredOnce
  <2>7. QED  BY <2>4, <2>6
<1>14. ASSUME NEW s \in DOMAIN dc.bv, dc.bv[s].ast \in DOMAIN frame
       PROVE  Assigns(A, dc.bv[s].hash)
  <2> HIDE DEF E, A, bvs, arrs, bv
  <2> DEFINE e == <<dc.bv[s].hash, frame[dc.bv[s].ast]>>
  <2>1. e \in Range(bvs[s])
    BY <1>3, <1>9, <1>14
  <2>2. e \in Range(A)
    BY <1>4, <1>5, <1>8, <2>1
  <2>3. PICK k \in DOMAIN A : A[k] = e
    BY <2>2 DEF Range
  <2>4. QED  BY <2>3 DEF Assigns
<1> HIDE DEF A
<1>15. QED  BY <1>8, <1>13, <1>14 DEF A

-----------------------------------------------------------------------------
(* The signals.                                                            *)

\* An array is given as a sequence of stores at its indices.
LEMMA StoresOfArray ==
  ASSUME NEW S, IsFiniteSet(S), NEW array \in [S -> Nat], NEW style
  PROVE  /\ Sequence(ArrayValue(array, style).stores)
         /\ \A k \in DOMAIN ArrayValue(array, style).stores : ArrayValue(array, style).stores[k][1] \in S
<1> DEFINE base == CASE style = "zeros" -> 0 [] style = "ones" -> 1 [] style = "open" -> NoValue
           other == { j \in DOMAIN array : array[j] # base }
           indices == SetToSeq(other)
           stores == [ k \in DOMAIN indices |-> <<indices[k], array[indices[k]]>> ]
           n == Cardinality(other)
<1>1. ArrayValue(array, style).stores = stores
  BY DEF ArrayValue
<1> HIDE DEF base
<1>2. IsFiniteSet(other) /\ other \subseteq S
  BY FS_Subset
<1> HIDE DEF other
<1>3. n \in Nat /\ indices \in [1..n -> other]
  BY <1>2, SetToSeqIs
<1> HIDE DEF indices, n
<1>4. stores = [ k \in 1..n |-> stores[k] ] /\ \A k \in DOMAIN stores : stores[k][1] \in S
  BY <1>2, <1>3
<1> HIDE DEF stores
<1>5. QED  BY <1>1, <1>3, <1>4 DEF Sequence

\* What a solver gives for a point.
Frames == { ValuesIn(design, point, solver.style) : point \in design.states \X design.inputs }

ArraysStored(frame) ==
  \A v \in DOMAIN frame \cap design.arrays :
    /\ Sequence(frame[v].stores)
    /\ \A j \in DOMAIN frame[v].stores : frame[v].stores[j][1] \in design.indices

\* A solver gives arrays by their stores, at indices of the design.
LEMMA FramesStoreArrays ==
  ASSUME design \in Designs, NEW frame \in Frames
  PROVE  ArraysStored(frame)
<1>1. PICK point \in design.states \X design.inputs : frame = ValuesIn(design, point, solver.style)
  BY DEF Frames
<1>2. point[1] \in design.states
  BY <1>1
<1> SUFFICES ASSUME NEW v \in DOMAIN frame \cap design.arrays
             PROVE  /\ Sequence(frame[v].stores)
                    /\ \A j \in DOMAIN frame[v].stores : frame[v].stores[j][1] \in design.indices
  BY DEF ArraysStored
<1>3. point[1][v] \in [design.indices -> Nat] /\ IsFiniteSet(design.indices)
  BY <1>2, DesignsAssumption
<1>4. frame[v] = ArrayValue(point[1][v], solver.style)
  BY <1>1 DEF ValuesIn
<1>5. QED  BY <1>3, <1>4, StoresOfArray

\* The values of a counterexample are frames of a solver.
LEMMA ComputedFrames ==
  ASSUME design \in Designs, NEW n \in Nat, NEW p \in Counterexamples(design, n)
  PROVE  ComputeWitness(p, n) \in Seq(Frames) /\ Len(ComputeWitness(p, n)) = n + 1
<1>1. p \in Seq(design.states \X design.inputs) /\ Len(p) = n + 1
  BY RunsArePoints DEF Counterexamples
<1>2. \A k \in 1..n + 1 : p[k] \in design.states \X design.inputs
  BY <1>1
<1>3. \A k \in 1..n + 1 : ValuesIn(design, p[k], solver.style) \in Frames
  BY <1>2 DEF Frames
<1>4. ComputeWitness(p, n) \in [1..n + 1 -> Frames]
  BY <1>3 DEF ComputeWitness
<1>5. n + 1 \in Nat
  OBVIOUS
<1>6. QED  BY <1>4, <1>5

WitnessShaped ==
  /\ witness \in Seq(Frames)
  /\ client # "check" /\ engine # "ic3" => Len(witness) >= 1

OutShaped ==
  /\ Sequence(out)
  /\ \A k \in DOMAIN out : ArraysStored(out[k])
  /\ client \in {"declare", "done"} \/ (client = "ask" /\ asks > 0) => Len(out) >= 1

DeclShaped == DeclaredOnce(decl, design.arrays)

\* The copy of frames has the arrays as they are there.
LEMMA TransferShaped ==
  ASSUME design \in Designs, NEW maps \in Seq(Frames)
  PROVE  /\ Sequence(Transfer(maps)) /\ DOMAIN Transfer(maps) = DOMAIN maps
         /\ \A k \in DOMAIN Transfer(maps) : ArraysStored(Transfer(maps)[k])
<1> DEFINE T == Transfer(maps)
<1>1. DOMAIN maps = 1..Len(maps) /\ Len(maps) \in Nat
  OBVIOUS
<1>2. DOMAIN T = 1..Len(maps) /\ T = [ k \in 1..Len(maps) |-> T[k] ]
  BY <1>1 DEF Transfer
<1>3. \A k \in DOMAIN maps : \A t \in DOMAIN T[k] : T[k][t] = maps[k][t]
  BY DEF Transfer
<1>4. \A k \in DOMAIN maps : ArraysStored(maps[k]) /\ maps[k] \in Frames
  <2>1. \A k \in DOMAIN maps : maps[k] \in Frames
    OBVIOUS
  <2>2. QED  BY <2>1, FramesStoreArrays
<1>5. \A frame \in Frames : design.arrays \subseteq DOMAIN frame
  <2> SUFFICES ASSUME NEW frame \in Frames
               PROVE  design.arrays \subseteq DOMAIN frame
    OBVIOUS
  <2>1. PICK point \in design.states \X design.inputs : frame = ValuesIn(design, point, solver.style)
    BY DEF Frames
  <2>2. design.statevars \subseteq DOMAIN frame
    BY <2>1 DEF ValuesIn
  <2>3. QED  BY <2>2, DesignsAssumption
<1> HIDE DEF T
<1>6. ASSUME NEW k \in DOMAIN maps
      PROVE  ArraysStored(T[k])
  BY <1>3, <1>4, <1>5 DEF ArraysStored
<1>7. QED  BY <1>1, <1>2, <1>6 DEF T, Sequence

-----------------------------------------------------------------------------
\* What a declaration changes of what is declared, and what it leaves.
WithSignal(r, x, y) == [r EXCEPT !.bv = x, !.hashes = y]

\* Another list of signals, or of arrays, and the ids used up.
LEMMA SignalAdded ==
  ASSUME NEW X, NEW r \in Declared(X), NEW x, NEW y, NEW new, new = WithSignal(r, x, y)
  PROVE  (\E Y : new \in Declared(Y)) /\ new.bv = x /\ new.hashes = y /\ new.arrays = r.arrays
<1> DEFINE Y == X \cup {x, y}
<1>1. r \in Declared(Y) /\ x \in Y /\ y \in Y
  BY DEF Declared
<1> HIDE DEF Y
<1>2. new \in Declared(Y)
  BY <1>1 DEF Declared, WithSignal
<1>3. new.bv = x /\ new.hashes = y /\ new.arrays = r.arrays
  BY <1>1 DEF Declared, WithSignal
<1>4. QED  BY <1>2, <1>3

WithArray(r, x, y) == [r EXCEPT !.arrays = x, !.hashes = y]

LEMMA ArrayAdded ==
  ASSUME NEW X, NEW r \in Declared(X), NEW x, NEW y, NEW new, new = WithArray(r, x, y)
  PROVE  (\E Y : new \in Declared(Y)) /\ new.arrays = x /\ new.hashes = y /\ new.bv = r.bv
<1> DEFINE Y == X \cup {x, y}
<1>1. r \in Declared(Y) /\ x \in Y /\ y \in Y
  BY DEF Declared
<1> HIDE DEF Y
<1>2. new \in Declared(Y)
  BY <1>1 DEF Declared, WithArray
<1>3. new.arrays = x /\ new.hashes = y /\ new.bv = r.bv
  BY <1>1 DEF Declared, WithArray
<1>4. QED  BY <1>2, <1>3

\* Throwing or numbering a property touches no signal and no id.
LEMMA DeclaredSame ==
  ASSUME NEW X, NEW r \in Declared(X), NEW x
  PROVE  /\ \E Y : [r EXCEPT !.thrown = x] \in Declared(Y)
         /\ [r EXCEPT !.thrown = x].bv = r.bv
         /\ [r EXCEPT !.thrown = x].hashes = r.hashes
         /\ [r EXCEPT !.thrown = x].arrays = r.arrays
         /\ \E Y : [r EXCEPT !.properties = x] \in Declared(Y)
         /\ [r EXCEPT !.properties = x].bv = r.bv
         /\ [r EXCEPT !.properties = x].hashes = r.hashes
         /\ [r EXCEPT !.properties = x].arrays = r.arrays
<1> DEFINE Y == X \cup {x}
<1>1. r \in Declared(Y) /\ x \in Y
  BY DEF Declared
<1> HIDE DEF Y
<1>2. /\ [r EXCEPT !.thrown = x] \in Declared(Y)
      /\ [r EXCEPT !.properties = x] \in Declared(Y)
  BY <1>1 DEF Declared
<1>3. /\ [r EXCEPT !.thrown = x].bv = r.bv
      /\ [r EXCEPT !.thrown = x].hashes = r.hashes
      /\ [r EXCEPT !.thrown = x].arrays = r.arrays
  BY <1>1 DEF Declared
<1>4. /\ [r EXCEPT !.properties = x].bv = r.bv
      /\ [r EXCEPT !.properties = x].hashes = r.hashes
      /\ [r EXCEPT !.properties = x].arrays = r.arrays
  BY <1>1 DEF Declared
<1>5. QED  BY <1>2, <1>3, <1>4

\* What is declared stays so when only other fields change.
LEMMA DeclaredAlike ==
  ASSUME NEW dc, NEW arrays, DeclaredOnce(dc, arrays), NEW same,
         \E Y : same \in Declared(Y),
         same.bv = dc.bv, same.hashes = dc.hashes, same.arrays = dc.arrays
  PROVE  DeclaredOnce(same, arrays)
  BY DEF DeclaredOnce, SignalIds

\* Declaring a signal takes an id that is not in use.
LEMMA SignalDeclaredOnce ==
  ASSUME NEW dc, NEW arrays, DeclaredOnce(dc, arrays), NEW name, NEW isReg, NEW ast
  PROVE  DeclaredOnce(InsertSignal(dc, name, isReg, ast), arrays)
<1> DEFINE path == IF name.location THEN <<"property" \o ToString(dc.properties)>>
                   ELSE [ k \in DOMAIN name.path |-> PlainPart[name.path[k]] ]
           named == IF name.location THEN [dc EXCEPT !.properties = @ + 1] ELSE dc
           entry == [path |-> path, isReg |-> isReg, ast |-> ast, hash |-> dc.hashes]
           new == [named EXCEPT !.bv = Append(@, entry), !.hashes = @ + 1]
<1>0. PICK X : dc \in Declared(X)
  BY DEF DeclaredOnce
<1>1. /\ named.bv = dc.bv /\ named.arrays = dc.arrays /\ named.hashes = dc.hashes
      /\ \E Y : named \in Declared(Y)
  <2> DEFINE x == dc.properties + 1
             changed == [dc EXCEPT !.properties = x]
  <2>1. /\ \E Y : changed \in Declared(Y)
        /\ changed.bv = dc.bv /\ changed.hashes = dc.hashes /\ changed.arrays = dc.arrays
    <3> HIDE DEF x
    <3>1. QED  BY <1>0, DeclaredSame
  <2>2. named \in {dc, changed}
    OBVIOUS
  <2> HIDE DEF changed, named
  <2>3. QED  BY <1>0, <2>1, <2>2
<1>2. DeclaredOnce(named, arrays)
  <2> HIDE DEF named
  <2>1. QED  BY <1>1, DeclaredAlike
<1>3. DeclaredOnce(new, arrays)
  <2> HIDE DEF named, path
  <2>1. /\ new.bv = Append(dc.bv, entry) /\ new.arrays = dc.arrays /\ new.hashes = dc.hashes + 1
        /\ \E Y : new \in Declared(Y)
    <3> DEFINE x == Append(named.bv, entry)
               y == named.hashes + 1
    <3>1. new = WithSignal(named, x, y)
      BY DEF WithSignal
    <3> HIDE DEF new, x, y, entry
    <3>2. /\ new.bv = x /\ new.arrays = named.arrays /\ new.hashes = y
          /\ \E Y : new \in Declared(Y)
      <4>1. PICK Z : named \in Declared(Z)
        BY <1>1
      <4>2. QED  BY <3>1, <4>1, SignalAdded
    <3>3. QED  BY <1>1, <3>2 DEF x, y
  <2>2. entry.hash = dc.hashes
    OBVIOUS
  <2> HIDE DEF new, entry
  <2> DEFINE n == Len(dc.bv)
  <2>3. /\ Sequence(new.bv) /\ n \in Nat /\ DOMAIN dc.bv = 1..n /\ DOMAIN new.bv = 1..n + 1
        /\ new.bv[n + 1] = entry
        /\ \A k \in 1..n : new.bv[k] = dc.bv[k]
    BY <2>1, SequenceGrows DEF DeclaredOnce
  <2> HIDE DEF n
  <2>4. dc.hashes \in Nat
    BY DEF DeclaredOnce
  <2>5. ASSUME NEW k \in DOMAIN new.bv
        PROVE  new.bv[k].hash \in Nat /\ new.bv[k].hash < new.hashes
    <3>1. CASE k = n + 1
      BY <2>1, <2>2, <2>3, <2>4, <3>1
    <3>2. CASE k \in 1..n
      <4>1. dc.bv[k].hash \in Nat /\ dc.bv[k].hash < dc.hashes
        BY <2>3, <3>2 DEF DeclaredOnce
      <4>2. QED  BY <2>1, <2>3, <2>4, <3>2, <4>1
    <3>3. QED  BY <2>3, <3>1, <3>2
  <2>6. ASSUME NEW j \in DOMAIN new.bv, NEW k \in DOMAIN new.bv, new.bv[j].hash = new.bv[k].hash
        PROVE  j = k
    <3>1. \A m \in 1..n : new.bv[m].hash \in Nat /\ new.bv[m].hash < new.bv[n + 1].hash
      BY <2>2, <2>3 DEF DeclaredOnce
    <3>2. \A m \in 1..n : new.bv[m].hash # new.bv[n + 1].hash
      BY <3>1, <2>2, <2>3, <2>4
    <3>3. CASE j = n + 1 \/ k = n + 1
      BY <2>3, <2>6, <3>2, <3>3
    <3>4. CASE j \in 1..n /\ k \in 1..n
      BY <2>3, <2>6, <3>4 DEF DeclaredOnce
    <3>5. QED  BY <2>3, <3>3, <3>4
  <2>7. SignalIds(new) \subseteq SignalIds(dc) \cup {dc.hashes}
    <3>1. ASSUME NEW k \in DOMAIN new.bv
          PROVE  new.bv[k].hash \in SignalIds(dc) \cup {dc.hashes}
      <4>1. CASE k = n + 1
        BY <2>2, <2>3, <4>1
      <4>2. CASE k \in 1..n
        BY <2>3, <4>2 DEF SignalIds
      <4>3. QED  BY <2>3, <4>1, <4>2
    <3>2. QED  BY <3>1 DEF SignalIds
  <2>8. ASSUME NEW j \in DOMAIN new.arrays
        PROVE  /\ new.arrays[j].ast \in arrays
               /\ \A id \in ArrayIds(new.arrays[j]) :
                    id \in Nat /\ id < new.hashes /\ id \notin SignalIds(new)
    <3>1. /\ dc.arrays[j].ast \in arrays
          /\ \A id \in ArrayIds(dc.arrays[j]) : id \in Nat /\ id < dc.hashes /\ id \notin SignalIds(dc)
      BY <2>1 DEF DeclaredOnce
    <3>2. \A id \in ArrayIds(dc.arrays[j]) : id < dc.hashes + 1 /\ id # dc.hashes
      BY <2>4, <3>1
    <3>3. QED  BY <2>1, <2>7, <3>1, <3>2
  <2>9. Sequence(new.arrays) /\ new.hashes \in Nat
    BY <2>1, <2>4 DEF DeclaredOnce
  <2>10. QED  BY <2>1, <2>3, <2>5, <2>6, <2>8, <2>9 DEF DeclaredOnce
<1>4. InsertSignal(dc, name, isReg, ast) \in {dc, named, new}
  BY DEF InsertSignal
<1> HIDE DEF new, named
<1>5. QED  BY <1>2, <1>3, <1>4

\* So does declaring an array, one for each index that is stored to.
LEMMA ArrayDeclaredOnce ==
  ASSUME NEW dc, NEW arrays, DeclaredOnce(dc, arrays), NEW name, NEW ast \in arrays, NEW trace,
         NEW S, IsFiniteSet(S),
         \A f \in DOMAIN trace : ast \in DOMAIN trace[f] =>
            \A k \in DOMAIN trace[f][ast].stores : trace[f][ast].stores[k][1] \in S
  PROVE  DeclaredOnce(InsertArray(dc, name, ast, trace), arrays)
<1> DEFINE path     == [ k \in DOMAIN name.path |-> PlainPart[name.path[k]] ]
           frames   == { k \in DOMAIN trace : ast \in DOMAIN trace[k] }
           stored   == UNION { { trace[f][ast].stores[k][1] : k \in DOMAIN trace[f][ast].stores } : f \in frames }
           default  == \E f \in frames : trace[f][ast].base # NoValue
           order    == SetToSeq(stored)
           n        == Cardinality(stored)
           idOf(i)  == dc.hashes + (CHOOSE k \in 1..n : order[k] = i) - 1
           entry    == [ path |-> path, ast |-> ast, index |-> [ i \in stored |-> idOf(i) ],
                         default |-> IF default THEN dc.hashes + n ELSE NoValue ]
           new      == [dc EXCEPT !.arrays = Append(@, entry), !.hashes = @ + n + IF default THEN 1 ELSE 0]
<1>1. InsertArray(dc, name, ast, trace) \in { [dc EXCEPT !.thrown = TRUE], new }
  BY DEF InsertArray
<1>2. DeclaredOnce([dc EXCEPT !.thrown = TRUE], arrays)
  <2> DEFINE same == [dc EXCEPT !.thrown = TRUE]
  <2>1. PICK X : dc \in Declared(X)
    BY DEF DeclaredOnce
  <2>2. /\ \E Y : same \in Declared(Y)
        /\ same.bv = dc.bv /\ same.hashes = dc.hashes /\ same.arrays = dc.arrays
    BY <2>1, DeclaredSame
  <2> HIDE DEF same
  <2>3. DeclaredOnce(same, arrays)
    BY <2>2, DeclaredAlike
  <2>4. QED  BY <2>3 DEF same
<1>3. stored \subseteq S
  OBVIOUS
<1> HIDE DEF stored, default, path
<1>4. IsFiniteSet(stored)
  BY <1>3, FS_Subset
<1>5. n \in Nat /\ \A i \in stored : \E k \in 1..n : order[k] = i
  BY <1>4, SetToSeqIs
<1>6. dc.hashes \in Nat
  BY DEF DeclaredOnce
<1> HIDE DEF n, order
<1>7. \A i \in stored : idOf(i) \in Nat /\ idOf(i) >= dc.hashes /\ idOf(i) < dc.hashes + n
  <2> SUFFICES ASSUME NEW i \in stored
               PROVE  idOf(i) \in Nat /\ idOf(i) >= dc.hashes /\ idOf(i) < dc.hashes + n
    OBVIOUS
  <2> DEFINE k == CHOOSE j \in 1..n : order[j] = i
  <2>1. k \in 1..n
    BY <1>5
  <2>2. idOf(i) = dc.hashes + k - 1
    OBVIOUS
  <2> HIDE DEF k, idOf
  <2>3. QED  BY <1>5, <1>6, <2>1, <2>2
<1>8. /\ new.bv = dc.bv /\ new.arrays = Append(dc.arrays, entry)
      /\ new.hashes = dc.hashes + n + IF default THEN 1 ELSE 0
      /\ \E Y : new \in Declared(Y)
  <2> DEFINE x == Append(dc.arrays, entry)
             y == dc.hashes + n + IF default THEN 1 ELSE 0
  <2>1. new = WithArray(dc, x, y)
    BY DEF WithArray
  <2>2. PICK X : dc \in Declared(X)
    BY DEF DeclaredOnce
  <2> HIDE DEF new, entry, idOf, x, y
  <2>3. /\ \E Y : new \in Declared(Y)
        /\ new.arrays = x /\ new.hashes = y /\ new.bv = dc.bv
    BY <2>1, <2>2, ArrayAdded
  <2>4. QED  BY <2>3 DEF x, y
<1>9. new.hashes \in Nat /\ dc.hashes + n <= new.hashes /\ (default => new.hashes = dc.hashes + n + 1)
      /\ dc.hashes <= new.hashes
  <2> HIDE DEF new, entry
  <2>1. QED  BY <1>5, <1>6, <1>8
<1>10. \A id \in ArrayIds(entry) : id \in Nat /\ id >= dc.hashes /\ id < new.hashes
  <2>1. /\ DOMAIN entry.index = stored /\ \A i \in stored : entry.index[i] = idOf(i)
        /\ entry.default = IF default THEN dc.hashes + n ELSE NoValue
    OBVIOUS
  <2> HIDE DEF entry, idOf, new
  <2>2. ASSUME NEW i \in stored
        PROVE  idOf(i) \in Nat /\ idOf(i) >= dc.hashes /\ idOf(i) < new.hashes
    BY <1>5, <1>6, <1>7, <1>9
  <2>3. default => dc.hashes + n \in Nat /\ dc.hashes + n >= dc.hashes /\ dc.hashes + n < new.hashes
    BY <1>5, <1>6, <1>9
  <2>4. QED  BY <2>1, <2>2, <2>3 DEF ArrayIds
<1>11. entry.ast = ast
  OBVIOUS
<1> HIDE DEF new, entry, idOf
<1> DEFINE m == Len(dc.arrays)
<1>12. /\ Sequence(new.arrays) /\ m \in Nat /\ DOMAIN dc.arrays = 1..m /\ DOMAIN new.arrays = 1..m + 1
       /\ new.arrays[m + 1] = entry
       /\ \A k \in 1..m : new.arrays[k] = dc.arrays[k]
  BY <1>8, SequenceGrows DEF DeclaredOnce
<1> HIDE DEF m
<1>13. SignalIds(new) = SignalIds(dc) /\ \A id \in SignalIds(dc) : id \in Nat /\ id < dc.hashes
  BY <1>8 DEF SignalIds, DeclaredOnce
<1>14. ASSUME NEW j \in DOMAIN new.arrays
       PROVE  /\ new.arrays[j].ast \in arrays
              /\ \A id \in ArrayIds(new.arrays[j]) : id \in Nat /\ id < new.hashes /\ id \notin SignalIds(new)
  <2>1. CASE j = m + 1
    <3>1. new.arrays[j].ast \in arrays
      BY <1>11, <1>12, <2>1
    <3>2. ASSUME NEW id \in ArrayIds(entry)
          PROVE  id \in Nat /\ id < new.hashes /\ id \notin SignalIds(new)
      BY <1>6, <1>10, <1>13
    <3>3. QED  BY <1>12, <2>1, <3>1, <3>2
  <2>2. CASE j \in 1..m
    <3>1. /\ dc.arrays[j].ast \in arrays
          /\ \A id \in ArrayIds(dc.arrays[j]) : id \in Nat /\ id < dc.hashes /\ id \notin SignalIds(dc)
      BY <1>12, <2>2 DEF DeclaredOnce
    <3>2. \A id \in ArrayIds(dc.arrays[j]) : id < new.hashes
      BY <1>6, <1>9, <3>1
    <3>3. QED  BY <1>12, <1>13, <2>2, <3>1, <3>2
  <2>3. QED  BY <1>12, <2>1, <2>2
<1>15. /\ \A k \in DOMAIN new.bv : new.bv[k].hash \in Nat /\ new.bv[k].hash < new.hashes
       /\ \A j, k \in DOMAIN new.bv : new.bv[j].hash = new.bv[k].hash => j = k
       /\ Sequence(new.bv)
  <2>1. \A k \in DOMAIN new.bv : new.bv[k].hash \in Nat /\ new.bv[k].hash < dc.hashes
    BY <1>8 DEF DeclaredOnce
  <2>2. QED  BY <1>6, <1>8, <1>9, <2>1 DEF DeclaredOnce
<1>16. DeclaredOnce(new, arrays)
  BY <1>8, <1>9, <1>12, <1>14, <1>15 DEF DeclaredOnce
<1>17. QED  BY <1>1, <1>2, <1>16

-----------------------------------------------------------------------------
(* The values dumped.                                                      *)

\* What the printer keeps agrees with the lines written up to a time.
Holds(d, V, h, t) == d \in Dumps(V) /\ UpTo(d, t) /\ LastKept(d, h, t)

ShowsFrame(d, sig, frame, t) ==
  sig.ast \in DOMAIN frame => WaveShows(d.lines, sig.hash, t) = frame[sig.ast]

\* The dump of one more frame leaves what earlier times show.
OneMore(e, d, V, sig, frame, t) ==
  /\ Holds(e, V, sig.hash, t)
  /\ \A u \in Nat : u < t => WaveShows(e.lines, sig.hash, u) = WaveShows(d.lines, sig.hash, u)
  /\ ShowsFrame(e, sig, frame, t)

\* dump_all, for a declared signal.
LEMMA DumpedFirst ==
  ASSUME NEW dc, NEW arrays, DeclaredOnce(dc, arrays), NEW V, NEW frame, FrameOf(frame, arrays, V),
         NEW s \in DOMAIN dc.bv
  PROVE  /\ Holds(DumpAll(Assignments(dc, frame), 0), V, dc.bv[s].hash, 0)
         /\ ShowsFrame(DumpAll(Assignments(dc, frame), 0), dc.bv[s], frame, 0)
<1> DEFINE A == Assignments(dc, frame)
           h == dc.bv[s].hash
           x == frame[dc.bv[s].ast]
           all == DumpAll(A, 0)
<1>1. A \in Seq(Nat \X V) /\ Agrees(A, h, x) /\ (dc.bv[s].ast \in DOMAIN frame => Assigns(A, h))
  BY AssignmentsAre
<1>2. h \in Nat
  BY DEF DeclaredOnce
<1> HIDE DEF A, h, x
<1>3. /\ all \in Dumps(V) /\ UpTo(all, 0) /\ LastKept(all, h, 0)
      /\ Assigns(A, h) => WaveShows(all.lines, h, 0) = x
  BY <1>1, <1>2, AllShows
<1> HIDE DEF all
<1>4. QED  BY <1>1, <1>3 DEF Holds, ShowsFrame, all, A, h, x

\* dump_diff, for a declared signal.
LEMMA DumpedLater ==
  ASSUME NEW dc, NEW arrays, DeclaredOnce(dc, arrays), NEW V, NEW frame, FrameOf(frame, arrays, V),
         NEW s \in DOMAIN dc.bv, NEW t \in Nat, NEW d, Holds(d, V, dc.bv[s].hash, t)
  PROVE  OneMore(DumpDiff(Assignments(dc, frame), d, t + 1), d, V, dc.bv[s], frame, t + 1)
<1> DEFINE A == Assignments(dc, frame)
           h == dc.bv[s].hash
           x == frame[dc.bv[s].ast]
           e == DumpDiff(A, d, t + 1)
<1>1. A \in Seq(Nat \X V) /\ Agrees(A, h, x) /\ (dc.bv[s].ast \in DOMAIN frame => Assigns(A, h))
  BY AssignmentsAre
<1>2. h \in Nat /\ Holds(d, V, h, t)
  BY DEF DeclaredOnce
<1> HIDE DEF A, h, x
<1>3. d \in Dumps(V) /\ UpTo(d, t) /\ LastKept(d, h, t)
  BY <1>2 DEF Holds
<1>4. LastKept(d, h, t + 1)
  BY <1>3, WaveLater DEF LastKept
<1>5. UpTo(d, t + 1)
  <2>1. \A k \in DOMAIN d.lines : d.lines[k].time \in Nat /\ d.lines[k].time <= t
    <3> DEFINE lines == d.lines
               Line == [time : Nat, hash : Nat, value : V]
    <3>1. lines \in Seq(Line) /\ \A k \in DOMAIN lines : lines[k].time <= t
      BY <1>3 DEF Dumps, WaveLines, UpTo
    <3> HIDE DEF lines, Line
    <3>2. \A k \in DOMAIN lines : lines[k] \in Line
      BY <3>1
    <3>3. QED  BY <3>1, <3>2 DEF lines, Line
  <2>2. QED  BY <2>1 DEF UpTo
<1>6. t + 1 \in Nat
  OBVIOUS
<1>7. /\ e \in Dumps(V) /\ UpTo(e, t + 1) /\ LastKept(e, h, t + 1)
      /\ \A u \in Nat : u < t + 1 => WaveShows(e.lines, h, u) = WaveShows(d.lines, h, u)
      /\ Assigns(A, h) => WaveShows(e.lines, h, t + 1) = x
  BY <1>1, <1>2, <1>3, <1>4, <1>5, <1>6, DiffShows
<1> HIDE DEF e
<1>8. QED  BY <1>1, <1>7 DEF Holds, OneMore, ShowsFrame, e, A, h, x

\* A waveform of frames at times 0 to N shows each declared signal with the
\* values the frames have for it.
LEMMA DumpedAll ==
  ASSUME NEW dc, NEW arrays, DeclaredOnce(dc, arrays), NEW V, NEW N \in Nat, NEW frames,
         \A k \in 1..N + 1 : FrameOf(frames[k], arrays, V),
         NEW s \in DOMAIN dc.bv, NEW k \in 1..N + 1
  PROVE  LET written[time \in 0..N] ==
               IF time = 0 THEN DumpAll(Assignments(dc, frames[1]), 0)
               ELSE DumpDiff(Assignments(dc, frames[time + 1]), written[time - 1], time)
         IN  ShowsFrame(written[N], dc.bv[s], frames[k], k - 1)
<1> DEFINE h == dc.bv[s].hash
           A == Dumps(V)
           first == DumpAll(Assignments(dc, frames[1]), 0)
           Later(t, d) == DumpDiff(Assignments(dc, frames[t + 1]), d, t)
           Is(f) == f = [ time \in 0..N |-> IF time = 0 THEN first ELSE Later(time, f[time - 1]) ]
           step == [ t \in 1..N |-> [ d \in A |-> IF Holds(d, V, h, t - 1) THEN Later(t, d) ELSE d ] ]
<1>1. Holds(first, V, h, 0) /\ ShowsFrame(first, dc.bv[s], frames[1], 0)
  BY DumpedFirst
<1>2. ASSUME NEW t \in 0..N, t + 1 \in 0..N, NEW d, Holds(d, V, h, t)
      PROVE  OneMore(Later(t + 1, d), d, V, dc.bv[s], frames[(t + 1) + 1], t + 1)
  <2>1. t \in Nat /\ (t + 1) + 1 \in 1..N + 1
    BY <1>2
  <2>2. FrameOf(frames[(t + 1) + 1], arrays, V)
    BY <2>1
  <2>3. QED  BY <1>2, <2>1, <2>2, DumpedLater
<1> HIDE DEF first, Later, A, h
<1>3. ASSUME NEW t \in 1..N, NEW d, Holds(d, V, h, t - 1)
      PROVE  Holds(Later(t, d), V, h, t)
  <2>1. t - 1 \in 0..N /\ (t - 1) + 1 = t /\ t \in 0..N
    OBVIOUS
  <2>2. OneMore(Later(t, d), d, V, dc.bv[s], frames[t + 1], t)
    BY <1>2, <1>3, <2>1
  <2>3. QED  BY <2>2 DEF OneMore, h
<1>4. step \in [1..N -> [A -> A]] /\ first \in A
  <2>1. \A t \in 1..N, d \in A : (IF Holds(d, V, h, t - 1) THEN Later(t, d) ELSE d) \in A
    BY <1>3 DEF Holds, A
  <2>2. first \in A
    BY <1>1 DEF Holds, A
  <2>3. QED  BY <2>1, <2>2
<1>5. \E f : StepByStep(f, N, first, step)
  <2> HIDE DEF step
  <2>1. QED  BY <1>4, IndexedRecursion
<1>6. PICK f : f = [ t \in 0..N |-> IF t = 0 THEN first ELSE step[t][f[t - 1]] ]
  BY <1>5 DEF StepByStep
<1>7. \A t \in 0..N : Holds(f[t], V, h, t)
  <2> DEFINE T == { t \in 0..N : Holds(f[t], V, h, t) }
  <2>1. 0 \in T
    <3> HIDE DEF step
    <3>1. QED  BY <1>1, <1>6
  <2>2. \A t \in 0..N : t \in T /\ t + 1 \in 0..N => t + 1 \in T
    <3> SUFFICES ASSUME NEW t \in 0..N, Holds(f[t], V, h, t), t + 1 \in 0..N
                 PROVE  Holds(f[t + 1], V, h, t + 1)
      OBVIOUS
    <3>1. t + 1 \in 1..N /\ t + 1 # 0 /\ (t + 1) - 1 = t
      OBVIOUS
    <3>2. f[t + 1] = step[t + 1][f[t]]
      <4> HIDE DEF step
      <4>1. QED  BY <1>6, <3>1
    <3>3. f[t] \in A
      BY DEF Holds, A
    <3>4. step[t + 1][f[t]] = Later(t + 1, f[t])
      BY <3>1, <3>3
    <3>5. QED  BY <1>3, <3>1, <3>2, <3>4
  <2>3. 0..N \subseteq T
    <3> HIDE DEF T
    <3>1. QED  BY <2>1, <2>2, IntervalInduction
  <2>4. QED  BY <2>3
<1>8. \A t \in 1..N : f[t] = Later(t, f[t - 1])
  <2> SUFFICES ASSUME NEW t \in 1..N
               PROVE  f[t] = Later(t, f[t - 1])
    OBVIOUS
  <2>1. t - 1 \in 0..N /\ t \in 0..N /\ t # 0
    OBVIOUS
  <2>2. f[t] = step[t][f[t - 1]]
    <3> HIDE DEF step
    <3>1. QED  BY <1>6, <2>1
  <2>3. Holds(f[t - 1], V, h, t - 1) /\ f[t - 1] \in A
    BY <1>7, <2>1 DEF Holds, A
  <2>4. QED  BY <2>2, <2>3
<1>9. Is(f)
  <2> HIDE DEF step
  <2>1. f = [ t \in 0..N |-> f[t] ] /\ f[0] = first
    BY <1>6
  <2> DEFINE Value(t) == IF t = 0 THEN first ELSE Later(t, f[t - 1])
  <2>2. \A t \in 0..N : f[t] = Value(t)
    <3> SUFFICES ASSUME NEW t \in 0..N
                 PROVE  f[t] = Value(t)
      OBVIOUS
    <3>1. t # 0 => t \in 1..N
      OBVIOUS
    <3>2. QED  BY <1>8, <2>1, <3>1
  <2>3. f = [ t \in 0..N |-> Value(t) ]
    <3> HIDE DEF Value
    <3>1. QED  BY <2>1, <2>2
  <2>4. QED  BY <2>3
<1> DEFINE c == CHOOSE g : Is(g)
<1>10. Is(c)
  <2> HIDE DEF Is
  <2>1. QED  BY <1>9
<1> HIDE DEF c
<1>11. c[0] = first /\ \A t \in 0..N : t + 1 \in 0..N => c[t + 1] = Later(t + 1, c[t])
  <2>1. c[0] = first
    BY <1>10
  <2>2. ASSUME NEW t \in 0..N, t + 1 \in 0..N
        PROVE  c[t + 1] = Later(t + 1, c[t])
    <3>1. t + 1 # 0 /\ (t + 1) - 1 = t
      OBVIOUS
    <3>2. QED  BY <1>10, <2>2, <3>1
  <2>3. QED  BY <2>1, <2>2
<1> DEFINE Good(t) == /\ Holds(c[t], V, h, t)
                      /\ \A j \in 1..t + 1 : ShowsFrame(c[t], dc.bv[s], frames[j], j - 1)
           T == { t \in 0..N : Good(t) }
<1>12. 0 \in T
  <2>1. \A j \in 1..0 + 1 : j = 1 /\ j - 1 = 0
    OBVIOUS
  <2>2. Good(0)
    BY <1>1, <1>11, <2>1
  <2>3. QED  BY <2>2
<1>13. \A t \in 0..N : t \in T /\ t + 1 \in 0..N => t + 1 \in T
  <2> SUFFICES ASSUME NEW t \in 0..N, Good(t), t + 1 \in 0..N
               PROVE  Good(t + 1)
    OBVIOUS
  <2> DEFINE e == c[t + 1]
  <2>1. OneMore(e, c[t], V, dc.bv[s], frames[(t + 1) + 1], t + 1)
    BY <1>2, <1>11
  <2> HIDE DEF e
  <2>2. Holds(e, V, h, t + 1)
    BY <2>1 DEF OneMore, h
  <2>3. ASSUME NEW j \in 1..(t + 1) + 1
        PROVE  ShowsFrame(e, dc.bv[s], frames[j], j - 1)
    <3>1. CASE j = (t + 1) + 1
      <4>1. j - 1 = t + 1
        BY <3>1
      <4>2. QED  BY <2>1, <3>1, <4>1 DEF OneMore
    <3>2. CASE j \in 1..t + 1
      <4>1. j - 1 \in Nat /\ j - 1 < t + 1
        BY <3>2
      <4>2. ShowsFrame(c[t], dc.bv[s], frames[j], j - 1)
        BY <3>2
      <4>3. QED  BY <2>1, <4>1, <4>2 DEF OneMore, ShowsFrame
    <3>3. QED  BY <3>1, <3>2
  <2>4. QED  BY <2>2, <2>3 DEF e
<1>14. Good(N)
  <2>1. 0..N \subseteq T
    <3> HIDE DEF T
    <3>1. QED  BY <1>12, <1>13, IntervalInduction
  <2>2. N \in 0..N
    OBVIOUS
  <2>3. QED  BY <2>1, <2>2
<1>15. ShowsFrame(c[N], dc.bv[s], frames[k], k - 1)
  BY <1>14
<1>16. QED  BY <1>15 DEF c, first, Later

-----------------------------------------------------------------------------
(* The invariant of the printer.                                           *)

SignalsInv == WitnessInv /\ WitnessShaped /\ OutShaped /\ DeclShaped

\* The values there are in the client's copy.
ValuesAt(frame) ==
  UNION { {frame[t], frame[t].base} \cup { frame[t].stores[j][2] : j \in DOMAIN frame[t].stores } :
            t \in DOMAIN frame }

AllValues == UNION { ValuesAt(out[k]) : k \in DOMAIN out }

\* A frame of the copy is as the printer needs it.
LEMMA OutFrames ==
  ASSUME OutShaped, NEW k \in DOMAIN out
  PROVE  FrameOf(out[k], design.arrays, AllValues)
<1> DEFINE frame == out[k]
<1>1. ArraysStored(frame)
  BY DEF OutShaped
<1>2. ValuesAt(frame) \subseteq AllValues
  BY DEF AllValues
<1> HIDE DEF frame
<1>3. ASSUME NEW t \in DOMAIN frame
      PROVE  /\ frame[t] \in AllValues /\ frame[t].base \in AllValues
             /\ \A j \in DOMAIN frame[t].stores : frame[t].stores[j][2] \in AllValues
  <2> DEFINE Own == {frame[t], frame[t].base} \cup { frame[t].stores[j][2] : j \in DOMAIN frame[t].stores }
  <2>1. Own \subseteq ValuesAt(frame)
    BY DEF ValuesAt
  <2>2. QED  BY <1>2, <2>1
<1>4. QED  BY <1>1, <1>3 DEF FrameOf, ArraysStored, frame

\* The frames depend on the design and the solver only.
LEMMA FramesKept ==
  ASSUME design' = design, solver' = solver
  PROVE  Frames' = Frames /\ \A frame : ArraysStored(frame)' <=> ArraysStored(frame)
  BY DEF Frames, ArraysStored, ValuesIn

\* Nothing is declared at the start.
LEMMA SignalsInitInv == WitnessInit => SignalsInv
<1> SUFFICES ASSUME WitnessInit
             PROVE  SignalsInv
  OBVIOUS
<1>1. /\ witness = <<>> /\ out = <<>> /\ client = "check" /\ decl = NoSignals
  BY DEF WitnessInit, WitnessStart
<1>2. Sequence(<<>>)
  <2>1. 0 \in Nat /\ <<>> = [ k \in 1..0 |-> <<>>[k] ]
    OBVIOUS
  <2>2. QED  BY <2>1 DEF Sequence
<1>3. WitnessShaped /\ OutShaped
  BY <1>1, <1>2 DEF WitnessShaped, OutShaped
<1>4. DeclShaped
  <2> DEFINE X == {<<>>, 0, FALSE}
  <2>1. NoSignals \in Declared(X)
    BY DEF NoSignals, Declared
  <2>2. NoSignals.bv = <<>> /\ NoSignals.arrays = <<>> /\ NoSignals.hashes = 0
    BY DEF NoSignals
  <2>3. DeclaredOnce(NoSignals, design.arrays)
    BY <1>2, <2>1, <2>2 DEF DeclaredOnce
  <2>4. QED  BY <1>1, <2>3 DEF DeclShaped
<1>5. QED  BY <1>3, <1>4, WitnessInitInv DEF SignalsInv

\* Values of a counterexample that are added to a witness.
LEMMA WitnessGrows ==
  ASSUME design \in Designs, witness \in Seq(Frames), NEW n \in Nat, NEW p \in Counterexamples(design, n)
  PROVE  witness \o ComputeWitness(p, n) \in Seq(Frames) /\ Len(witness \o ComputeWitness(p, n)) >= 1
<1> DEFINE w == ComputeWitness(p, n)
<1>1. w \in Seq(Frames) /\ Len(w) = n + 1
  BY ComputedFrames
<1> HIDE DEF w
<1>2. Len(witness) \in Nat /\ Len(witness \o w) = Len(witness) + Len(w) /\ witness \o w \in Seq(Frames)
  BY <1>1
<1>3. QED  BY <1>1, <1>2 DEF w

\* The invariant through the answer, the copy and each declaration.
LEMMA SignalsStepInv == SignalsInv /\ [WitnessNext]_witnessVars => SignalsInv'
<1> SUFFICES ASSUME SignalsInv, [WitnessNext]_witnessVars
             PROVE  SignalsInv'
  OBVIOUS
<1> USE DEF prover, printer
<1>0. WitnessInv' /\ design \in Designs
  BY WitnessStepInv DEF SignalsInv, WitnessInv, WitnessTyped
<1>1. design' = design /\ solver' = solver
  BY DEF WitnessNext, FindUnrolling, FindIC3, ProveMsat, Ask, Asking, AskInVain, StartPrinting, DeclareNamed,
         DeclareState, DeclareInput, DumpValues, witnessVars
<1>2. /\ Frames' = Frames
      /\ \A frame : ArraysStored(frame)' <=> ArraysStored(frame)
  BY <1>1, FramesKept
<1>3. ASSUME UNCHANGED <<out, decl>>, witness' \in Seq(Frames),
             client' \notin {"declare", "done"}, client' # "ask" \/ asks' = 0,
             client' # "check" /\ engine' # "ic3" => Len(witness') >= 1
      PROVE  SignalsInv'
  <2>1. WitnessShaped'
    BY <1>2, <1>3 DEF WitnessShaped
  <2>2. OutShaped'
    BY <1>2, <1>3 DEF SignalsInv, OutShaped
  <2>3. DeclShaped'
    BY <1>1, <1>3 DEF SignalsInv, DeclShaped
  <2>4. QED  BY <1>0, <2>1, <2>2, <2>3 DEF SignalsInv
<1>4. CASE FindUnrolling
  <2>0. witness = <<>> /\ asks = 0 /\ witness \in Seq(Frames)
    BY <1>4 DEF FindUnrolling, SignalsInv, WitnessInv, WitnessNothingYet, WitnessShaped
  <2>1. PICK n \in 0..MaxSteps : \E model \in Counterexamples(design, n) :
               reachedK' = n - 1 /\ witness' = witness \o ComputeWitness(model, WitnessLength(cexGoals))
    BY <1>4 DEF FindUnrolling
  <2>2. PICK model \in Counterexamples(design, n) :
               reachedK' = n - 1 /\ witness' = witness \o ComputeWitness(model, WitnessLength(cexGoals))
    BY <2>1
  <2>3. n \in Nat /\ reachedK' + 1 = n
    BY <2>2, StepsAreNumbers
  <2>4. WitnessLength(cexGoals) = n
    BY <1>4, <2>3 DEF FindUnrolling, WitnessLength
  <2>5. witness' \in Seq(Frames) /\ Len(witness') >= 1
    BY <1>0, <2>0, <2>2, <2>3, <2>4, WitnessGrows
  <2>6. QED  BY <1>3, <1>4, <2>0, <2>5 DEF FindUnrolling
<1>5. CASE FindIC3
  <2>0. asks = 0 /\ witness \in Seq(Frames)
    BY <1>5 DEF FindIC3, SignalsInv, WitnessInv, WitnessNothingYet, WitnessShaped
  <2>1. /\ UNCHANGED <<engine, witness, out, asks, decl>> /\ engine = "ic3" /\ client' = "ask"
    BY <1>5 DEF FindIC3
  <2>2. QED  BY <1>3, <2>0, <2>1
<1>6. CASE ProveMsat
  <2>0. witness = <<>> /\ asks = 0 /\ witness \in Seq(Frames)
    BY <1>6 DEF ProveMsat, SignalsInv, WitnessInv, WitnessNothingYet, WitnessShaped
  <2>1. /\ UNCHANGED <<engine, out, asks, decl>> /\ engine = "msat" /\ client' = "ask" /\ client' # "check"
    BY <1>6 DEF ProveMsat
  <2>2. (WitnessAtAnswer /\ WitnessTyped)' /\ engine' # "ic3"
    BY <1>0, <2>1 DEF WitnessInv
  <2>3. (reachedK + 1)' \in 0..MaxSteps /\ FromCex(witness, reachedK + 1)'
    BY <2>1, <2>2 DEF WitnessAtAnswer
  <2> DEFINE n == reachedK' + 1
  <2>4. n \in Nat
    BY <2>3, StepsAreNumbers
  <2>5. PICK p \in Counterexamples(design, n) : witness' = ComputeWitness(p, n)
    BY <1>1, <2>3 DEF FromCex, ComputeWitness
  <2> HIDE DEF n
  <2>6. witness' \in Seq(Frames) /\ Len(witness') >= 1
    <3>1. ComputeWitness(p, n) \in Seq(Frames) /\ Len(ComputeWitness(p, n)) = n + 1
      BY <1>0, <2>4, <2>5, ComputedFrames
    <3>2. QED  BY <2>4, <2>5, <3>1
  <2>7. QED  BY <1>3, <2>0, <2>1, <2>6
<1>7. CASE Ask
  <2>0. /\ client = "ask" /\ client' = "ask" /\ UNCHANGED <<engine, decl, cexGoals>>
        /\ out' = Transfer(witness')
    BY <1>7 DEF Ask, Asking
  <2>1. witness \in Seq(Frames) /\ (engine # "ic3" => Len(witness) >= 1)
    BY <2>0 DEF SignalsInv, WitnessShaped
  <2>2. witness' \in Seq(Frames) /\ Len(witness') >= 1
    <3>1. CASE engine # "ic3"
      BY <1>7, <2>1, <3>1 DEF Ask
    <3>2. CASE engine = "ic3"
      <4> DEFINE n == Len(cexGoals) - 1
      <4>1. n \in 0..MaxSteps
        BY <2>0, <3>2 DEF SignalsInv, WitnessInv, WitnessWhenAsked
      <4>2. n \in Nat
        BY <4>1, StepsAreNumbers
      <4>3. WitnessLength(cexGoals) = n
        BY <3>2 DEF WitnessLength
      <4>4. Counterexamples(design, n) # {}
        BY <2>0, <3>2 DEF SignalsInv, WitnessInv, WitnessWhenAsked
      <4>5. PICK model \in Counterexamples(design, n) : witness' = witness \o ComputeWitness(model, n)
        BY <1>7, <3>2, <4>3, <4>4 DEF Ask, ComputeIC3, Query
      <4> HIDE DEF n
      <4>6. QED  BY <1>0, <2>1, <4>2, <4>5, WitnessGrows
    <3>3. QED  BY <3>1, <3>2
  <2> DEFINE w == witness'
  <2>3. /\ Sequence(out') /\ DOMAIN out' = DOMAIN w
        /\ \A k \in DOMAIN out' : ArraysStored(out'[k])
    <3>1. w \in Seq(Frames) /\ out' = Transfer(w)
      BY <2>0, <2>2
    <3> HIDE DEF w
    <3>2. QED  BY <1>0, <3>1, TransferShaped
  <2>4. Len(out') >= 1
    <3>1. DOMAIN out' = 1..Len(out') /\ Len(out') \in Nat
      BY <2>3, SequenceIs
    <3>2. 1 \in DOMAIN w
      BY <2>2
    <3>3. 1 \in 1..Len(out')
      BY <2>3, <3>1, <3>2
    <3>4. QED  BY <3>1, <3>3
  <2> HIDE DEF w
  <2>5. OutShaped'
    BY <1>2, <2>3, <2>4 DEF OutShaped
  <2>6. WitnessShaped'
    BY <1>2, <2>2 DEF WitnessShaped
  <2>7. DeclShaped'
    BY <1>1, <2>0 DEF SignalsInv, DeclShaped
  <2>8. QED  BY <1>0, <2>5, <2>6, <2>7 DEF SignalsInv
<1>8. CASE AskInVain
  <2>1. /\ UNCHANGED <<engine, witness, out, decl>> /\ engine = "ic3"
        /\ client' \in {"PonoException", "SmtException"}
    BY <1>8 DEF AskInVain
  <2>2. witness \in Seq(Frames)
    BY DEF SignalsInv, WitnessShaped
  <2>3. QED  BY <1>3, <2>1, <2>2
<1>9. ASSUME UNCHANGED prover, DeclShaped',
             client' = client \/ (client = "ask" /\ asks > 0) \/ client = "declare"
      PROVE  SignalsInv'
  <2>1. /\ UNCHANGED <<engine, witness, out, asks>>
    BY <1>9
  <2>2. WitnessShaped'
    BY <1>2, <1>9, <2>1 DEF SignalsInv, WitnessShaped
  <2>3. OutShaped'
    BY <1>2, <1>9, <2>1 DEF SignalsInv, OutShaped
  <2>4. QED  BY <1>0, <1>9, <2>2, <2>3 DEF SignalsInv
<1>10. ASSUME UNCHANGED decl
       PROVE  DeclShaped'
  BY <1>1, <1>10 DEF SignalsInv, DeclShaped
<1>11. CASE StartPrinting
  <2>1. UNCHANGED prover /\ UNCHANGED decl /\ client = "ask" /\ asks > 0
    BY <1>11 DEF StartPrinting
  <2>2. QED  BY <1>9, <1>10, <2>1
<1>12. CASE DumpValues
  <2>1. UNCHANGED prover /\ UNCHANGED decl /\ client = "declare"
    BY <1>12 DEF DumpValues
  <2>2. QED  BY <1>9, <1>10, <2>1
<1>13. CASE UNCHANGED witnessVars
  <2>1. UNCHANGED prover /\ UNCHANGED decl /\ UNCHANGED client
    BY <1>13 DEF witnessVars
  <2>2. QED  BY <1>9, <1>10, <2>1
<1>14. DeclaredOnce(decl, design.arrays)
  BY DEF SignalsInv, DeclShaped
<1>15. CASE DeclareNamed
  <2>1. UNCHANGED prover /\ UNCHANGED client
    BY <1>15 DEF DeclareNamed
  <2>2. PICK n \in todo.named : decl' = InsertSignal(decl, n.name, n.term \in design.statevars, n.term)
    BY <1>15 DEF DeclareNamed
  <2>3. DeclaredOnce(decl', design.arrays)
    BY <1>14, <2>2, SignalDeclaredOnce
  <2>4. DeclShaped'
    BY <1>1, <2>3 DEF DeclShaped
  <2>5. QED  BY <1>9, <2>1, <2>4
<1>16. CASE DeclareState
  <2>1. UNCHANGED prover /\ UNCHANGED client
    BY <1>16 DEF DeclareState
  <2>2. PICK v \in todo.states :
               decl' = IF v \in design.arrays THEN InsertArray(decl, design.name[v], v, out)
                       ELSE InsertSignal(decl, design.name[v], TRUE, v)
    BY <1>16 DEF DeclareState
  <2>3. CASE v \in design.arrays
    <3>1. IsFiniteSet(design.indices)
      BY <1>0, DesignsAssumption
    <3>2. \A f \in DOMAIN out : v \in DOMAIN out[f] =>
            \A k \in DOMAIN out[f][v].stores : out[f][v].stores[k][1] \in design.indices
      BY <2>3 DEF SignalsInv, OutShaped, ArraysStored
    <3>3. DeclaredOnce(decl', design.arrays)
      <4> DEFINE S == design.indices
                 trace == out
                 name == design.name[v]
                 arrays == design.arrays
      <4>1. /\ DeclaredOnce(decl, arrays) /\ v \in arrays /\ IsFiniteSet(S)
            /\ \A f \in DOMAIN trace : v \in DOMAIN trace[f] =>
                 \A k \in DOMAIN trace[f][v].stores : trace[f][v].stores[k][1] \in S
            /\ decl' = InsertArray(decl, name, v, trace)
        BY <1>14, <2>2, <2>3, <3>1, <3>2
      <4> HIDE DEF S, trace, name, arrays
      <4>2. DeclaredOnce(InsertArray(decl, name, v, trace), arrays)
        BY <4>1, ArrayDeclaredOnce
      <4>3. QED  BY <4>1, <4>2 DEF arrays
    <3>4. DeclShaped'
      BY <1>1, <3>3 DEF DeclShaped
    <3>5. QED  BY <1>9, <2>1, <3>4
  <2>4. CASE v \notin design.arrays
    <3>1. DeclaredOnce(decl', design.arrays)
      BY <1>14, <2>2, <2>4, SignalDeclaredOnce
    <3>2. DeclShaped'
      BY <1>1, <3>1 DEF DeclShaped
    <3>3. QED  BY <1>9, <2>1, <3>2
  <2>5. QED  BY <2>3, <2>4
<1>17. CASE DeclareInput
  <2>1. UNCHANGED prover /\ UNCHANGED client
    BY <1>17 DEF DeclareInput
  <2>2. PICK v \in todo.inputs :
               decl' = IF v \in design.arrays THEN decl ELSE InsertSignal(decl, design.name[v], FALSE, v)
    BY <1>17 DEF DeclareInput
  <2>3. DeclaredOnce(decl', design.arrays)
    BY <1>14, <2>2, SignalDeclaredOnce
  <2>4. DeclShaped'
    BY <1>1, <2>3 DEF DeclShaped
  <2>5. QED  BY <1>9, <2>1, <2>4
<1>18. QED  BY <1>4, <1>5, <1>6, <1>7, <1>8, <1>11, <1>12, <1>13, <1>15, <1>16, <1>17 DEF WitnessNext

\* What DumpValues writes shows the trace.
LEMMA DumpedAsInTrace ==
  ASSUME SignalsInv, DumpValues
  PROVE  SignalsAsInTrace'
<1> USE DEF prover, printer
<1>1. UNCHANGED <<out, decl, design>> /\ client = "declare"
  BY DEF DumpValues
<1> SUFFICES ASSUME NEW s \in DOMAIN decl.bv, NEW k \in DOMAIN out, decl.bv[s].ast \in DOMAIN out[k]
             PROVE  WaveShows(vcd'.lines, decl.bv[s].hash, k - 1) = out[k][decl.bv[s].ast]
  BY <1>1 DEF SignalsAsInTrace
<1> DEFINE N == Len(out) - 1
           frames == out
           V == AllValues
           arrays == design.arrays
           last == LET written[time \in 0..N] ==
                         IF time = 0 THEN DumpAll(Assignments(decl, frames[1]), 0)
                         ELSE DumpDiff(Assignments(decl, frames[time + 1]), written[time - 1], time)
                   IN  written[N]
<1>2. vcd' = last
  BY DEF DumpValues
<1>3. Len(out) \in Nat /\ DOMAIN out = 1..Len(out) /\ Len(out) >= 1
  BY <1>1, SequenceIs DEF SignalsInv, OutShaped
<1>4. N \in Nat /\ N + 1 = Len(out)
  BY <1>3
<1>5. \A j \in 1..N + 1 : FrameOf(frames[j], arrays, V)
  BY <1>3, <1>4, OutFrames DEF SignalsInv
<1>6. DeclaredOnce(decl, arrays) /\ k \in 1..N + 1
  BY <1>3, <1>4 DEF SignalsInv, DeclShaped
<1> HIDE DEF N, frames, V, arrays
<1>7. ShowsFrame(last, decl.bv[s], frames[k], k - 1)
  BY <1>4, <1>5, <1>6, DumpedAll
<1> HIDE DEF last
<1>8. QED  BY <1>2, <1>7 DEF ShowsFrame, frames

\* For every design, every way the solver gives arrays and every order of the
\* declarations, a waveform shows each declared signal at each time with the
\* value the witness has for its term, though only the changes are written.
THEOREM SignalsAreAsInTrace == WitnessSpec => []SignalsAsInTrace
<1> DEFINE Inv == SignalsInv /\ SignalsAsInTrace
<1>1. WitnessInit => Inv
  <2> SUFFICES ASSUME WitnessInit
               PROVE  Inv
    OBVIOUS
  <2>1. client = "check"
    BY DEF WitnessInit, WitnessStart
  <2>2. QED  BY <2>1, SignalsInitInv DEF SignalsAsInTrace
<1>2. Inv /\ [WitnessNext]_witnessVars => Inv'
  <2> SUFFICES ASSUME SignalsInv, SignalsAsInTrace, [WitnessNext]_witnessVars
               PROVE  Inv'
    OBVIOUS
  <2>1. SignalsInv'
    BY SignalsStepInv
  <2>2. SignalsAsInTrace'
    <3>1. CASE DumpValues
      BY <3>1, DumpedAsInTrace
    <3>2. CASE UNCHANGED witnessVars
      <4>1. UNCHANGED <<client, decl, out, vcd>>
        BY <3>2 DEF witnessVars, prover, printer
      <4>2. QED  BY <4>1 DEF SignalsAsInTrace
    <3>3. CASE client' # "done"
      BY <3>3 DEF SignalsAsInTrace
    <3>4. FindUnrolling \/ FindIC3 \/ ProveMsat \/ Ask \/ AskInVain \/ StartPrinting \/ DeclareNamed
            \/ DeclareState \/ DeclareInput => client' # "done"
      BY DEF FindUnrolling, FindIC3, ProveMsat, Ask, Asking, AskInVain, StartPrinting, DeclareNamed,
             DeclareState, DeclareInput
    <3>5. QED  BY <3>1, <3>2, <3>3, <3>4 DEF WitnessNext
  <2>3. QED  BY <2>1, <2>2
<1>3. Inv => SignalsAsInTrace
  OBVIOUS
<1> HIDE DEF Inv
<1>4. QED  BY <1>1, <1>2, <1>3, PTL DEF WitnessSpec
=============================================================================
