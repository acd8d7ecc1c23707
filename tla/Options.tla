------------------------------ MODULE Options ------------------------------
(***************************************************************************)
(* The command line (options/options.h, options.cpp).  The option parser   *)
(* outside the repository checks the arguments of all options first, then  *)
(* one option after the other sets the fields of PonoOptions.              *)
(* An argument is a text, "" where there is none; of the numerals, "-1" is *)
(* the largest unsigned long and "huge" one that no unsigned long holds.   *)
(***************************************************************************)
EXTENDS Integers, Sequences, FiniteSets

CONSTANTS CommandLines,   \* the words of the command lines
          INT_MAX,        \* the largest int
          WITH_PROFILING

\* A word is an option with its argument, or the file.
ASSUME CommandLinesAssumption == CommandLines \subseteq Seq([opt : STRING, arg : STRING])

VARIABLES argv, atOption, fields, result
optionVars == <<argv, atOption, fields, result>>

-----------------------------------------------------------------------------
\* stoul, on the numerals used here: -1 wraps around.
Numerals == {"-1", "0", "1", "3", "5", "100", "huge"}
ULONG_MAX == 2 * INT_MAX + 1
stoul(text) ==
  CASE text = "-1" -> ULONG_MAX [] text = "0" -> 0 [] text = "1" -> 1 [] text = "3" -> 3
    [] text = "5" -> 5 [] text = "100" -> 100

(* What the descriptors in usage say of an option: the checker of its      *)
(* argument and the field it sets, to TRUE, FALSE or the argument.         *)
On(o, f)     == [opt |-> o, check |-> "None", field |-> f, to |-> TRUE]
Off(o, f)    == [opt |-> o, check |-> "None", field |-> f, to |-> FALSE]
Number(o, f) == [opt |-> o, check |-> "Numeric", field |-> f]
Word(o, f)   == [opt |-> o, check |-> "NonEmpty", field |-> f]
Pair(o, f)   == [opt |-> o, check |-> "ColonSepPair", field |-> f]

MainOptions ==
  { Word("engine", "engine"), Number("bound", "bound"), Number("prop", "prop_idx"),
    Number("verbosity", "verbosity"), Number("random-seed", "random_seed"),
    Word("vcd", "vcd_name") }
SolverOptions ==
  { Word("smt-solver", "smt_solver"), Pair("smt-solver-opt", "smt_solver_opts"),
    Word("smt-interpolator", "smt_interpolator"),
    Pair("smt-interpolator-opt", "smt_interpolator_opts"),
    On("logging-smt-solver", "logging_smt_solver"),
    On("printing-smt-solver", "printing_smt_solver"),
    On("printing-smt-interpolator", "printing_smt_interpolator") }
TaskOptions ==
  { On("witness", "witness"), Word("dump-btor2-witness", "btor2_witness_name"),
    On("justice", "justice"), Word("justice-translator", "justice_translator"),
    On("static-coi", "static_coi"), On("show-invar", "show_invar"),
    On("check-invar", "check_invar"), On("check-trans-total", "check_trans_total"),
    Word("reset", "reset_name"), Number("resetsteps", "reset_bnd"),
    Word("clock", "clock_name") }
IC3Options ==
  { Off("no-ic3-pregen", "ic3_pregen"), Off("no-ic3-indgen", "ic3_indgen"),
    Number("ic3-gen-max-iter", "ic3_gen_max_iter"),
    On("ic3-functional-preimage", "ic3_functional_preimage"),
    Off("no-ic3ia-reduce-preds", "ic3ia_reduce_preds"),
    Off("no-ic3ia-track-important-vars", "ic3ia_track_important_vars"),
    Off("no-ic3ia-sim-cex", "ic3ia_sim_cex"), Word("ic3ia-predicates", "ic3ia_predicate_file"),
    On("ic3ia-skip-init-predicates", "ic3ia_skip_init_preds"),
    Word("dump-blocking-clauses", "dump_blocking_clauses"),
    On("incremental-dump", "incremental_dump"), Number("simulate", "simulate_steps"),
    Word("simulate-output", "simulate_output"),
    Off("no-ic3sa-func-refine", "ic3sa_func_refine"),
    Number("mbic3-indgen-mode", "mbic3_indgen_mode"),
    Word("profiling-log", "profiling_log_filename") }
CegarOptions ==
  { On("pseudo-init-prop", "pseudo_init_prop"), On("assume-prop", "assume_prop"),
    On("ceg-prophecy-arrays", "ceg_prophecy_arrays"),
    Off("no-cegp-timed-axiom-red", "cegp_timed_axiom_red"),
    Off("no-cegp-consec-axiom-red", "cegp_consec_axiom_red"),
    Off("no-cegp-nonconsec-axiom-red", "cegp_nonconsec_axiom_red"),
    On("cegp-force-restart", "cegp_force_restart"), On("cegp-abs-vals", "cegp_abs_vals"),
    Number("cegp-abs-vals-cutoff", "cegp_abs_vals_cutoff"),
    On("cegp-strong-abs", "cegp_strong_abstraction"), On("ceg-bv-arith", "ceg_bv_arith"),
    On("ceg-bv-arith-as-free-symbol", "ceg_bv_arith_as_free_symbol"),
    Number("ceg-bv-arith-min-bw", "ceg_bv_arith_min_bw") }
SygusOptions ==
  { On("promote-inputvars", "promote_inputvars"),
    Number("sygus-op-lv", "sygus_use_operator_abstraction"),
    Number("sygus-term-mode", "sygus_term_mode"),
    Number("ic3sa-initial-terms-lvl", "ic3sa_initial_terms_lvl"),
    On("ic3sa-interp", "ic3sa_interp"), On("print-wall-time", "print_wall_time") }
BmcOptions ==
  { Number("bmc-bound-start", "bmc_bound_start"), Number("bmc-bound-step", "bmc_bound_step"),
    On("bmc-neg-init-step", "bmc_neg_init_step"),
    On("bmc-exponential-step", "bmc_exponential_step"),
    On("bmc-single-bad-state", "bmc_single_bad_state"),
    On("bmc-neg-bad-step", "bmc_neg_bad_step"),
    On("bmc-neg-bad-step-all", "bmc_neg_bad_step_all"),
    On("bmc-min-cex-linear-search", "bmc_min_cex_linear_search"),
    On("bmc-min-cex-less-inc-bin-search", "bmc_min_cex_less_inc_bin_search"),
    On("bmc-allow-non-minimal-cex", "bmc_allow_non_minimal_cex") }
KindOptions ==
  { On("no-kind-simple-path-check", "kind_no_simple_path_check"),
    On("kind-eager-simple-path-check", "kind_eager_simple_path_check"),
    On("no-kind-multi-call-simple-path-check", "kind_no_multi_call_simple_path_check"),
    On("no-kind-ind-check-init-states", "kind_no_ind_check_init_states"),
    On("no-kind-ind-check", "kind_no_ind_check"),
    On("no-kind-ind-check-property", "kind_no_ind_check_property"),
    On("kind-one-time-base-check", "kind_one_time_base_check"),
    Number("kind-bound-step", "kind_bound_step") }
InterpOptions ==
  { Off("no-interp-frontier-simpl", "interp_frontier_set_simpl"),
    Word("interp-props", "interp_props"), On("interp-eager-unroll", "interp_eager_unroll"),
    On("interp-backward", "interp_backward") }
KliveOptions ==
  { Number("klive-bound", "klive_bound"), Number("klive-start-step", "klive_start_step"),
    Number("klive-step-size", "klive_step_size"),
    Word("klive-counter-enc", "klive_counter_encoding"),
    Off("no-klive-check-lasso-in-cex", "klive_check_lasso_in_cex"),
    Off("no-klive-lockstep-bmc", "klive_lockstep_bmc") }

Rows == MainOptions \cup SolverOptions \cup TaskOptions \cup IC3Options \cup CegarOptions
          \cup SygusOptions \cup BmcOptions \cup KindOptions \cup InterpOptions \cup KliveOptions

usage == [ o \in { r.opt : r \in Rows } |-> CHOOSE r \in Rows : r.opt = o ]

-----------------------------------------------------------------------------
(* The defaults that are not FALSE, "" or 0.                               *)
DefaultTrue ==
  { "ic3_pregen", "ic3_indgen", "ic3ia_reduce_preds", "ic3ia_track_important_vars",
    "ic3ia_sim_cex", "ic3sa_func_refine", "cegp_timed_axiom_red", "cegp_consec_axiom_red",
    "cegp_nonconsec_axiom_red", "interp_frontier_set_simpl", "klive_check_lasso_in_cex",
    "klive_lockstep_bmc" }
DefaultValues ==
  [ engine |-> "bmc", bound |-> "10", justice_translator |-> "l2s", reset_bnd |-> "1",
    smt_solver |-> "bzla", smt_interpolator |-> "msat", ic3_gen_max_iter |-> "2",
    cegp_abs_vals_cutoff |-> "100", ceg_bv_arith_min_bw |-> "16", sygus_term_mode |-> "4",
    ic3sa_initial_terms_lvl |-> "4", bmc_bound_step |-> "1", kind_bound_step |-> "1",
    interp_props |-> "all", klive_bound |-> "1000", klive_start_step |-> "1",
    klive_step_size |-> "1", klive_counter_encoding |-> "bv-binary" ]

Default(f) ==
  CASE f \in DOMAIN DefaultValues -> DefaultValues[f]
    [] f \in DefaultTrue -> TRUE
    [] f \notin DefaultTrue /\ \E o \in DOMAIN usage : usage[o].field = f /\ usage[o].check = "None"
         -> FALSE
    [] f \notin DOMAIN DefaultValues
         /\ \E o \in DOMAIN usage : usage[o].field = f /\ usage[o].check = "Numeric" -> "0"
    [] OTHER -> ""

\* The value of a field that may have been set.
Field(f) == IF f \in DOMAIN fields THEN fields[f] ELSE Default(f)

\* The words an option knows.
Words ==
  [ engine |-> {"bmc", "bmc-sp", "ind", "dar", "interp", "ismc", "mbic3", "ic3bool", "ic3bits",
                "ic3ia", "msat-ic3ia", "ic3sa", "sygus-pdr"},
    smt_solver |-> {"btor", "bzla", "cvc5", "msat", "yices2", "z3"},
    smt_interpolator |-> {"cvc5", "msat"}, justice_translator |-> {"l2s", "klive"},
    interp_props |-> {"all", "first-and-last"},
    klive_counter_encoding |-> {"bv-binary", "bv-one-hot", "int"} ]

Positive == {"bmc_bound_step", "kind_bound_step", "klive_bound", "klive_start_step",
             "klive_step_size"}
Pairs == {"a:b"}

-----------------------------------------------------------------------------
OptionsStart(line) ==
  /\ argv = line
  /\ atOption = 0
  /\ fields = <<>>
  /\ result = "none"

OptionsInit == \E line \in CommandLines : OptionsStart(line)

\* The checkers of Arg.
ArgumentOk(o) ==
  /\ o.opt \in DOMAIN usage \cup {"help", "version"}
  /\ CASE o.opt \notin DOMAIN usage -> TRUE
       [] o.opt \in DOMAIN usage /\ usage[o.opt].check = "None" -> TRUE
       [] o.opt \in DOMAIN usage /\ usage[o.opt].check = "Numeric"      -> o.arg \in Numerals
       [] o.opt \in DOMAIN usage /\ usage[o.opt].check = "NonEmpty"     -> o.arg # ""
       [] o.opt \in DOMAIN usage /\ usage[o.opt].check = "ColonSepPair" -> o.arg \in Pairs

\* Exactly one argument is the file.
ParseOptions ==
  /\ atOption = 0 /\ result = "none"
  /\ IF /\ \A i \in DOMAIN argv : argv[i].opt = "file" \/ ArgumentOk(argv[i])
        /\ \A i \in DOMAIN argv : argv[i].opt \notin {"help", "version"}
        /\ Cardinality({ i \in DOMAIN argv : argv[i].opt = "file" }) = 1
     THEN atOption' = 1 /\ UNCHANGED result
     ELSE result' = "ERROR" /\ UNCHANGED atOption
  /\ UNCHANGED <<argv, fields>>

\* What PonoException a number or a word is answered with, if any.
Unacceptable(f, arg) ==
  \/ f = "bound" /\ stoul(arg) >= INT_MAX
  \/ f = "mbic3_indgen_mode" /\ stoul(arg) \notin 0..2
  \/ f = "ic3sa_initial_terms_lvl" /\ stoul(arg) > 4
  \/ f \in Positive /\ stoul(arg) = 0
  \/ f \in DOMAIN Words /\ arg \notin Words[f]
  \/ f = "profiling_log_filename" /\ ~WITH_PROFILING

\* Seeded fault: no break behind the option before --kind-one-time-base-check.
AlsoSetsFallingThrough(opt) ==
  CASE opt = "no-kind-ind-check-property" -> [kind_one_time_base_check |-> TRUE]
    [] opt \in {"vcd", "dump-btor2-witness"} -> [witness |-> TRUE]
    [] opt = "no-kind-ind-check" ->
         [kind_no_ind_check_init_states |-> TRUE, kind_no_ind_check_property |-> TRUE]
    [] OTHER -> <<>>

\* What an option sets besides its field: the three options of IC3IA have one
\* break between them, the files of witnesses ask for one.
AlsoSets(opt) ==
  CASE opt = "no-ic3ia-reduce-preds" ->
         [ic3ia_track_important_vars |-> FALSE, ic3ia_sim_cex |-> FALSE]
    [] opt = "no-ic3ia-track-important-vars" -> [ic3ia_sim_cex |-> FALSE]
    [] opt \in {"vcd", "dump-btor2-witness"} -> [witness |-> TRUE]
    [] opt = "no-kind-ind-check" ->
         [kind_no_ind_check_init_states |-> TRUE, kind_no_ind_check_property |-> TRUE]
    [] OTHER -> <<>>

Conflict(opt) ==
  \/ opt = "bmc-neg-bad-step" /\ Field("bmc_neg_bad_step_all")
  \/ opt = "bmc-neg-bad-step-all" /\ Field("bmc_neg_bad_step")

\* The assignments of f over those of g.
Over(f, g) == [ x \in DOMAIN f \cup DOMAIN g |-> IF x \in DOMAIN f THEN f[x] ELSE g[x] ]

\* One turn of the loop.  A number too large is an exception no one catches.
ReadOption ==
  /\ atOption \in DOMAIN argv /\ result = "none"
  /\ LET o == argv[atOption]
         u == usage[o.opt]
         value == IF u.check = "None" THEN u.to ELSE o.arg
     IN  IF o.opt = "file" THEN UNCHANGED <<fields, result>>
         ELSE IF u.check = "Numeric" /\ o.arg = "huge"
         THEN result' = "terminate" /\ UNCHANGED fields
         ELSE /\ fields' = Over(AlsoSets(o.opt), Over([ f \in {u.field} |-> value ], fields))
              /\ result' = IF (u.check # "None" /\ Unacceptable(u.field, o.arg)) \/ Conflict(o.opt)
                           THEN "ERROR" ELSE "none"
  /\ atOption' = atOption + 1
  /\ UNCHANGED argv

OptionsRead ==
  /\ atOption = Len(argv) + 1 /\ result = "none"
  /\ result' = "UNKNOWN"
  /\ UNCHANGED <<argv, atOption, fields>>

OptionsNext == ParseOptions \/ ReadOption \/ OptionsRead
OptionsSpec == OptionsInit /\ [][OptionsNext]_optionVars

-----------------------------------------------------------------------------
(* What the help says.                                                     *)

\* The fields an option is about according to its help and options.h: "this
\* option implies" (options.h, kind_no_ind_check_) and "implicitly enabling
\* witness" (options.cpp:914).
Documented(opt) ==
  {usage[opt].field}
  \cup (IF opt \in {"vcd", "dump-btor2-witness"} THEN {"witness"} ELSE {})
  \cup (IF opt = "no-kind-ind-check"
        THEN {"kind_no_ind_check_init_states", "kind_no_ind_check_property"} ELSE {})

DocumentedValue(i, f) ==
  LET u == usage[argv[i].opt]
  IN  IF u.check = "None" THEN u.to ELSE IF f = u.field THEN argv[i].arg ELSE TRUE

\* When the options are accepted, every field has the value of the last option
\* that is documented to set it, and its default when there is none; in whatever
\* order and with whatever other options they are given.
OptionsAsDocumented ==
  result = "UNKNOWN" =>
    \A f \in { usage[o].field : o \in DOMAIN usage } :
      LET setters == { i \in DOMAIN argv : argv[i].opt # "file" /\ f \in Documented(argv[i].opt) }
      IN  Field(f) = IF setters = {} THEN Default(f)
                     ELSE DocumentedValue(CHOOSE i \in setters : \A j \in setters : j <= i, f)
=============================================================================
