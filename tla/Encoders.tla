------------------------------ MODULE Encoders ------------------------------
(***************************************************************************)
(* How the readers of the three file formats build a system                *)
(* (frontends/btor2_encoder.cpp, smvparser.y, vmt_encoder.cpp).  A file is *)
(* the sequence of what its lines declare: a tag, the symbol declared or   *)
(* assigned, the next-state symbol (VMT) and a term.  Symbols have the     *)
(* widths file.width.                                                      *)
(***************************************************************************)
EXTENDS TransitionSystem

CONSTANT Files

\* An encoder: the system, the properties and what the printers ask for.
NewEncoder(functional, sort) ==
  [ ts |-> FreshTs(functional, sort), props |-> <<>>, inputs |-> {}, states |-> {},
    initialized |-> {}, noNext |-> {} ]

Bad(t) == Not(t)

\* Inputs in a bad state property become states.
PromotedForBad(ts, t) == PromoteInputvarsIn(ts, t)

\* One line of BTOR2Encoder::parse.
Btor2Line(enc, line) ==
  LET ts == enc.ts
      v  == line.symbol
  IN  CASE line.tag = "state" ->
             [enc EXCEPT !.ts = MakeStatevar(ts, v, line.width),
                         !.states = @ \cup {v}, !.noNext = @ \cup {v}]
        [] line.tag = "input" ->
             [enc EXCEPT !.ts = MakeInputvar(ts, v, line.width), !.inputs = @ \cup {v}]
        [] line.tag = "init" ->
             [enc EXCEPT !.ts = ConstrainInit(ts, Equal(Var(v), line.term)),
                         !.initialized = @ \cup {v}]
        [] line.tag = "next" ->
             [enc EXCEPT !.ts = AssignNext(ts, v, line.term), !.noNext = @ \ {v}]
        [] line.tag = "constraint" ->
             [enc EXCEPT !.ts = AddConstraint(PromoteInputvarsIn(ts, line.term),
                                              line.term, TRUE)]
        [] line.tag = "bad" ->
             [enc EXCEPT !.ts = PromotedForBad(ts, line.term),
                         !.props = Append(@, Bad(line.term))]
        [] line.tag = "fair" -> enc

\* The declarations of the flattened SMV file, its assignments and constraints.
SmvDeclaration(enc, line) ==
  LET v == line.symbol
      declared == MakeStatevar(enc.ts, v, line.width)
  IN  CASE line.tag = "IVAR"      -> [enc EXCEPT !.ts = MakeInputvar(@, v, line.width)]
        [] line.tag = "VAR"       -> [enc EXCEPT !.ts = declared]
        [] line.tag = "FROZENVAR" ->
             [enc EXCEPT !.ts = ConstrainTrans(declared, Equal(Var(NextName(v)), Var(v)))]

SmvAssignment(enc, line) ==
  LET ts == enc.ts
      v  == line.symbol
  IN  CASE line.tag = "ASSIGN"    ->
             [enc EXCEPT !.ts = AddConstraint(ts, Equal(Var(v), line.term), TRUE)]
        [] line.tag = "ASSIGN init" ->
             [enc EXCEPT !.ts = ConstrainInit(ts, Equal(Var(v), line.term))]
        [] line.tag = "ASSIGN next" ->
             [enc EXCEPT !.ts =
                IF OnlyCurr(ts, line.term) THEN AssignNext(ts, v, line.term)
                ELSE ConstrainTrans(ts, Equal(Var(ts.nextMap[v]), line.term))]

SmvConstraint(enc, line) ==
  CASE line.tag = "INIT"      -> [enc EXCEPT !.ts = ConstrainInit(@, line.term)]
    [] line.tag = "TRANS"     -> [enc EXCEPT !.ts = ConstrainTrans(@, line.term)]
    [] line.tag = "INVAR"     -> [enc EXCEPT !.ts = AddInvar(@, line.term)]
    [] line.tag = "INVARSPEC" -> [enc EXCEPT !.props = Append(@, line.term)]

SmvLine(enc, line) ==
  CASE line.tag \in {"IVAR", "VAR", "FROZENVAR"} -> SmvDeclaration(enc, line)
    [] line.tag \in {"ASSIGN", "ASSIGN init", "ASSIGN next"} -> SmvAssignment(enc, line)
    [] OTHER -> SmvConstraint(enc, line)

\* new_symbol and term_attribute: a symbol is an input until it is given a
\* next-state symbol, which need not be declared.
VmtLine(enc, line) ==
  LET ts == enc.ts
      v  == line.symbol
      named == IF line.next \in DOMAIN ts.sort THEN ts
               ELSE MakeInputvar(ts, line.next, ts.sort[v])
  IN  CASE line.tag = "declare" -> [enc EXCEPT !.ts = MakeInputvar(ts, v, line.width)]
        [] line.tag = ":next"   -> [enc EXCEPT !.ts = AddStatevar(named, v, line.next)]
        [] line.tag = ":init"   -> [enc EXCEPT !.ts = ConstrainInit(ts, line.term)]
        [] line.tag = ":trans"  -> [enc EXCEPT !.ts = ConstrainTrans(ts, line.term)]
        [] line.tag = ":invar-property" -> [enc EXCEPT !.props = Append(@, line.term)]

\* A symbol of the solver is known by the name the encoder gives it.
Encode(file) ==
  LET line(enc, l) == CASE file.format = "btor2" -> Btor2Line(enc, l)
                        [] file.format = "smv"   -> SmvLine(enc, l)
                        [] file.format = "vmt"   -> VmtLine(enc, l)
  IN  FoldLeft(line, NewEncoder(file.format = "btor2", <<>>), file.lines)

-----------------------------------------------------------------------------
(* What a file means, from its lines alone: the states and inputs a run    *)
(* may have, its steps, and where a property is violated.                  *)

TermsOf(file, tag) == { l.term : l \in { k \in Range(file.lines) : k.tag = tag } }
LinesOf(file, tag) == { l \in Range(file.lines) : l.tag = tag }
Widths(file, tags) ==
  LET lines == { l \in Range(file.lines) : l.tag \in tags }
  IN  [v \in { l.symbol : l \in lines } |-> (CHOOSE l \in lines : l.symbol = v).width]

VmtStates(file) == { l.symbol : l \in LinesOf(file, ":next") }
VmtNexts(file)  == { l.next : l \in LinesOf(file, ":next") }

StateWidths(file) ==
  CASE file.format = "btor2" -> Widths(file, {"state"})
    [] file.format = "smv"   -> Widths(file, {"VAR", "FROZENVAR"})
    [] file.format = "vmt"   ->
         LET all == Widths(file, {"declare"}) IN [v \in VmtStates(file) |-> all[v]]

InputWidths(file) ==
  CASE file.format = "btor2" -> Widths(file, {"input"})
    [] file.format = "smv"   -> Widths(file, {"IVAR"})
    [] file.format = "vmt"   ->
         LET all == Widths(file, {"declare"})
         IN  [v \in DOMAIN all \ (VmtStates(file) \cup VmtNexts(file)) |-> all[v]]

NextNames(file) ==
  IF file.format = "vmt"
  THEN [v \in VmtStates(file) |-> (CHOOSE l \in LinesOf(file, ":next") : l.symbol = v).next]
  ELSE [v \in DOMAIN StateWidths(file) |-> NextName(v)]

FileStates(file) == Valuations(DOMAIN StateWidths(file), StateWidths(file))
FileInputs(file) == Valuations(DOMAIN InputWidths(file), InputWidths(file))

Assigned(file, tag, left(_), right) ==
  \A l \in LinesOf(file, tag) : left(l.symbol) = Eval(l.term, right)

MayStart(file, s) ==
  /\ HoldAll(TermsOf(file, "INIT") \cup TermsOf(file, ":init"), s)
  /\ Assigned(file, "init", LAMBDA v : s[v], s)
  /\ Assigned(file, "ASSIGN init", LAMBDA v : s[v], s)

\* A state and its input that may be in a run.
Legal(file, s, in) ==
  /\ HoldAll(TermsOf(file, "constraint") \cup TermsOf(file, "INVAR"), s @@ in)
  /\ Assigned(file, "ASSIGN", LAMBDA v : s[v], s @@ in)

MayStep(file, s, in, t) ==
  LET both == s @@ in @@ Renamed(t, NextNames(file))
  IN  /\ Assigned(file, "next", LAMBDA v : t[v], s @@ in)
      /\ Assigned(file, "ASSIGN next", LAMBDA v : t[v], s @@ in)
      /\ \A l \in LinesOf(file, "FROZENVAR") : t[l.symbol] = s[l.symbol]
      /\ HoldAll(TermsOf(file, "TRANS") \cup TermsOf(file, ":trans"), both)

PropertyTerms(file) ==
  LET props == SelectSeq(file.lines, LAMBDA l : l.tag \in {"bad", "INVARSPEC", ":invar-property"})
  IN  [i \in 1..Len(props) |-> IF props[i].tag = "bad" THEN Not(props[i].term) ELSE props[i].term]

HasNext(file, t) == FreeSymbols(t) \cap Range(NextNames(file)) # {}

\* A property with next-state symbols is violated by a step.
Violated(file, prop, s, in) ==
  IF HasNext(file, prop)
  THEN \E t \in FileStates(file) : \E next \in FileInputs(file) :
         /\ MayStep(file, s, in, t) /\ Legal(file, t, next)
         /\ ~Holds(prop, s @@ in @@ Renamed(t, NextNames(file)))
  ELSE ~Holds(prop, s @@ in)
=============================================================================
