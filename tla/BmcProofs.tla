----------------------------- MODULE BmcProofs -----------------------------
(***************************************************************************)
(* Bounded model checking is right on every system: what it calls FALSE is *)
(* a run to a bad state, the linear and the less incremental search answer *)
(* with a shortest one, no search fails, and no bound that was passed      *)
(* hides a counterexample.                                                 *)
(*                                                                         *)
(* The invariant says, for each place in the code, what the solver's       *)
(* frames hold.  A search keeps the run it was started for: that run       *)
(* satisfies what the base level asserts, so that a query which finds      *)
(* nothing below a bound cannot find nothing at it.                        *)
(***************************************************************************)
EXTENDS Bmc, TransSysProofs, SequenceTheorems

Frame == [clauses : SUBSET SUBSET Int, never : SUBSET Int]

\* A run from an initial state that the negated initial states and the blocked
\* bounds of the base level allow.
Allowed(p) ==
  /\ p[0] \in sys.init
  /\ opts.negInit => \A t \in 1..depth : p[t] \notin sys.init
  /\ \A t \in stack[1].never : p[t] \notin sys.bad

\* The search was started by such a run, with a bad state at n.
Witnessed(n) == \E p \in Paths(sys, depth) : Allowed(p) /\ p[n] \in sys.bad

\* Every bound is tested on its own.
OneByOne(o) == o.start = 0 /\ o.step = 1 /\ ~o.exponential

Stepwise == OneByOne(opts)

\* The options with which the code looks for a shorter counterexample.
MaySearch(o) == ~OneByOne(o) /\ ~o.singleBad /\ ~o.allowNonMinimal

BmcTypes ==
  /\ sys \in Systems /\ opts \in Options
  /\ i \in Nat /\ depth \in Nat /\ reachedK \in Int /\ reachedK >= -1
  /\ stack \in Seq(Frame)
  /\ pc \in {"idle", "loop", "binary", "fallback", "linear", "lessinc", "done", "error"}
  /\ pc = "done" <=> result = "FALSE"
  /\ bound \in Nat
  /\ pc = "error" => opts.cegar /\ opts.search = "linear" /\ MaySearch(opts)

\* A linear search in a CEGAR loop leaves bin_search_frames_ wrapped.
Stale == binFrames = Wrapped /\ opts.cegar /\ opts.search = "linear"

\* Between two bounds the solver holds nothing but the blocked bounds.
BetweenBounds ==
  /\ Len(stack) = 1
  /\ stack[1].clauses = {}
  /\ stack[1].never \subseteq 0..reachedK
  /\ binFrames = 0 \/ Stale
  /\ CoversAll => Clear(sys, reachedK)
  /\ Stepwise /\ pc = "loop" => i <= reachedK + 1

\* A search: the interval saved + 1 .. ub holds the first bad state of a run.
Searching ==
  /\ depth = i /\ MaySearch(opts)
  /\ saved \in Int /\ saved >= -1
  /\ ub \in saved + 1..i
  /\ Len(stack) >= 2
  /\ stack[1].clauses = {}
  /\ stack[1].never \subseteq 0..saved
  /\ Witnessed(ub)
  /\ CoversAll => Total /\ ~opts.negInit /\ Clear(sys, saved)

Blocks == IF ub < i THEN 1 ELSE 0

\* The binary search: bin_search_frames_ frames on top of the first query.
FramesCounted ==
  /\ binFrames \in Nat
  /\ Len(stack) = 2 + Blocks + binFrames
  /\ stack[2].clauses = {saved + 1..i}
  /\ opts.search # "lessinc"

BinarySearch ==
  /\ opts.search = "binary"
  /\ FramesCounted
  /\ low \in Int /\ high \in Int /\ low >= saved + 1
  /\ \A t \in saved + 1..low - 1 : \E f \in 1..Len(stack) : t \in stack[f].never

LinearSearch ==
  /\ opts.search # "lessinc"
  /\ opts.cegar => opts.search = "linear"
  /\ binFrames = Wrapped
  /\ Len(stack) = 2
  /\ low \in saved + 1..ub
  /\ CoversAll => Clear(sys, low - 1)

LessIncSearch ==
  /\ opts.search = "lessinc"
  /\ binFrames = 0
  /\ low \in Int /\ high \in Int
  /\ saved + 1 <= low /\ low <= high /\ high <= ub
  /\ Witnessed(high)
  /\ \/ Len(stack) = 2
     \/ Len(stack) = 3 /\ stack[2] = [clauses |-> {saved + 1..i}, never |-> {}]
  /\ CoversAll => Clear(sys, low - 1)

\* What was answered.
Counterexamples ==
  /\ path \in Paths(sys, depth)
  /\ path[0] \in sys.init
  /\ \E n \in 0..depth : 
       /\ path[n] \in sys.bad
       /\ CoversAll /\ opts.search # "binary" /\ ~opts.allowNonMinimal => Clear(sys, n - 1)
  /\ opts.cegar => binFrames = 0 \/ Stale

BmcInv ==
  /\ BmcTypes
  /\ pc \in {"idle", "loop"} => BetweenBounds
  /\ pc \in {"binary", "fallback", "linear", "lessinc"} => Searching
  /\ pc = "binary" => BinarySearch
  /\ pc = "fallback" => FramesCounted \/ Stale
  /\ pc = "linear" => LinearSearch
  /\ pc = "lessinc" => LessIncSearch
  /\ pc = "done" => Counterexamples

-----------------------------------------------------------------------------
(* The solver's frames.                                                    *)

LEMMA Pushed ==
  ASSUME NEW stk \in Seq(Frame), NEW clauses \in SUBSET SUBSET Int, NEW never \in SUBSET Int
  PROVE  /\ PushFrame(stk, clauses, never) \in Seq(Frame)
         /\ Len(PushFrame(stk, clauses, never)) = Len(stk) + 1
         /\ \A f \in 1..Len(stk) : PushFrame(stk, clauses, never)[f] = stk[f]
         /\ PushFrame(stk, clauses, never)[Len(stk) + 1] = [clauses |-> clauses, never |-> never]
<1> DEFINE fr == [clauses |-> clauses, never |-> never]
<1>1. fr \in Frame
  BY DEF Frame
<1>2. PushFrame(stk, clauses, never) = Append(stk, fr)
  BY DEF PushFrame
<1> HIDE DEF fr
<1> QED
  BY <1>1, <1>2, AppendProperties DEF fr

LEMMA Popped ==
  ASSUME NEW stk \in Seq(Frame), NEW n \in Nat, n < Len(stk)
  PROVE  /\ PopFrames(stk, n) \in Seq(Frame)
         /\ Len(PopFrames(stk, n)) = Len(stk) - n
         /\ \A f \in 1..Len(stk) - n : PopFrames(stk, n)[f] = stk[f]
<1> DEFINE m == Len(stk) - n
<1>1. m \in 1..Len(stk) /\ 1 \in 1..Len(stk) /\ m \in Nat /\ m >= 1
  BY LenProperties
<1>2. /\ SubSeq(stk, 1, m) \in Seq(Frame)
      /\ Len(SubSeq(stk, 1, m)) = m - 1 + 1
      /\ \A f \in 1..(m - 1 + 1) : SubSeq(stk, 1, m)[f] = stk[1 + f - 1]
  BY <1>1, SubSeqProperties
<1> QED
  BY <1>1, <1>2 DEF PopFrames

LEMMA Blocked ==
  ASSUME NEW stk \in Seq(Frame), Len(stk) >= 1, NEW times \in SUBSET Int
  PROVE  /\ Block(stk, times) \in Seq(Frame)
         /\ Len(Block(stk, times)) = Len(stk)
         /\ \A f \in 1..Len(stk) : f # Len(stk) => Block(stk, times)[f] = stk[f]
         /\ Block(stk, times)[Len(stk)] =
              [clauses |-> stk[Len(stk)].clauses, never |-> stk[Len(stk)].never \cup times]
<1> DEFINE n  == Len(stk)
           fr == [clauses |-> stk[n].clauses, never |-> stk[n].never \cup times]
<1>1. n \in 1..n /\ n \in 1..Len(stk) /\ stk[n] \in Frame
  BY LenProperties
<1>2. fr \in Frame
  BY <1>1 DEF Frame
<1>3. Block(stk, times) = [stk EXCEPT ![n] = fr]
  BY DEF Block
<1> HIDE DEF fr, n
<1>4. /\ [stk EXCEPT ![n] = fr] \in Seq(Frame)
      /\ Len([stk EXCEPT ![n] = fr]) = Len(stk)
      /\ \A f \in 1..Len(stk) : [stk EXCEPT ![n] = fr][f] = IF f = n THEN fr ELSE stk[f]
  BY <1>1, <1>2, ExceptSeq
<1>5. n = Len(stk) /\ fr = [clauses |-> stk[n].clauses, never |-> stk[n].never \cup times]
  BY DEF fr, n
<1>6. /\ Block(stk, times) \in Seq(Frame)
      /\ Len(Block(stk, times)) = Len(stk)
      /\ \A f \in 1..Len(stk) : f # n => Block(stk, times)[f] = stk[f]
      /\ Block(stk, times)[n] = fr
  BY <1>1, <1>3, <1>4
<1> QED
  BY <1>5, <1>6

-----------------------------------------------------------------------------
(* Runs and the models of a query.                                         *)

\* bmc_interval_get_cex_ub returns the first bad time from lb on.
LEMMA FirstBadLeast ==
  ASSUME NEW n \in Nat, NEW p \in Paths(sys, n), NEW lb \in Int,
         NEW u \in 0..n, u >= lb, p[u] \in sys.bad
  PROVE  /\ FirstBad(p, lb) \in 0..n
         /\ FirstBad(p, lb) >= lb
         /\ p[FirstBad(p, lb)] \in sys.bad
         /\ \A t \in 0..n : t >= lb /\ p[t] \in sys.bad => FirstBad(p, lb) <= t
<1> DEFINE T == { t \in 0..n : t >= lb /\ p[t] \in sys.bad }
<1>1. DOMAIN p = 0..n
  BY DEF Paths
<1>2. PICK x \in T : \A y \in T : x <= y
  <2>1. T \subseteq Nat /\ T # {}
    OBVIOUS
  <2> HIDE DEF T
  <2> QED
    BY <2>1, LeastNat
<1>3. \E t \in DOMAIN p :
        /\ t >= lb /\ p[t] \in sys.bad
        /\ \A v \in DOMAIN p : v >= lb /\ p[v] \in sys.bad => t <= v
  BY <1>1, <1>2
<1> DEFINE F == FirstBad(p, lb)
<1>4. /\ F \in DOMAIN p
      /\ F >= lb /\ p[F] \in sys.bad
      /\ \A v \in DOMAIN p : v >= lb /\ p[v] \in sys.bad => F <= v
  BY <1>3 DEF FirstBad
<1> QED
  BY <1>1, <1>4

\* Where every state has a successor, a counterexample can be run on.
LEMMA CexRunsOn ==
  ASSUME NEW k \in Nat, NEW n \in Nat, k <= n, NEW p \in Cexs(sys, k), Total \/ k = n
  PROVE  \E q \in Paths(sys, n) : \A t \in 0..k : q[t] = p[t]
<1>1. p \in Paths(sys, k) /\ p \in [0..k -> States] /\ k \in 0..k
  BY DEF Cexs, Paths
<1>2. CASE k = n
  BY <1>1, <1>2
<1>3. CASE Total
  <2> DEFINE m == n - k
  <2>1. m \in Nat /\ k + m = n /\ p[k] \in States
    BY <1>1
  <2> HIDE DEF m
  <2>2. PICK r \in Paths(sys, m) : r[0] = p[k]
    BY <1>3, <2>1, PathOfAnyLength DEF Total
  <2>3. /\ Joint(p, k, r, m) \in Paths(sys, k + m)
        /\ \A t \in 0..k : Joint(p, k, r, m)[t] = p[t]
    BY <1>1, <2>1, <2>2, JoinPaths
  <2> QED
    BY <2>1, <2>3
<1> QED
  BY <1>2, <1>3

\* A query with no model clears the bounds that all its clauses ask for, when
\* bad is blocked at cleared bounds only and runs can be extended.
LEMMA NoneMissed ==
  ASSUME NEW n \in Nat, NEW c \in Int, NEW d \in Int, c >= -1, d <= n,
         Clear(sys, c),
         (Total /\ ~opts.negInit) \/ (d = n /\ c + 1 = n),
         NEW stk, Models(stk, n) = {},
         \A f \in 1..Len(stk) :
           /\ \A times \in stk[f].clauses : c + 1..d \subseteq times
           /\ stk[f].never \subseteq 0..c
  PROVE  Clear(sys, d)
<1> SUFFICES ASSUME NEW m \in Nat, m <= d, Cexs(sys, m) # {}
             PROVE  FALSE
  BY DEF Clear
<1>1. PICK k \in Nat : k <= m /\ Shortest(sys, k)
  BY ShortestExists
<1>2. PICK p \in Cexs(sys, k) : TRUE
  BY <1>1 DEF Shortest
<1>3. k > c /\ k <= n /\ k \in c + 1..d /\ (Total \/ k = n)
  BY <1>1, <1>2 DEF Clear
<1>4. PICK q \in Paths(sys, n) : \A t \in 0..k : q[t] = p[t]
  BY <1>1, <1>2, <1>3, CexRunsOn
<1>5. p[0] \in sys.init /\ p[k] \in sys.bad /\ 0 \in 0..k /\ k \in 0..k
  BY <1>1, <1>2 DEF Cexs
<1>6. /\ \A t \in 0..k : t < k => p[t] \notin sys.bad
      /\ \A t \in 1..k : p[t] \notin sys.init
  BY <1>1, <1>2, ShortestEnds
<1>7. q[0] \in sys.init /\ q[k] \in sys.bad
  BY <1>4, <1>5
<1>8. opts.negInit => \A t \in 1..n : q[t] \notin sys.init
  <2> SUFFICES ASSUME opts.negInit, NEW t \in 1..n
               PROVE  q[t] \notin sys.init
    OBVIOUS
  <2>1. k = n
    BY <1>3
  <2>2. t \in 0..k /\ t \in 1..k
    BY <2>1
  <2> QED
    BY <1>4, <1>6, <2>2
<1>9. ASSUME NEW f \in 1..Len(stk), NEW t \in stk[f].never
      PROVE  q[t] \notin sys.bad
  <2>1. t \in 0..c
    BY <1>9
  <2>2. t \in 0..k /\ t < k
    BY <1>1, <1>3, <2>1
  <2> QED
    BY <1>4, <1>6, <2>2
<1>10. \A f \in 1..Len(stk) : \A times \in stk[f].clauses : k \in times
  BY <1>3
<1>11. q \in Models(stk, n)
  BY <1>4, <1>7, <1>8, <1>9, <1>10 DEF Models
<1> QED
  BY <1>11

\* What a model of a query that keeps the base level is.
LEMMA ModelIsAllowed ==
  ASSUME NEW stk, stk[1] = stack[1], 1 \in 1..Len(stk), NEW p \in Models(stk, depth)
  PROVE  p \in Paths(sys, depth) /\ Allowed(p)
BY DEF Models, Allowed

\* The run a search was started for stays a run.
LEMMA WitnessStays ==
  ASSUME UNCHANGED <<sys, opts, depth>>, stack'[1] = stack[1], NEW n, Witnessed(n)
  PROVE  Witnessed(n)'
BY DEF Witnessed, Allowed

-----------------------------------------------------------------------------
(* The loop over the bounds.                                               *)

\* A CEGAR loop does not use the binary search: reset_env leaves the count of
\* its frames behind.
NoBinaryCegar ==
  \A o \in Options : o.cegar /\ MaySearch(o) => o.search # "binary"

LEMMA OptionFacts ==
  ASSUME BmcTypes
  PROVE  /\ opts.start \in Nat /\ opts.step \in Nat
         /\ opts.search \in {"binary", "lessinc", "linear"}
         /\ opts.negBad \in {"none", "last", "all"}
         /\ NextBound \in Nat
         /\ Stepwise => NextBound = i + 1
<1>1. opts \in OptionType /\ i \in Nat
  BY BmcOptionsAssumption DEF BmcTypes
<1>2. /\ opts.start \in Nat /\ opts.step \in Nat
      /\ opts.search \in {"binary", "lessinc", "linear"}
      /\ opts.negBad \in {"none", "last", "all"}
  BY <1>1 DEF OptionType
<1> QED
  BY <1>1, <1>2 DEF NextBound, Stepwise, OneByOne

LEMMA CoversStays ==
  ASSUME UNCHANGED <<sys, opts>>
  PROVE  (CoversAll' <=> CoversAll) /\ (Total' <=> Total) /\ (Stepwise' <=> Stepwise)
BY DEF CoversAll, Total, Stepwise, OneByOne

LEMMA BmcInitOk ==
  ASSUME Init
  PROVE  BmcInv
<1> USE DEF Init
<1>1. BaseFrame \in Frame
  BY DEF BaseFrame, Frame
<1>2. /\ stack \in Seq(Frame) /\ Len(stack) = 1 /\ stack[1] = BaseFrame
  BY <1>1
<1>3. BmcTypes
  BY <1>2 DEF BmcTypes
<1>4. BetweenBounds
  <2>1. Clear(sys, reachedK)
    BY ClearNone
  <2> QED
    BY <1>2, <2>1 DEF BetweenBounds, BaseFrame
<1> QED
  BY <1>3, <1>4 DEF BmcInv

LEMMA CheckUntilOk ==
  ASSUME BmcInv, NEW k \in Bounds, CheckUntil(k)
  PROVE  BmcInv'
<1> USE DEF CheckUntil
<1>1. BmcTypes /\ BetweenBounds
  BY DEF BmcInv
<1>2. BmcTypes'
  BY <1>1, OptionFacts, BmcBoundsAssumption DEF BmcTypes
<1>3. BetweenBounds'
  <2>1. Stepwise' => i' <= reachedK' + 1
    BY <1>1 DEF Stepwise, OneByOne, BmcTypes
  <2> QED
    BY <1>1, <2>1, CoversStays DEF BetweenBounds, Stale
<1> QED
  BY <1>2, <1>3 DEF BmcInv

LEMMA LoopExitOk ==
  ASSUME BmcInv, LoopExit
  PROVE  BmcInv'
<1> USE DEF LoopExit
<1>1. BmcTypes /\ BetweenBounds
  BY DEF BmcInv
<1>2. BmcTypes'
  BY <1>1 DEF BmcTypes
<1>3. BetweenBounds'
  BY <1>1, CoversStays DEF BetweenBounds, Stale
<1> QED
  BY <1>2, <1>3 DEF BmcInv

LEMMA StepCoveredOk ==
  ASSUME BmcInv, StepCovered
  PROVE  BmcInv'
<1> USE DEF StepCovered
<1>1. BmcTypes /\ BetweenBounds
  BY DEF BmcInv
<1>2. BmcTypes'
  BY <1>1, OptionFacts DEF BmcTypes
<1>3. BetweenBounds'
  <2>1. Stepwise => i' <= reachedK + 1
    BY <1>1, OptionFacts DEF BmcTypes
  <2> QED
    BY <1>1, <2>1, CoversStays DEF BetweenBounds, Stale
<1> QED
  BY <1>2, <1>3 DEF BmcInv

\* What a bound's query holds.
LEMMA QueryFrames ==
  ASSUME BmcTypes, BetweenBounds, pc = "loop", i > reachedK
  PROVE  /\ Query \in Seq(Frame) /\ Len(Query) = 2
         /\ Query[1] = stack[1]
         /\ Query[2] = [clauses |-> {Tested}, never |-> {}]
         /\ Tested \subseteq reachedK + 1..i
         /\ ~opts.singleBad => Tested = reachedK + 1..i
         /\ Stepwise => i = reachedK + 1 /\ Tested = {i}
         /\ Tested \subseteq 0..i
<1>1. i \in Nat /\ reachedK \in Int /\ reachedK >= -1 /\ stack \in Seq(Frame) /\ Len(stack) = 1
  BY DEF BmcTypes, BetweenBounds
<1>2. /\ Tested \subseteq reachedK + 1..i
      /\ ~opts.singleBad => Tested = reachedK + 1..i
      /\ Tested \subseteq 0..i
  BY <1>1 DEF Tested
<1>3. Stepwise => i = reachedK + 1 /\ Tested = {i}
  BY <1>1 DEF Tested, BetweenBounds
<1>4. Tested \subseteq Int
  BY <1>1, <1>2
<1>5. {Tested} \in SUBSET SUBSET Int /\ {} \in SUBSET Int /\ 1 \in 1..Len(stack)
  BY <1>1, <1>4
<1>6. /\ Query \in Seq(Frame) /\ Len(Query) = Len(stack) + 1
      /\ \A f \in 1..Len(stack) : Query[f] = stack[f]
      /\ Query[Len(stack) + 1] = [clauses |-> {Tested}, never |-> {}]
  BY <1>1, <1>5, Pushed DEF Query
<1> QED
  BY <1>1, <1>2, <1>3, <1>5, <1>6

LEMMA StepUnsatOk ==
  ASSUME BmcInv, StepUnsat
  PROVE  BmcInv'
<1>0. /\ pc = "loop" /\ i <= bound /\ i > reachedK
      /\ Models(Query, i) = {}
      /\ stack' = Block(stack, { t \in reachedK + 1..i :
                                  \/ opts.negBad = "all"
                                  \/ opts.negBad = "last" /\ t = i })
      /\ depth' = i /\ reachedK' = i /\ i' = NextBound
      /\ UNCHANGED <<sys, opts, bound, pc, binFrames, path, result>>
  BY DEF StepUnsat, NewBound
<1>1. BmcTypes /\ BetweenBounds
  BY <1>0 DEF BmcInv
<1>2. i \in Nat /\ reachedK \in Int /\ reachedK >= -1 /\ stack \in Seq(Frame) /\ Len(stack) = 1
  BY <1>1 DEF BmcTypes, BetweenBounds
<1>3. PICK times \in SUBSET (0..i) : stack' = Block(stack, times)
  <2>1. \A times \in SUBSET (reachedK + 1..i) : times \in SUBSET (0..i)
    BY <1>2
  <2> QED
    BY <1>0, <2>1
<1>4. /\ stack' \in Seq(Frame) /\ Len(stack') = 1
      /\ stack'[1].clauses = stack[1].clauses
      /\ stack'[1].never = stack[1].never \cup times
  <2>1. times \in SUBSET Int /\ Len(stack) >= 1
    BY <1>2
  <2>2. /\ Block(stack, times) \in Seq(Frame)
        /\ Len(Block(stack, times)) = Len(stack)
        /\ Block(stack, times)[Len(stack)] =
             [clauses |-> stack[Len(stack)].clauses, never |-> stack[Len(stack)].never \cup times]
    BY <1>2, <2>1, Blocked
  <2> QED
    BY <1>2, <1>3, <2>2
<1>5. BmcTypes'
  BY <1>0, <1>1, <1>2, <1>4, OptionFacts DEF BmcTypes
<1>6. stack'[1].never \subseteq 0..i
  <2>1. stack[1].never \subseteq 0..reachedK
    BY <1>1 DEF BetweenBounds
  <2>2. 0..reachedK \subseteq 0..i
    BY <1>0, <1>2
  <2> QED
    BY <1>3, <1>4, <2>1, <2>2
<1>7. ASSUME CoversAll
      PROVE  Clear(sys, i)
  <2>1. (Total /\ ~opts.negInit) \/ (i = i /\ reachedK + 1 = i)
    BY <1>0, <1>1, <1>7, QueryFrames DEF CoversAll, Stepwise, OneByOne
  <2>2. \A f \in 1..Len(Query) :
          /\ \A times_1 \in Query[f].clauses : reachedK + 1..i \subseteq times_1
          /\ Query[f].never \subseteq 0..reachedK
    <3>1. reachedK + 1..i \subseteq Tested
      BY <1>0, <1>1, <1>2, <1>7, QueryFrames DEF CoversAll, Stepwise, OneByOne
    <3>2. \A f \in 1..Len(Query) : f = 1 \/ f = 2
      <4>1. Len(Query) = 2
        BY <1>0, <1>1, QueryFrames
      <4> QED
        BY <4>1
    <3>3. stack[1].clauses = {} /\ stack[1].never \subseteq 0..reachedK
      BY <1>1 DEF BetweenBounds
    <3> QED
      BY <1>0, <1>1, <3>1, <3>2, <3>3, QueryFrames
  <2>3. Clear(sys, reachedK) /\ i <= i
    BY <1>1, <1>2, <1>7 DEF BetweenBounds
  <2>4. i \in Int
    BY <1>2
  <2> QED
    BY <1>2, <2>1, <2>2, <2>3, <2>4, <1>0, NoneMissed
<1>8. BetweenBounds'
  <2>1. Stepwise => i' <= reachedK' + 1
    BY <1>0, <1>1, <1>2, OptionFacts
  <2> QED
    BY <1>0, <1>1, <1>4, <1>6, <1>7, <2>1, CoversStays DEF BetweenBounds, Stale
<1> QED
  BY <1>0, <1>5, <1>8 DEF BmcInv

LEMMA StepSatOk ==
  ASSUME BmcInv, StepSat
  PROVE  BmcInv'
<1>0. /\ pc = "loop" /\ i <= bound /\ i > reachedK
      /\ path' \in Models(Query, i) /\ NoSearch(path')
      /\ stack' = Query
      /\ depth' = i /\ reachedK' = i - 1 /\ pc' = "done" /\ result' = "FALSE"
      /\ UNCHANGED <<sys, opts, bound, i, binFrames>>
  BY DEF StepSat, NewBound, ReturnFalse
<1>1. BmcTypes /\ BetweenBounds
  BY <1>0 DEF BmcInv
<1>2. i \in Nat /\ reachedK \in Int /\ reachedK >= -1
  BY <1>1 DEF BmcTypes
<1>3. BmcTypes'
  <2>1. Query \in Seq(Frame)
    BY <1>0, <1>1, QueryFrames
  <2> QED
    BY <1>0, <1>1, <1>2, <2>1 DEF BmcTypes
<1>4. path' \in Paths(sys, i) /\ path'[0] \in sys.init
  BY <1>0 DEF Models
<1>5. PICK t \in Tested : path'[t] \in sys.bad
  <2>1. Len(Query) = 2 /\ Query[2] = [clauses |-> {Tested}, never |-> {}]
    BY <1>0, <1>1, QueryFrames
  <2>2. 2 \in 1..Len(Query) /\ Tested \in Query[2].clauses
    BY <2>1
  <2> QED
    BY <1>0, <2>2 DEF Models
<1>6. t \in 0..i /\ t \in reachedK + 1..i
  BY <1>0, <1>1, <1>5, QueryFrames
<1>7. \E n \in 0..i :
        /\ path'[n] \in sys.bad
        /\ CoversAll /\ opts.search # "binary" /\ ~opts.allowNonMinimal => Clear(sys, n - 1)
  <2>1. CASE CoversAll /\ ~opts.allowNonMinimal /\ ~opts.singleBad
    <3>1. FirstBad(path', reachedK + 1) = reachedK + 1
      BY <1>0, <2>1 DEF NoSearch
    <3>2. reachedK + 1 \in Int /\ t >= reachedK + 1
      BY <1>2, <1>6
    <3>3. /\ FirstBad(path', reachedK + 1) \in 0..i
          /\ path'[FirstBad(path', reachedK + 1)] \in sys.bad
      BY <1>2, <1>4, <1>5, <1>6, <3>2, FirstBadLeast
    <3>4. Clear(sys, reachedK) /\ (reachedK + 1) - 1 = reachedK
      BY <1>1, <1>2, <2>1 DEF BetweenBounds
    <3> QED
      BY <3>1, <3>3, <3>4
  <2>2. CASE CoversAll /\ opts.singleBad
    <3>1. Stepwise
      BY <2>2 DEF CoversAll, Stepwise, OneByOne
    <3>2. i = reachedK + 1 /\ t = i /\ Clear(sys, reachedK)
      BY <1>0, <1>1, <1>5, <2>2, <3>1, QueryFrames DEF BetweenBounds
    <3>3. t - 1 = reachedK
      BY <1>2, <3>2
    <3> QED
      BY <1>5, <1>6, <3>2, <3>3
  <2>3. CASE ~CoversAll \/ opts.allowNonMinimal
    BY <1>5, <1>6, <2>3
  <2> QED
    BY <2>1, <2>2, <2>3
<1>8. Counterexamples'
  <2>1. opts.cegar => binFrames = 0 \/ Stale
    BY <1>1 DEF BetweenBounds
  <2> QED
    BY <1>0, <1>4, <1>7, <2>1, CoversStays DEF Counterexamples, Stale
<1> QED
  BY <1>0, <1>3, <1>8 DEF BmcInv

LEMMA StartSearchOk ==
  ASSUME BmcInv, StartSearch
  PROVE  BmcInv'
<1>0. /\ pc = "loop" /\ i <= bound /\ i > reachedK
      /\ path' \in Models(Query, i) /\ ~NoSearch(path')
      /\ ub' = FirstBad(path', reachedK + 1)
      /\ stack' = IF ub' < i THEN PushFrame(Query, {}, ub' + 1..i) ELSE Query
      /\ depth' = i /\ low' = reachedK + 1 /\ high' = ub' /\ saved' = reachedK
      /\ pc' = IF opts.search = "linear" THEN "fallback" ELSE opts.search
      /\ UNCHANGED <<sys, opts, reachedK, bound, i, binFrames, result>>
  BY DEF StartSearch, NewBound
<1>1. BmcTypes /\ BetweenBounds
  BY <1>0 DEF BmcInv
<1>2. i \in Nat /\ reachedK \in Int /\ reachedK >= -1 /\ opts.search \in {"binary", "lessinc", "linear"}
  BY <1>1, OptionFacts DEF BmcTypes
<1>3. /\ Query \in Seq(Frame) /\ Len(Query) = 2
      /\ Query[1] = stack[1]
      /\ Query[2] = [clauses |-> {reachedK + 1..i}, never |-> {}]
      /\ Tested = reachedK + 1..i
      /\ ~opts.singleBad
      /\ Stepwise => i = reachedK + 1
  <2>1. ~opts.singleBad
    BY <1>0 DEF NoSearch
  <2> QED
    BY <1>0, <1>1, <2>1, QueryFrames
<1>4. path' \in Paths(sys, i) /\ path'[0] \in sys.init
  BY <1>0 DEF Models
<1>5. PICK t \in Tested : path'[t] \in sys.bad
  <2>2. 2 \in 1..Len(Query) /\ Tested \in Query[2].clauses
    BY <1>3
  <2> QED
    BY <1>0, <2>2 DEF Models
<1>6. /\ ub' \in 0..i /\ ub' >= reachedK + 1 /\ path'[ub'] \in sys.bad
      /\ ub' # reachedK + 1
  <2>1. t \in 0..i /\ t >= reachedK + 1 /\ reachedK + 1 \in Int
    BY <1>2, <1>3, <1>5
  <2>2. /\ FirstBad(path', reachedK + 1) \in 0..i
        /\ FirstBad(path', reachedK + 1) >= reachedK + 1
        /\ path'[FirstBad(path', reachedK + 1)] \in sys.bad
    BY <1>2, <1>4, <1>5, <2>1, FirstBadLeast
  <2> QED
    BY <1>0, <2>2 DEF NoSearch
<1>7. /\ stack' \in Seq(Frame) /\ Len(stack') = 2 + Blocks'
      /\ stack'[1] = stack[1]
      /\ stack'[2] = [clauses |-> {reachedK + 1..i}, never |-> {}]
  <2>1. CASE ub' < i
    <3> DEFINE times == ub' + 1..i
    <3>1. times \in SUBSET Int /\ {} \in SUBSET SUBSET Int
      BY <1>2, <1>6
    <3>2. stack' = PushFrame(Query, {}, times) /\ Blocks' = 1
      BY <1>0, <2>1 DEF Blocks
    <3> HIDE DEF times
    <3>3. /\ PushFrame(Query, {}, times) \in Seq(Frame)
          /\ Len(PushFrame(Query, {}, times)) = Len(Query) + 1
          /\ \A f \in 1..Len(Query) : PushFrame(Query, {}, times)[f] = Query[f]
      BY <1>3, <3>1, Pushed
    <3>4. 1 \in 1..Len(Query) /\ 2 \in 1..Len(Query) /\ Len(Query) = 2
      BY <1>3
    <3> QED
      BY <1>3, <3>2, <3>3, <3>4
  <2>2. CASE ~ (ub' < i)
    BY <1>0, <1>3, <2>2 DEF Blocks
  <2> QED
    BY <2>1, <2>2
<1>8. BmcTypes'
  BY <1>0, <1>1, <1>2, <1>7 DEF BmcTypes
<1>9. Witnessed(ub)'
  <2>1. 1 \in 1..Len(Query)
    BY <1>3
  <2>2. \A n \in Query[1].never : path'[n] \notin sys.bad
    BY <1>0, <2>1 DEF Models
  <2>3. opts.negInit => \A n \in 1..i : path'[n] \notin sys.init
    BY <1>0 DEF Models
  <2>4. Allowed(path)'
    BY <1>0, <1>3, <1>4, <1>7, <2>2, <2>3 DEF Allowed
  <2> QED
    BY <1>0, <1>4, <1>6, <2>4 DEF Witnessed
<1>10. CoversAll => Total /\ ~opts.negInit /\ Clear(sys, reachedK)
  <2>1. ~Stepwise
    BY <1>2, <1>3, <1>6
  <2> QED
    BY <1>1, <2>1 DEF CoversAll, Stepwise, OneByOne, BetweenBounds
<1>11. Searching'
  <2>0. MaySearch(opts)
    <3>1. ~opts.allowNonMinimal
      BY <1>0 DEF NoSearch
    <3>2. ~Stepwise
      BY <1>2, <1>3, <1>6
    <3> QED
      BY <1>3, <3>1, <3>2 DEF MaySearch, Stepwise
  <2>1. ub' \in reachedK + 1..i /\ Blocks' \in Nat
    BY <1>2, <1>6 DEF Blocks
  <2>2. Len(stack') >= 2
    <3>1. \A b \in Nat : 2 + b >= 2
      OBVIOUS
    <3> QED
      BY <1>7, <2>1, <3>1
  <2>3. stack'[1].clauses = {} /\ stack'[1].never \subseteq 0..reachedK
    BY <1>1, <1>7 DEF BetweenBounds
  <2>4. CoversAll' => Total' /\ ~opts'.negInit /\ Clear(sys', saved')
    BY <1>0, <1>10, CoversStays
  <2>5. Witnessed(ub)'
    BY <1>9
  <2> QED
    BY <1>0, <1>2, <2>0, <2>1, <2>2, <2>3, <2>4, <2>5 DEF Searching
<1>12. ASSUME opts.search # "lessinc", binFrames = 0
       PROVE  FramesCounted'
  <2>1. Len(stack') = 2 + Blocks' + 0
    BY <1>7 DEF Blocks
  <2> QED
    BY <1>0, <1>7, <1>12, <2>1 DEF FramesCounted
<1>13. CASE opts.search = "linear"
  <2>1. pc' = "fallback"
    BY <1>0, <1>13
  <2>2. FramesCounted' \/ Stale'
    BY <1>0, <1>1, <1>12, <1>13 DEF BetweenBounds, Stale
  <2> QED
    BY <1>8, <1>11, <2>1, <2>2 DEF BmcInv
<1>14. CASE opts.search = "binary"
  <2>1. pc' = "binary" /\ binFrames = 0
    BY <1>0, <1>1, <1>14 DEF BetweenBounds, Stale
  <2>2. FramesCounted'
    BY <1>12, <1>14, <2>1
  <2>3. \A n \in saved' + 1..low' - 1 : \E f \in 1..Len(stack') : n \in stack'[f].never
    BY <1>0, <1>2
  <2>4. BinarySearch'
    BY <1>0, <1>2, <1>6, <1>14, <2>2, <2>3 DEF BinarySearch
  <2> QED
    BY <1>8, <1>11, <2>1, <2>4 DEF BmcInv
<1>15. CASE opts.search = "lessinc"
  <2>1. pc' = "lessinc" /\ binFrames = 0
    BY <1>0, <1>1, <1>15 DEF BetweenBounds, Stale
  <2>2. Witnessed(high)'
    BY <1>0, <1>9 DEF Witnessed
  <2>3. Len(stack') = 2 \/ Len(stack') = 3
    BY <1>7 DEF Blocks
  <2>4. CoversAll' => Clear(sys', low' - 1)
    BY <1>0, <1>2, <1>10, CoversStays
  <2>5. LessIncSearch'
    BY <1>0, <1>2, <1>6, <1>7, <1>15, <2>1, <2>2, <2>3, <2>4 DEF LessIncSearch
  <2> QED
    BY <1>8, <1>11, <2>1, <2>5 DEF BmcInv
<1> QED
  BY <1>2, <1>13, <1>14, <1>15

-----------------------------------------------------------------------------
(* The searches.                                                           *)

LEMMA SearchKept ==
  ASSUME Searching, UNCHANGED <<sys, opts, depth, i, ub, saved>>,
         stack'[1] = stack[1], Len(stack') >= 2
  PROVE  Searching'
<1>1. Witnessed(ub)'
  BY WitnessStays DEF Searching, Witnessed
<1> QED
  BY <1>1, CoversStays DEF Searching

\* The run a search was started for satisfies every query that asks for its bad
\* time.
LEMMA WitnessIsModel ==
  ASSUME NEW n, Witnessed(n), NEW stk, stk[1] = stack[1], stack[1].clauses = {},
         \A f \in 1..Len(stk) :
           f # 1 => stk[f].never = {} /\ \A times \in stk[f].clauses : n \in times
  PROVE  Models(stk, depth) # {}
<1>1. PICK p \in Paths(sys, depth) : Allowed(p) /\ p[n] \in sys.bad
  BY DEF Witnessed
<1>2. p \in Models(stk, depth)
  BY <1>1 DEF Models, Allowed
<1> QED
  BY <1>2

LEMMA BinaryQueryFrames ==
  ASSUME BmcTypes, Searching, BinarySearch
  PROVE  /\ mid \in Int
         /\ BinaryQuery \in Seq(Frame) /\ Len(BinaryQuery) = Len(stack) + 1
         /\ \A f \in 1..Len(stack) : BinaryQuery[f] = stack[f]
<1>1. mid \in Int
  BY DEF mid, BinarySearch
<1>2. mid + 1..high \in SUBSET Int /\ {} \in SUBSET SUBSET Int
  BY <1>1 DEF BinarySearch
<1>3. stack \in Seq(Frame)
  BY DEF BmcTypes
<1> QED
  BY <1>1, <1>2, <1>3, Pushed DEF BinaryQuery

\* The first clause is still there, and what was blocked since is below low.
LEMMA BinaryModel ==
  ASSUME BmcTypes, Searching, BinarySearch, NEW p \in Models(BinaryQuery, depth)
  PROVE  /\ p \in Paths(sys, depth) /\ p[0] \in sys.init
         /\ \E t \in 0..depth : t >= low /\ p[t] \in sys.bad
<1>1. /\ Len(stack) \in Nat /\ Len(stack) >= 2 /\ stack[2].clauses = {saved + 1..i}
      /\ saved \in Int /\ saved >= -1 /\ depth = i /\ i \in Nat /\ low \in Int
  BY LenProperties DEF BmcTypes, Searching, BinarySearch, FramesCounted
<1>2. /\ Len(BinaryQuery) = Len(stack) + 1
      /\ \A f \in 1..Len(stack) : BinaryQuery[f] = stack[f]
  BY BinaryQueryFrames
<1>3. 2 \in 1..Len(stack) /\ \A f \in 1..Len(stack) : f \in 1..Len(BinaryQuery)
  BY <1>1, <1>2
<1>4. saved + 1..i \in BinaryQuery[2].clauses /\ 2 \in 1..Len(BinaryQuery)
  BY <1>1, <1>2, <1>3
<1>5. PICK t \in saved + 1..i : p[t] \in sys.bad
  BY <1>4 DEF Models
<1>6. ASSUME t < low
      PROVE  FALSE
  <2>1. t \in saved + 1..low - 1
    BY <1>1, <1>5, <1>6
  <2>2. PICK f \in 1..Len(stack) : t \in stack[f].never
    BY <2>1 DEF BinarySearch
  <2>3. f \in 1..Len(BinaryQuery) /\ t \in BinaryQuery[f].never
    BY <1>2, <1>3, <2>2
  <2> QED
    BY <1>5, <2>3 DEF Models
<1>7. t \in 0..depth /\ t >= low
  BY <1>1, <1>5, <1>6
<1> QED
  BY <1>5, <1>7 DEF Models

LEMMA BinaryFoundOk ==
  ASSUME NoBinaryCegar, BmcInv, BinaryFound
  PROVE  BmcInv'
<1>0. /\ pc = "binary" /\ path' \in Models(BinaryQuery, depth) /\ stack' = BinaryQuery
      /\ pc' = "done" /\ result' = "FALSE"
      /\ UNCHANGED <<sys, opts, depth, reachedK, bound, i, ub, saved>>
  BY DEF BinaryFound, ReturnFalse, searchVars
<1>1. BmcTypes /\ Searching /\ BinarySearch
  BY <1>0 DEF BmcInv
<1>2. opts.search = "binary" /\ ~opts.cegar
  BY <1>1 DEF BinarySearch, NoBinaryCegar, BmcTypes, Searching
<1>3. BmcTypes'
  BY <1>0, <1>1, BinaryQueryFrames DEF BmcTypes
<1>4. /\ path' \in Paths(sys, depth) /\ path'[0] \in sys.init
      /\ \E t \in 0..depth : path'[t] \in sys.bad
  BY <1>0, <1>1, BinaryModel
<1>5. Counterexamples'
  BY <1>0, <1>2, <1>4 DEF Counterexamples
<1> QED
  BY <1>0, <1>3, <1>5 DEF BmcInv

LEMMA BinaryLowerOk ==
  ASSUME BmcInv, BinaryLower
  PROVE  BmcInv'
<1>0. /\ pc = "binary" /\ path' \in Models(BinaryQuery, depth)
      /\ high' = FirstBad(path', low)
      /\ stack' = Block(BinaryQuery, high' + 1..mid)
      /\ binFrames' = binFrames + 1
      /\ UNCHANGED <<sys, opts, depth, reachedK, bound, i, pc, low, ub, saved, result>>
  BY DEF BinaryLower
<1>1. BmcTypes /\ Searching /\ BinarySearch
  BY <1>0 DEF BmcInv
<1>2. /\ path' \in Paths(sys, depth)
      /\ \E t \in 0..depth : t >= low /\ path'[t] \in sys.bad
  BY <1>0, <1>1, BinaryModel
<1>3. high' \in Int
  <2>1. depth \in Nat /\ low \in Int
    BY <1>1 DEF BmcTypes, BinarySearch
  <2>2. FirstBad(path', low) \in 0..depth
    BY <1>2, <2>1, FirstBadLeast
  <2> QED
    BY <1>0, <2>1, <2>2
<1>4. /\ BinaryQuery \in Seq(Frame) /\ Len(BinaryQuery) = Len(stack) + 1
      /\ \A f \in 1..Len(stack) : BinaryQuery[f] = stack[f]
      /\ mid \in Int
  BY <1>1, BinaryQueryFrames
<1>5. Len(stack) \in Nat /\ Len(stack) >= 2 /\ stack[2].clauses = {saved + 1..i}
  BY <1>1, LenProperties DEF BmcTypes, Searching, BinarySearch, FramesCounted
<1>6. /\ stack' \in Seq(Frame) /\ Len(stack') = Len(stack) + 1
      /\ \A f \in 1..Len(stack) : stack'[f] = stack[f]
  <2> DEFINE times == high' + 1..mid
  <2>1. times \in SUBSET Int /\ stack' = Block(BinaryQuery, times)
    BY <1>0, <1>3, <1>4
  <2> HIDE DEF times
  <2>2. Len(BinaryQuery) >= 1
    BY <1>4, <1>5
  <2>3. /\ Block(BinaryQuery, times) \in Seq(Frame)
        /\ Len(Block(BinaryQuery, times)) = Len(BinaryQuery)
        /\ \A f \in 1..Len(BinaryQuery) :
             f # Len(BinaryQuery) => Block(BinaryQuery, times)[f] = BinaryQuery[f]
    BY <1>4, <2>1, <2>2, Blocked
  <2>4. \A f \in 1..Len(stack) : f \in 1..Len(BinaryQuery) /\ f # Len(BinaryQuery)
    BY <1>4, <1>5
  <2> QED
    BY <1>4, <2>1, <2>3, <2>4
<1>7. 1 \in 1..Len(stack) /\ 2 \in 1..Len(stack) /\ Len(stack') >= 2
  BY <1>5, <1>6
<1>8. BmcTypes'
  BY <1>0, <1>1, <1>6 DEF BmcTypes
<1>9. Searching'
  BY <1>0, <1>1, <1>6, <1>7, SearchKept
<1>10. FramesCounted'
  <2>1. binFrames \in Nat /\ Len(stack) = 2 + Blocks + binFrames /\ opts.search # "lessinc"
    BY <1>1 DEF BinarySearch, FramesCounted
  <2>2. Blocks' = Blocks /\ Blocks \in Nat
    BY <1>0 DEF Blocks
  <2>3. Len(stack') = 2 + Blocks + (binFrames + 1) /\ binFrames + 1 \in Nat
    BY <1>6, <2>1, <2>2
  <2> QED
    BY <1>0, <1>5, <1>6, <1>7, <2>1, <2>2, <2>3 DEF FramesCounted
<1>11. \A t \in saved + 1..low - 1 : \E f \in 1..Len(stack') : t \in stack'[f].never
  <2>1. \A f \in 1..Len(stack) : f \in 1..Len(stack') /\ stack'[f] = stack[f]
    BY <1>5, <1>6
  <2> QED
    BY <1>1, <2>1 DEF BinarySearch
<1>12. BinarySearch'
  BY <1>0, <1>1, <1>3, <1>10, <1>11 DEF BinarySearch
<1> QED
  BY <1>0, <1>1, <1>8, <1>9, <1>12 DEF BmcInv

LEMMA BinaryUpperOk ==
  ASSUME BmcInv, BinaryUpper
  PROVE  BmcInv'
<1>0. /\ pc = "binary" /\ low < high
      /\ stack' = Block(stack, low..mid)
      /\ reachedK' = mid /\ low' = mid + 1
      /\ UNCHANGED <<sys, opts, depth, bound, i, pc, high, ub, saved, binFrames, path, result>>
  BY DEF BinaryUpper
<1>1. BmcTypes /\ Searching /\ BinarySearch
  BY <1>0 DEF BmcInv
<1>2. /\ low \in Int /\ high \in Int /\ saved \in Int /\ saved >= -1 /\ low >= saved + 1
      /\ stack \in Seq(Frame) /\ Len(stack) \in Nat /\ Len(stack) >= 2
      /\ stack[2].clauses = {saved + 1..i}
  BY <1>1, LenProperties DEF BmcTypes, Searching, BinarySearch, FramesCounted
<1>3. mid \in Int /\ mid >= low
  <2>1. high - low \in Nat
    BY <1>0, <1>2
  <2>2. (high - low) \div 2 \in Nat
    BY <2>1
  <2> QED
    BY <1>2, <2>2 DEF mid
<1>4. /\ stack' \in Seq(Frame) /\ Len(stack') = Len(stack)
      /\ \A f \in 1..Len(stack) : f # Len(stack) => stack'[f] = stack[f]
      /\ stack'[Len(stack)] = [clauses |-> stack[Len(stack)].clauses,
                               never |-> stack[Len(stack)].never \cup low..mid]
  <2> DEFINE times == low..mid
  <2>1. times \in SUBSET Int /\ Len(stack) >= 1 /\ stack' = Block(stack, times)
    BY <1>0, <1>2, <1>3
  <2> HIDE DEF times
  <2>2. /\ Block(stack, times) \in Seq(Frame)
        /\ Len(Block(stack, times)) = Len(stack)
        /\ \A f \in 1..Len(stack) : f # Len(stack) => Block(stack, times)[f] = stack[f]
        /\ Block(stack, times)[Len(stack)] =
             [clauses |-> stack[Len(stack)].clauses, never |-> stack[Len(stack)].never \cup times]
    BY <1>2, <2>1, Blocked
  <2> QED
    BY <2>1, <2>2 DEF times
<1>5. /\ stack'[1] = stack[1] /\ Len(stack') >= 2
      /\ stack'[2].clauses = stack[2].clauses
      /\ \A f \in 1..Len(stack) : \A t \in stack[f].never : t \in stack'[f].never
      /\ \A t \in low..mid : t \in stack'[Len(stack)].never
      /\ Len(stack) \in 1..Len(stack')
  BY <1>2, <1>4
<1>6. BmcTypes'
  <2>1. reachedK' \in Int /\ reachedK' >= -1
    BY <1>0, <1>2, <1>3
  <2> QED
    BY <1>0, <1>1, <1>4, <2>1 DEF BmcTypes
<1>7. Searching'
  BY <1>0, <1>1, <1>5, SearchKept
<1>8. FramesCounted'
  BY <1>0, <1>1, <1>4, <1>5 DEF FramesCounted, BinarySearch, Blocks
<1>9. ASSUME NEW t \in saved + 1..low' - 1
      PROVE  \E f \in 1..Len(stack') : t \in stack'[f].never
  <2>1. CASE t < low
    <3>1. t \in saved + 1..low - 1
      BY <1>2, <1>9, <2>1
    <3>2. PICK f \in 1..Len(stack) : t \in stack[f].never
      BY <1>1, <3>1 DEF BinarySearch
    <3> QED
      BY <1>4, <1>5, <3>2
  <2>2. CASE ~ (t < low)
    <3>1. t \in low..mid
      BY <1>0, <1>2, <1>3, <1>9, <2>2
    <3> QED
      BY <1>5, <3>1
  <2> QED
    BY <2>1, <2>2
<1>10. BinarySearch'
  <2>1. low' \in Int /\ high' \in Int /\ low' >= saved' + 1
    BY <1>0, <1>2, <1>3
  <2>2. \A t \in saved' + 1..low' - 1 : \E f \in 1..Len(stack') : t \in stack'[f].never
    BY <1>0, <1>9
  <2> QED
    BY <1>0, <1>1, <1>8, <2>1, <2>2 DEF BinarySearch
<1> QED
  BY <1>0, <1>6, <1>7, <1>10 DEF BmcInv

LEMMA BinaryOverconstrainedOk ==
  ASSUME BmcInv, BinaryOverconstrained
  PROVE  BmcInv'
<1>0. /\ pc = "binary" /\ stack' = BinaryQuery
      /\ binFrames' = binFrames + 1 /\ pc' = "fallback"
      /\ UNCHANGED <<sys, opts, depth, reachedK, bound, i, low, high, ub, saved, path, result>>
  BY DEF BinaryOverconstrained, searchVars
<1>1. BmcTypes /\ Searching /\ BinarySearch
  BY <1>0 DEF BmcInv
<1>2. /\ BinaryQuery \in Seq(Frame) /\ Len(BinaryQuery) = Len(stack) + 1
      /\ \A f \in 1..Len(stack) : BinaryQuery[f] = stack[f]
  BY <1>1, BinaryQueryFrames
<1>3. Len(stack) \in Nat /\ Len(stack) >= 2 /\ stack[2].clauses = {saved + 1..i}
  BY <1>1, LenProperties DEF BmcTypes, Searching, BinarySearch, FramesCounted
<1>4. 1 \in 1..Len(stack) /\ 2 \in 1..Len(stack) /\ Len(BinaryQuery) >= 2
  BY <1>2, <1>3
<1>5. BmcTypes'
  BY <1>0, <1>1, <1>2 DEF BmcTypes
<1>6. Searching'
  <2>1. stack'[1] = stack[1] /\ Len(stack') >= 2
    BY <1>0, <1>2, <1>4
  <2> QED
    BY <1>0, <1>1, <2>1, SearchKept
<1>7. FramesCounted'
  <2>1. binFrames \in Nat /\ Len(stack) = 2 + Blocks + binFrames /\ opts.search # "lessinc"
    BY <1>1 DEF BinarySearch, FramesCounted
  <2>2. Blocks' = Blocks /\ Blocks \in Nat
    BY <1>0 DEF Blocks
  <2>3. Len(BinaryQuery) = 2 + Blocks + (binFrames + 1) /\ binFrames + 1 \in Nat
    BY <1>2, <2>1, <2>2
  <2> QED
    BY <1>0, <1>2, <1>3, <1>4, <2>1, <2>2, <2>3 DEF FramesCounted
<1> QED
  BY <1>0, <1>5, <1>6, <1>7 DEF BmcInv

\* The pops of the linear search match the pushes, unless bin_search_frames_ is
\* a leftover of an earlier run of the engine.
LEMMA FallbackOk ==
  ASSUME NoBinaryCegar, BmcInv, Fallback
  PROVE  BmcInv'
<1> DEFINE enough == binFrames # Wrapped /\ Blocks + binFrames < Len(stack)
<1>0. /\ pc = "fallback" /\ reachedK' = saved /\ low' = saved + 1 /\ binFrames' = Wrapped
      /\ stack' = IF enough THEN PopFrames(stack, Blocks + binFrames) ELSE <<BaseFrame>>
      /\ pc' = IF enough THEN "linear" ELSE "error"
      /\ UNCHANGED <<sys, opts, depth, bound, i, high, ub, saved, path, result>>
  BY DEF Fallback, Blocks
<1>1. BmcTypes /\ Searching /\ (FramesCounted \/ Stale)
  BY <1>0 DEF BmcInv
<1>2. /\ stack \in Seq(Frame) /\ Len(stack) \in Nat /\ Len(stack) >= 2
      /\ saved \in Int /\ saved >= -1 /\ ub \in saved + 1..i
  BY <1>1, LenProperties DEF BmcTypes, Searching
<1>3. CASE FramesCounted
  <2> DEFINE n == Blocks + binFrames
  <2>1. /\ binFrames \in Nat /\ Len(stack) = 2 + Blocks + binFrames /\ opts.search # "lessinc"
        /\ Blocks \in Nat
    BY <1>3 DEF FramesCounted, Blocks
  <2>2. n \in Nat /\ n < Len(stack) /\ Len(stack) - n = 2 /\ binFrames # Wrapped
    BY <2>1 DEF Wrapped
  <2>3. pc' = "linear" /\ stack' = PopFrames(stack, n)
    BY <1>0, <2>2
  <2> HIDE DEF n, enough
  <2>4. /\ PopFrames(stack, n) \in Seq(Frame)
        /\ Len(PopFrames(stack, n)) = Len(stack) - n
        /\ \A f \in 1..Len(stack) - n : PopFrames(stack, n)[f] = stack[f]
    BY <1>2, <2>2, Popped
  <2>5. stack' \in Seq(Frame) /\ Len(stack') = 2 /\ stack'[1] = stack[1]
    <3>1. 1 \in 1..2
      OBVIOUS
    <3> QED
      BY <2>2, <2>3, <2>4, <3>1
  <2>6. BmcTypes'
    BY <1>0, <1>1, <1>2, <2>3, <2>5 DEF BmcTypes
  <2>7. Searching'
    <3>1. Len(stack') >= 2
      BY <2>5
    <3> QED
      BY <1>0, <1>1, <2>5, <3>1, SearchKept
  <2>8. opts.cegar => opts.search = "linear"
    <3>1. opts.search \in {"binary", "lessinc", "linear"} /\ opts \in Options
      BY <1>1, OptionFacts DEF BmcTypes
    <3> QED
      BY <1>1, <2>1, <3>1 DEF NoBinaryCegar, Searching
  <2>9. LinearSearch'
    <3>1. low' \in saved + 1..ub /\ low' - 1 = saved
      BY <1>0, <1>2
    <3>2. CoversAll' => Clear(sys', low' - 1)
      BY <1>0, <1>1, <3>1, CoversStays DEF Searching
    <3> QED
      BY <1>0, <2>1, <2>5, <2>8, <3>1, <3>2 DEF LinearSearch
  <2> QED
    BY <2>3, <2>6, <2>7, <2>9 DEF BmcInv
<1>4. CASE Stale
  <2>1. pc' = "error" /\ stack' = <<BaseFrame>>
    BY <1>0, <1>4 DEF Stale
  <2>2. stack' \in Seq(Frame)
    BY <2>1 DEF BaseFrame, Frame
  <2>3. BmcTypes'
    BY <1>0, <1>1, <1>2, <1>4, <2>1, <2>2 DEF BmcTypes, Stale, Searching
  <2> QED
    BY <2>1, <2>3 DEF BmcInv
<1> QED
  BY <1>1, <1>3, <1>4

LEMMA LinearQueryFrames ==
  ASSUME BmcTypes, Searching, LinearSearch
  PROVE  /\ LinearQuery \in Seq(Frame) /\ Len(LinearQuery) = 2
         /\ LinearQuery[1] = stack[1]
         /\ LinearQuery[2] = [clauses |-> {{low}}, never |-> {}]
<1> DEFINE rest == PopFrames(stack, 1)
<1>1. stack \in Seq(Frame) /\ Len(stack) = 2 /\ low \in Int
  BY DEF BmcTypes, Searching, LinearSearch
<1>2. rest \in Seq(Frame) /\ Len(rest) = 1 /\ rest[1] = stack[1]
  <2>1. 1 \in Nat /\ 1 < Len(stack) /\ Len(stack) - 1 = 1 /\ 1 \in 1..Len(stack) - 1
    BY <1>1
  <2> QED
    BY <1>1, <2>1, Popped
<1> HIDE DEF rest
<1>3. {{low}} \in SUBSET SUBSET Int /\ {} \in SUBSET Int
  BY <1>1
<1>4. /\ PushFrame(rest, {{low}}, {}) \in Seq(Frame)
      /\ Len(PushFrame(rest, {{low}}, {})) = Len(rest) + 1
      /\ \A f \in 1..Len(rest) : PushFrame(rest, {{low}}, {})[f] = rest[f]
      /\ PushFrame(rest, {{low}}, {})[Len(rest) + 1] = [clauses |-> {{low}}, never |-> {}]
  BY <1>2, <1>3, Pushed
<1>5. LinearQuery = PushFrame(rest, {{low}}, {})
  BY DEF LinearQuery, rest
<1>6. 1 \in 1..Len(rest) /\ Len(rest) + 1 = 2
  BY <1>2
<1> QED
  BY <1>2, <1>4, <1>5, <1>6

LEMMA LinearFoundOk ==
  ASSUME BmcInv, LinearFound
  PROVE  BmcInv'
<1>0. /\ pc = "linear" /\ path' \in Models(LinearQuery, depth) /\ stack' = LinearQuery
      /\ pc' = "done" /\ result' = "FALSE"
      /\ UNCHANGED <<sys, opts, depth, reachedK, bound, i, binFrames>>
  BY DEF LinearFound, ReturnFalse
<1>1. BmcTypes /\ Searching /\ LinearSearch
  BY <1>0 DEF BmcInv
<1>2. /\ LinearQuery \in Seq(Frame) /\ Len(LinearQuery) = 2
      /\ LinearQuery[2] = [clauses |-> {{low}}, never |-> {}]
  BY <1>1, LinearQueryFrames
<1>3. BmcTypes'
  BY <1>0, <1>1, <1>2 DEF BmcTypes
<1>4. path' \in Paths(sys, depth) /\ path'[0] \in sys.init /\ path'[low] \in sys.bad
  <2>1. 2 \in 1..Len(LinearQuery) /\ {low} \in LinearQuery[2].clauses
    BY <1>2
  <2> QED
    BY <1>0, <2>1 DEF Models
<1>5. low \in 0..depth
  BY <1>1 DEF BmcTypes, Searching, LinearSearch
<1>6. CoversAll => Clear(sys, low - 1)
  BY <1>1 DEF LinearSearch
<1>7. opts.cegar => Stale
  BY <1>1 DEF LinearSearch, Stale
<1>8. Counterexamples'
  BY <1>0, <1>4, <1>5, <1>6, <1>7, CoversStays DEF Counterexamples, Stale
<1> QED
  BY <1>0, <1>3, <1>8 DEF BmcInv

LEMMA LinearNextOk ==
  ASSUME BmcInv, LinearNext
  PROVE  BmcInv'
<1>0. /\ pc = "linear" /\ Models(LinearQuery, depth) = {} /\ stack' = LinearQuery
      /\ reachedK' = low /\ low' = low + 1
      /\ pc' = IF low < ub THEN "linear" ELSE "error"
      /\ UNCHANGED <<sys, opts, depth, bound, i, high, ub, saved, binFrames, path, result>>
  BY DEF LinearNext
<1>1. BmcTypes /\ Searching /\ LinearSearch
  BY <1>0 DEF BmcInv
<1>2. /\ LinearQuery \in Seq(Frame) /\ Len(LinearQuery) = 2
      /\ LinearQuery[1] = stack[1]
      /\ LinearQuery[2] = [clauses |-> {{low}}, never |-> {}]
  BY <1>1, LinearQueryFrames
<1>3. /\ low \in Int /\ low \in saved + 1..ub /\ saved \in Int /\ saved >= -1
      /\ ub \in Int /\ ub <= i /\ i \in Nat /\ depth = i
  BY <1>1 DEF BmcTypes, Searching, LinearSearch
<1>4. \A f \in 1..Len(LinearQuery) : f = 1 \/ f = 2
  BY <1>2
<1>5. stack[1].clauses = {} /\ stack[1].never \subseteq 0..saved
  BY <1>1 DEF Searching
<1>6. low # ub
  <2> SUFFICES ASSUME low = ub
               PROVE  FALSE
    OBVIOUS
  <2>1. \A f \in 1..Len(LinearQuery) :
          f # 1 => /\ LinearQuery[f].never = {}
                   /\ \A times \in LinearQuery[f].clauses : ub \in times
    BY <1>2, <1>4
  <2>2. Witnessed(ub)
    BY <1>1 DEF Searching
  <2>3. Models(LinearQuery, depth) # {}
    BY <1>2, <1>5, <2>1, <2>2, WitnessIsModel
  <2> QED
    BY <1>0, <2>3
<1>7. pc' = "linear" /\ low' \in saved + 1..ub /\ low' - 1 = low
  BY <1>0, <1>3, <1>6
<1>8. ASSUME CoversAll
      PROVE  Clear(sys, low)
  <2>1. Total /\ ~opts.negInit
    BY <1>1, <1>8 DEF Searching
  <2>2. Clear(sys, low - 1) /\ low - 1 \in Int /\ low - 1 >= -1 /\ low <= depth /\ depth \in Nat
    BY <1>1, <1>3, <1>8 DEF LinearSearch
  <2>3. ASSUME NEW f \in 1..Len(LinearQuery)
        PROVE  /\ \A times \in LinearQuery[f].clauses : low - 1 + 1..low \subseteq times
               /\ LinearQuery[f].never \subseteq 0..low - 1
    <3>1. low - 1 + 1..low = {low} /\ 0..saved \subseteq 0..low - 1
      BY <1>3
    <3> QED
      BY <1>2, <1>4, <1>5, <3>1
  <2> QED
    BY <1>0, <1>3, <2>1, <2>2, <2>3, NoneMissed
<1>9. BmcTypes'
  <2>1. reachedK' \in Int /\ reachedK' >= -1
    BY <1>0, <1>3
  <2> QED
    BY <1>0, <1>1, <1>2, <1>7, <2>1 DEF BmcTypes
<1>10. Searching'
  <2>1. stack'[1] = stack[1] /\ Len(stack') >= 2
    BY <1>0, <1>2
  <2> QED
    BY <1>0, <1>1, <2>1, SearchKept
<1>11. LinearSearch'
  <2>1. CoversAll' => Clear(sys', low' - 1)
    BY <1>0, <1>7, <1>8, CoversStays
  <2> QED
    BY <1>0, <1>1, <1>2, <1>7, <2>1 DEF LinearSearch
<1> QED
  BY <1>7, <1>9, <1>10, <1>11 DEF BmcInv

LEMMA LessIncQueryFrames ==
  ASSUME BmcTypes, Searching, LessIncSearch
  PROVE  /\ mid \in Int /\ low <= mid /\ mid <= high /\ (low < high => mid < high)
         /\ LessIncQuery \in Seq(Frame)
         /\ Len(LessIncQuery) \in {2, 3}
         /\ LessIncQuery[1] = stack[1]
         /\ \/ Len(LessIncQuery) = 2
            \/ LessIncQuery[2] = [clauses |-> {saved + 1..i}, never |-> {}]
         /\ LessIncQuery[Len(LessIncQuery)] = [clauses |-> {low..mid}, never |-> {}]
         /\ low..mid \subseteq saved + 1..i
<1> DEFINE rest == PopFrames(stack, 1)
           times == low..mid
<1>1. /\ stack \in Seq(Frame) /\ low \in Int /\ high \in Int /\ low <= high
      /\ saved \in Int /\ saved + 1 <= low /\ high <= ub /\ ub \in Int /\ ub <= i /\ i \in Nat
      /\ \/ Len(stack) = 2
         \/ Len(stack) = 3 /\ stack[2] = [clauses |-> {saved + 1..i}, never |-> {}]
  BY DEF BmcTypes, Searching, LessIncSearch
<1>2. mid \in Int /\ low <= mid /\ mid <= high /\ (low < high => mid < high)
  BY <1>1 DEF mid
<1>3. low..mid \subseteq saved + 1..i /\ low..mid \subseteq Int
  BY <1>1, <1>2
<1>4. /\ rest \in Seq(Frame) /\ Len(rest) = Len(stack) - 1
      /\ \A f \in 1..Len(stack) - 1 : rest[f] = stack[f]
  <2>1. 1 \in Nat /\ 1 < Len(stack)
    BY <1>1
  <2> QED
    BY <1>1, <2>1, Popped
<1> HIDE DEF rest
<1>5. {times} \in SUBSET SUBSET Int /\ {} \in SUBSET Int
  BY <1>3
<1>6. times = low..mid
  OBVIOUS
<1> HIDE DEF times
<1>7. /\ PushFrame(rest, {times}, {}) \in Seq(Frame)
      /\ Len(PushFrame(rest, {times}, {})) = Len(rest) + 1
      /\ \A f \in 1..Len(rest) : PushFrame(rest, {times}, {})[f] = rest[f]
      /\ PushFrame(rest, {times}, {})[Len(rest) + 1] = [clauses |-> {times}, never |-> {}]
  BY <1>4, <1>5, Pushed
<1>8. LessIncQuery = PushFrame(rest, {times}, {})
  BY <1>6 DEF LessIncQuery, rest
<1>9. CASE Len(stack) = 2
  <2>1. Len(rest) = 1 /\ 1 \in 1..Len(rest) /\ 1 \in 1..Len(stack) - 1 /\ Len(rest) + 1 = 2
    BY <1>4, <1>9
  <2> QED
    BY <1>2, <1>3, <1>4, <1>6, <1>7, <1>8, <2>1
<1>10. CASE Len(stack) = 3 /\ stack[2] = [clauses |-> {saved + 1..i}, never |-> {}]
  <2>1. /\ Len(rest) = 2 /\ 1 \in 1..Len(rest) /\ 1 \in 1..Len(stack) - 1
        /\ 2 \in 1..Len(rest) /\ 2 \in 1..Len(stack) - 1 /\ Len(rest) + 1 = 3
    BY <1>4, <1>10
  <2> QED
    BY <1>2, <1>3, <1>4, <1>6, <1>7, <1>8, <1>10, <2>1
<1> QED
  BY <1>1, <1>9, <1>10

\* A model of the query has a bad state in low .. mid.
LEMMA LessIncModel ==
  ASSUME BmcTypes, Searching, LessIncSearch, NEW p \in Models(LessIncQuery, depth)
  PROVE  /\ p \in Paths(sys, depth) /\ p[0] \in sys.init /\ Allowed(p)
         /\ \E t \in low..mid : t \in 0..depth /\ p[t] \in sys.bad
<1> DEFINE last == Len(LessIncQuery)
<1>1. /\ last \in {2, 3} /\ LessIncQuery[1] = stack[1]
      /\ LessIncQuery[last] = [clauses |-> {low..mid}, never |-> {}]
      /\ low..mid \subseteq saved + 1..i
  BY LessIncQueryFrames
<1>2. last \in 1..Len(LessIncQuery) /\ 1 \in 1..Len(LessIncQuery) /\ low..mid \in LessIncQuery[last].clauses
  BY <1>1
<1>3. PICK t \in low..mid : p[t] \in sys.bad
  BY <1>2 DEF Models
<1>4. t \in 0..depth
  BY <1>1, <1>3 DEF BmcTypes, Searching
<1> QED
  BY <1>1, <1>2, <1>3, <1>4, ModelIsAllowed DEF Models

LEMMA LessIncFoundOk ==
  ASSUME BmcInv, LessIncFound
  PROVE  BmcInv'
<1>0. /\ pc = "lessinc" /\ low = mid
      /\ path' \in Models(LessIncQuery, depth) /\ stack' = LessIncQuery
      /\ pc' = "done" /\ result' = "FALSE"
      /\ UNCHANGED <<sys, opts, depth, reachedK, bound, i, binFrames>>
  BY DEF LessIncFound, ReturnFalse
<1>1. BmcTypes /\ Searching /\ LessIncSearch
  BY <1>0 DEF BmcInv
<1>2. BmcTypes'
  BY <1>0, <1>1, LessIncQueryFrames DEF BmcTypes
<1>3. PICK t \in low..mid : t \in 0..depth /\ path'[t] \in sys.bad
  BY <1>0, <1>1, LessIncModel
<1>4. t = low
  <2>1. low \in Int
    BY <1>1 DEF LessIncSearch
  <2> QED
    BY <1>0, <1>3, <2>1
<1>5. path' \in Paths(sys, depth) /\ path'[0] \in sys.init
  BY <1>0, <1>1, LessIncModel
<1>6. (CoversAll => Clear(sys, t - 1)) /\ binFrames = 0
  BY <1>1, <1>4 DEF LessIncSearch
<1>7. Counterexamples'
  BY <1>0, <1>3, <1>5, <1>6, CoversStays DEF Counterexamples
<1> QED
  BY <1>0, <1>2, <1>7 DEF BmcInv

LEMMA LessIncLowerOk ==
  ASSUME BmcInv, LessIncLower
  PROVE  BmcInv'
<1>0. /\ pc = "lessinc"
      /\ path' \in Models(LessIncQuery, depth) /\ stack' = LessIncQuery
      /\ high' = FirstBad(path', low)
      /\ UNCHANGED <<sys, opts, depth, reachedK, bound, i, pc, low, ub, saved, binFrames, result>>
  BY DEF LessIncLower
<1>1. BmcTypes /\ Searching /\ LessIncSearch
  BY <1>0 DEF BmcInv
<1>2. /\ low \in Int /\ saved + 1 <= low /\ high \in Int /\ high <= ub /\ saved \in Int
      /\ ub \in Int /\ depth \in Nat
  BY <1>1 DEF LessIncSearch, Searching, BmcTypes
<1>3. mid \in Int /\ mid <= high
  BY <1>1, LessIncQueryFrames
<1>4. path' \in Paths(sys, depth) /\ Allowed(path)'
  <2>1. path' \in Paths(sys, depth) /\ Allowed(path')
    BY <1>0, <1>1, LessIncModel
  <2>2. stack'[1] = stack[1]
    BY <1>0, <1>1, LessIncQueryFrames
  <2> QED
    BY <1>0, <2>1, <2>2 DEF Allowed
<1>5. PICK t \in low..mid : t \in 0..depth /\ path'[t] \in sys.bad
  BY <1>0, <1>1, LessIncModel
<1>6. /\ high' \in 0..depth /\ high' >= low /\ path'[high'] \in sys.bad
      /\ high' <= t
  <2>1. t >= low
    BY <1>2, <1>5
  <2>2. /\ FirstBad(path', low) \in 0..depth
        /\ FirstBad(path', low) >= low
        /\ path'[FirstBad(path', low)] \in sys.bad
        /\ \A u \in 0..depth : u >= low /\ path'[u] \in sys.bad => FirstBad(path', low) <= u
    BY <1>2, <1>4, <1>5, <2>1, FirstBadLeast
  <2> QED
    BY <1>0, <1>5, <2>1, <2>2
<1>7. high' \in Int /\ low <= high' /\ high' <= ub
  BY <1>2, <1>3, <1>5, <1>6
<1>8. Witnessed(high)'
  BY <1>0, <1>4, <1>6 DEF Witnessed
<1>9. /\ stack' \in Seq(Frame) /\ Len(stack') \in {2, 3} /\ stack'[1] = stack[1]
      /\ Len(stack') = 2 \/ stack'[2] = [clauses |-> {saved + 1..i}, never |-> {}]
  BY <1>0, <1>1, LessIncQueryFrames
<1>10. BmcTypes'
  BY <1>0, <1>1, <1>9 DEF BmcTypes
<1>11. Searching'
  <2>1. Len(stack') >= 2
    BY <1>9
  <2> QED
    BY <1>0, <1>1, <1>9, <2>1, SearchKept
<1>12. LessIncSearch'
  BY <1>0, <1>1, <1>2, <1>7, <1>8, <1>9, CoversStays DEF LessIncSearch
<1> QED
  BY <1>0, <1>10, <1>11, <1>12 DEF BmcInv

LEMMA LessIncUpperOk ==
  ASSUME BmcInv, LessIncUpper
  PROVE  BmcInv'
<1>0. /\ pc = "lessinc" /\ Models(LessIncQuery, depth) = {} /\ stack' = LessIncQuery
      /\ reachedK' = mid /\ low' = mid + 1
      /\ UNCHANGED <<sys, opts, depth, bound, i, pc, high, ub, saved, binFrames, path, result>>
  BY DEF LessIncUpper
<1>1. BmcTypes /\ Searching /\ LessIncSearch
  BY <1>0 DEF BmcInv
<1>2. /\ low \in Int /\ saved + 1 <= low /\ high \in Int /\ low <= high /\ high <= ub
      /\ saved \in Int /\ saved >= -1 /\ ub \in Int /\ ub <= depth /\ depth \in Nat
      /\ Witnessed(high)
  BY <1>1 DEF LessIncSearch, Searching, BmcTypes
<1>3. /\ mid \in Int /\ low <= mid /\ mid <= high /\ (low < high => mid < high)
      /\ LessIncQuery \in Seq(Frame) /\ Len(LessIncQuery) \in {2, 3}
      /\ LessIncQuery[1] = stack[1]
      /\ \/ Len(LessIncQuery) = 2
         \/ LessIncQuery[2] = [clauses |-> {saved + 1..i}, never |-> {}]
      /\ LessIncQuery[Len(LessIncQuery)] = [clauses |-> {low..mid}, never |-> {}]
      /\ low..mid \subseteq saved + 1..i
  BY <1>1, LessIncQueryFrames
<1>4. stack[1].clauses = {} /\ stack[1].never \subseteq 0..saved
  BY <1>1 DEF Searching
<1>5. ASSUME NEW f \in 1..Len(LessIncQuery), f # 1
      PROVE  /\ LessIncQuery[f].never = {}
             /\ \A times \in LessIncQuery[f].clauses : low..mid \subseteq times
  <2> DEFINE new  == low..mid
             all  == saved + 1..i
             last == Len(LessIncQuery)
             LQ   == LessIncQuery
  <2>1. /\ f = 2 \/ f = last
        /\ last = 2 \/ LQ[2] = [clauses |-> {all}, never |-> {}]
        /\ LQ[last] = [clauses |-> {new}, never |-> {}]
        /\ new \subseteq all
    BY <1>3, <1>5
  <2> HIDE DEF new, all, last, LQ
  <2>2. LQ[f].never = {} /\ \A times \in LQ[f].clauses : new \subseteq times
    BY <2>1
  <2> QED
    BY <2>2 DEF new, LQ
<1>6. low < high
  <2> SUFFICES ASSUME ~ (low < high)
               PROVE  FALSE
    OBVIOUS
  <2>1. high \in low..mid
    BY <1>2, <1>3
  <2>2. \A f \in 1..Len(LessIncQuery) :
          f # 1 => /\ LessIncQuery[f].never = {}
                   /\ \A times \in LessIncQuery[f].clauses : high \in times
    BY <1>5, <2>1
  <2>3. Models(LessIncQuery, depth) # {}
    BY <1>2, <1>3, <1>4, <2>2, WitnessIsModel
  <2> QED
    BY <1>0, <2>3
<1>7. low' \in Int /\ low' <= high /\ saved + 1 <= low' /\ low' - 1 = mid
  BY <1>0, <1>2, <1>3, <1>6
<1>8. ASSUME CoversAll
      PROVE  Clear(sys, mid)
  <2>1. Total /\ ~opts.negInit
    BY <1>1, <1>8 DEF Searching
  <2>2. Clear(sys, low - 1)
    BY <1>1, <1>8 DEF LessIncSearch
  <2>3. low - 1 \in Int /\ low - 1 >= -1 /\ mid <= depth /\ low - 1 + 1..mid = low..mid
    BY <1>2, <1>3
  <2>4. 0..saved \subseteq 0..low - 1
    BY <1>2
  <2>5. ASSUME NEW f \in 1..Len(LessIncQuery)
        PROVE  /\ \A times \in LessIncQuery[f].clauses : low - 1 + 1..mid \subseteq times
               /\ LessIncQuery[f].never \subseteq 0..low - 1
    BY <1>3, <1>4, <1>5, <2>3, <2>4
  <2> QED
    BY <1>0, <1>2, <1>3, <2>1, <2>2, <2>3, <2>5, NoneMissed
<1>9. BmcTypes'
  <2>1. reachedK' \in Int /\ reachedK' >= -1
    BY <1>0, <1>2, <1>3
  <2> QED
    BY <1>0, <1>1, <1>3, <2>1 DEF BmcTypes
<1>10. Searching'
  <2>1. stack'[1] = stack[1] /\ Len(stack') >= 2
    BY <1>0, <1>3
  <2> QED
    BY <1>0, <1>1, <2>1, SearchKept
<1>11. LessIncSearch'
  <2>1. Witnessed(high)'
    <3>1. stack'[1] = stack[1]
      BY <1>0, <1>3
    <3> QED
      BY <1>0, <1>2, <3>1, WitnessStays DEF Witnessed
  <2>2. CoversAll' => Clear(sys', low' - 1)
    BY <1>0, <1>7, <1>8, CoversStays
  <2>3. Len(stack') = 2 \/ (Len(stack') = 3 /\ stack'[2] = [clauses |-> {saved + 1..i}, never |-> {}])
    BY <1>0, <1>3
  <2> QED
    BY <1>0, <1>1, <1>2, <1>7, <2>1, <2>2, <2>3 DEF LessIncSearch
<1> QED
  BY <1>0, <1>9, <1>10, <1>11 DEF BmcInv

-----------------------------------------------------------------------------
(* The theorems.                                                           *)

LEMMA RefineOk ==
  ASSUME BmcInv, Refine
  PROVE  BmcInv'
<1>0. /\ pc = "done" /\ opts.cegar /\ sys' \in Systems
      /\ stack' = <<BaseFrame>> /\ depth' = 0 /\ reachedK' = -1
      /\ result' = "NONE" /\ pc' = "idle"
      /\ UNCHANGED <<opts, bound, i, binFrames>>
  BY DEF Refine
<1>1. BmcTypes /\ Counterexamples
  BY <1>0 DEF BmcInv
<1>2. stack' \in Seq(Frame) /\ Len(stack') = 1 /\ stack'[1] = BaseFrame
  BY <1>0 DEF BaseFrame, Frame
<1>3. BmcTypes'
  BY <1>0, <1>1, <1>2 DEF BmcTypes
<1>4. BetweenBounds'
  <2>1. Clear(sys', -1)
    BY ClearNone
  <2>2. binFrames' = 0 \/ Stale'
    BY <1>0, <1>1 DEF Counterexamples, Stale
  <2> QED
    BY <1>0, <1>2, <2>1, <2>2 DEF BetweenBounds, BaseFrame
<1> QED
  BY <1>0, <1>3, <1>4 DEF BmcInv

LEMMA BmcStutters ==
  ASSUME BmcInv, UNCHANGED vars
  PROVE  BmcInv'
<1>0. UNCHANGED <<sys, opts, stack, depth, reachedK, bound, i, pc, low, high, ub, saved,
                  binFrames, path, result>>
  BY DEF vars, searchVars
<1>1. BmcTypes'
  BY <1>0 DEF BmcInv, BmcTypes
<1>2. BetweenBounds => BetweenBounds'
  BY <1>0, CoversStays DEF BetweenBounds, Stale
<1>3. Searching => Searching'
  BY <1>0, SearchKept DEF Searching
<1>4. FramesCounted => FramesCounted'
  BY <1>0 DEF FramesCounted, Blocks
<1>5. BinarySearch => BinarySearch'
  BY <1>0, <1>4 DEF BinarySearch
<1>6. LinearSearch => LinearSearch'
  BY <1>0, CoversStays DEF LinearSearch
<1>7. LessIncSearch => LessIncSearch'
  <2>1. Witnessed(high) => Witnessed(high)'
    BY <1>0 DEF Witnessed, Allowed
  <2> QED
    BY <1>0, <2>1, CoversStays DEF LessIncSearch
<1>8. Counterexamples => Counterexamples'
  BY <1>0, CoversStays DEF Counterexamples, Stale
<1>9. Stale => Stale'
  BY <1>0 DEF Stale
<1> QED
  BY <1>0, <1>1, <1>2, <1>3, <1>4, <1>5, <1>6, <1>7, <1>8, <1>9 DEF BmcInv

\* The invariant of bounded model checking, for every system, call and option,
\* except a binary search inside a CEGAR loop.
THEOREM BmcInvariance ==
  ASSUME NoBinaryCegar
  PROVE  Spec => []BmcInv
<1>1. Init => BmcInv
  BY BmcInitOk
<1>2. BmcInv /\ [Next]_vars => BmcInv'
  <2> SUFFICES ASSUME BmcInv, [Next]_vars
               PROVE  BmcInv'
    OBVIOUS
  <2>1. CASE Step
    <3>1. CASE LoopExit \/ StepCovered \/ StepUnsat \/ StepSat \/ StartSearch
      BY <3>1, LoopExitOk, StepCoveredOk, StepUnsatOk, StepSatOk, StartSearchOk
    <3>2. CASE BinaryFound \/ BinaryLower \/ BinaryUpper \/ BinaryOverconstrained
      BY <3>2, BinaryFoundOk, BinaryLowerOk, BinaryUpperOk, BinaryOverconstrainedOk
    <3>3. CASE Fallback \/ LinearFound \/ LinearNext
      BY <3>3, FallbackOk, LinearFoundOk, LinearNextOk
    <3>4. CASE LessIncFound \/ LessIncLower \/ LessIncUpper
      BY <3>4, LessIncFoundOk, LessIncLowerOk, LessIncUpperOk
    <3> QED
      BY <2>1, <3>1, <3>2, <3>3, <3>4 DEF Step
  <2>2. CASE \E k \in Bounds : CheckUntil(k)
    BY <2>2, CheckUntilOk
  <2>3. CASE Refine
    BY <2>3, RefineOk
  <2>4. CASE UNCHANGED vars
    BY <2>4, BmcStutters
  <2> QED
    BY <2>1, <2>2, <2>3, <2>4 DEF Next
<1> QED
  BY <1>1, <1>2, PTL DEF Spec

\* Every search finds the counterexample it was started for: the frames pushed
\* and popped match and no query of the linear search is overconstrained.  In a
\* CEGAR loop only the less incremental search leaves bin_search_frames_ at 0.
THEOREM BmcSearchSucceeds ==
  ASSUME \A o \in Options : o.cegar /\ MaySearch(o) => o.search = "lessinc"
  PROVE  Spec => []SearchSucceeds
<1>1. NoBinaryCegar
  BY DEF NoBinaryCegar
<1>2. BmcInv => SearchSucceeds
  <2> SUFFICES ASSUME BmcInv, pc = "error"
               PROVE  FALSE
    BY DEF SearchSucceeds
  <2>1. opts.cegar /\ opts.search = "linear" /\ opts \in Options /\ MaySearch(opts)
    BY DEF BmcInv, BmcTypes
  <2> QED
    BY <2>1
<1> QED
  BY <1>1, <1>2, BmcInvariance, PTL

\* The linear and the less incremental search answer with a run whose first bad
\* state is as near to the initial states as a bad state can be.
THEOREM BmcFirstBadIsShortest ==
  ASSUME NoBinaryCegar
  PROVE  Spec => []FirstBadIsShortest
<1>1. BmcInv => FirstBadIsShortest
  <2> SUFFICES ASSUME BmcInv, result = "FALSE", CoversAll,
                      opts.search # "binary", ~opts.allowNonMinimal,
                      NEW n \in 0..depth, Counterexample(sys, n)
               PROVE  FirstBad(path, 0) <= n
    BY DEF FirstBadIsShortest
  <2>1. pc = "done" /\ depth \in Nat
    BY DEF BmcInv, BmcTypes
  <2>2. PICK m \in 0..depth : path[m] \in sys.bad /\ Clear(sys, m - 1)
    BY <2>1 DEF BmcInv, Counterexamples
  <2>3. m <= n
    <3>1. Cexs(sys, n) # {}
      BY DEF Counterexample, Cexs
    <3>2. ~ (n <= m - 1)
      BY <2>1, <2>2, <3>1 DEF Clear
    <3> QED
      BY <2>1, <2>2, <3>2
  <2>4. FirstBad(path, 0) \in 0..depth /\ FirstBad(path, 0) <= m
    <3>1. path \in Paths(sys, depth) /\ m >= 0 /\ 0 \in Int
      BY <2>1, <2>2 DEF BmcInv, Counterexamples
    <3> QED
      BY <2>1, <2>2, <3>1, FirstBadLeast
  <2> QED
    BY <2>1, <2>2, <2>3, <2>4
<1> QED
  BY <1>1, BmcInvariance, PTL

\* The answer FALSE is a counterexample, whichever search found it.
THEOREM BmcFalseIsReal ==
  ASSUME NoBinaryCegar
  PROVE  Spec => [](result = "FALSE" => \E n \in 0..depth : Counterexample(sys, n))
<1>1. BmcInv => (result = "FALSE" => \E n \in 0..depth : Counterexample(sys, n))
  <2> SUFFICES ASSUME BmcInv, result = "FALSE"
               PROVE  \E n \in 0..depth : Counterexample(sys, n)
    OBVIOUS
  <2>1. pc = "done" /\ depth \in Nat
    BY DEF BmcInv, BmcTypes
  <2>2. PICK n \in 0..depth : /\ path \in Paths(sys, depth) /\ path[0] \in sys.init
                              /\ path[n] \in sys.bad
    BY <2>1 DEF BmcInv, Counterexamples
  <2>3. n \in Nat /\ n <= depth /\ 0 \in 0..n /\ n \in 0..n
    BY <2>1, <2>2
  <2>4. /\ Cut(path, 0, n) \in Paths(sys, n)
        /\ \A k \in 0..n : Cut(path, 0, n)[k] = path[k]
    BY <2>1, <2>2, <2>3, PathPrefix
  <2> QED
    BY <2>2, <2>3, <2>4 DEF Counterexample
<1> QED
  BY <1>1, BmcInvariance, PTL

\* No counterexample is as short as the bounds reached_k_ says are done, when
\* every bound is tested or runs can be extended over an interval.
THEOREM BmcReachedIsClear ==
  ASSUME NoBinaryCegar
  PROVE  Spec => [](CoversAll /\ pc \in {"idle", "loop"} =>
                      \A n \in 0..reachedK : ~Counterexample(sys, n))
<1>1. BmcInv => (CoversAll /\ pc \in {"idle", "loop"} =>
                   \A n \in 0..reachedK : ~Counterexample(sys, n))
  <2> SUFFICES ASSUME BmcInv, CoversAll, pc \in {"idle", "loop"},
                      NEW n \in 0..reachedK, Counterexample(sys, n)
               PROVE  FALSE
    OBVIOUS
  <2>1. Clear(sys, reachedK) /\ reachedK \in Int
    BY DEF BmcInv, BetweenBounds, BmcTypes
  <2>2. Cexs(sys, n) # {} /\ n \in Nat /\ n <= reachedK
    BY <2>1 DEF Counterexample, Cexs
  <2> QED
    BY <2>1, <2>2 DEF Clear
<1> QED
  BY <1>1, BmcInvariance, PTL
-----------------------------------------------------------------------------
(* With its default intervals BMC keeps what a prover promises.            *)

Prover == INSTANCE SafetyProver

LEMMA ViolatedIsCex ==
  ASSUME NEW sy, sy.trans \subseteq States \X States, sy.init \in SUBSET States,
         NEW n \in Nat
  PROVE  Prover!Violated(sy, n) <=> Cexs(sy, n) # {}
<1>1. \A Y : Prover!Img(sy, Y) = ImgOf(sy, Y)
  BY DEF Prover!Img, ImgOf
<1>2. Prover!ReachedIn(sy, n) = AfterSteps(sy, n)
  BY <1>1 DEF Prover!ReachedIn, AfterSteps, Prover!Img, ImgOf
<1>3. Prover!ReachedIn(sy, n) = Ends(sy, sy.init, n)
  BY <1>2, AfterStepsEnds
<1>4. \A p \in Paths(sy, n) : p[n] \in States
  BY DEF Paths
<1> QED
  BY <1>3, <1>4 DEF Prover!Violated, Ends, Cexs

LEMMA NoCexIsClear ==
  ASSUME NEW sy, sy.trans \subseteq States \X States, sy.init \in SUBSET States,
         NEW n \in Int
  PROVE  Prover!NoCexUpTo(sy, n) <=> Clear(sy, n)
<1>1. \A k \in 0..n : k \in Nat /\ k <= n
  OBVIOUS
<1>2. \A k \in Nat : k <= n => k \in 0..n
  OBVIOUS
<1>3. \A k \in Nat : Prover!Violated(sy, k) <=> Cexs(sy, k) # {}
  BY ViolatedIsCex
<1> QED
  BY <1>1, <1>2, <1>3 DEF Prover!NoCexUpTo, Clear
\* What the interface shows between the steps of a run over single bounds.
AnswerInv ==
  /\ Stepwise
  /\ pc \in {"idle", "loop", "done"}
  /\ pc = "idle" => result \in {"NONE", "UNKNOWN"}
  /\ pc = "loop" => result = "NONE"
  /\ pc = "done" => result = "FALSE" /\ Cexs(sys, reachedK + 1) # {}

\* What a step may do to the interface, with counterexamples as paths.
PromisedStep ==
  \/ UNCHANGED <<sys, reachedK, result>>
  \/ result = "UNKNOWN" /\ result' = "NONE" /\ UNCHANGED <<sys, reachedK>>
  \/ result = "NONE" /\ reachedK' > reachedK /\ Clear(sys, reachedK') /\ UNCHANGED <<sys, result>>
  \/ result = "NONE" /\ result' = "UNKNOWN" /\ UNCHANGED <<sys, reachedK>>
  \/ /\ result = "NONE" /\ reachedK' >= reachedK /\ Clear(sys, reachedK')
     /\ Cexs(sys, reachedK' + 1) # {} /\ result' = "FALSE" /\ UNCHANGED sys
  \/ result = "FALSE" /\ sys' # sys /\ reachedK' = -1 /\ result' = "NONE"

LEMMA PromisedIsProver ==
  ASSUME sys \in Systems, reachedK' \in Int, reachedK' >= -1, PromisedStep
  PROVE  [Prover!Next]_(Prover!proverVars)
<1>1. sys.trans \subseteq States \X States /\ sys.init \in SUBSET States
  BY BmcSystemsAssumption DEF SystemType
<1>2. Clear(sys, reachedK') => Prover!NoCexUpTo(sys, reachedK')
  BY <1>1, NoCexIsClear
<1>3. Cexs(sys, reachedK' + 1) # {} => Prover!Violated(sys, reachedK' + 1)
  <2>1. \A m \in Int : m >= -1 => m + 1 \in Nat
    OBVIOUS
  <2>2. reachedK' + 1 \in Nat
    BY <2>1
  <2> QED
    BY <1>1, <2>2, ViolatedIsCex
<1> USE DEF Prover!Next
<1>4. CASE UNCHANGED <<sys, reachedK, result>>
  BY <1>4 DEF Prover!proverVars
<1>5. CASE result = "UNKNOWN" /\ result' = "NONE" /\ UNCHANGED <<sys, reachedK>>
  BY <1>5 DEF Prover!Call
<1>6. CASE /\ result = "NONE" /\ reachedK' > reachedK /\ Clear(sys, reachedK')
           /\ UNCHANGED <<sys, result>>
  BY <1>2, <1>6 DEF Prover!Reach
<1>7. CASE result = "NONE" /\ result' = "UNKNOWN" /\ UNCHANGED <<sys, reachedK>>
  BY <1>7 DEF Prover!GiveUp
<1>8. CASE /\ result = "NONE" /\ reachedK' >= reachedK /\ Clear(sys, reachedK')
           /\ Cexs(sys, reachedK' + 1) # {} /\ result' = "FALSE" /\ UNCHANGED sys
  BY <1>2, <1>3, <1>8 DEF Prover!AnswerFalse
<1>9. CASE result = "FALSE" /\ sys' # sys /\ reachedK' = -1 /\ result' = "NONE"
  BY <1>9 DEF Prover!ResetEnv
<1> QED
  BY <1>4, <1>5, <1>6, <1>7, <1>8, <1>9 DEF PromisedStep

\* Bounds tested one by one leave nothing to search for.
LEMMA NothingToSearch ==
  ASSUME BmcInv, Stepwise, NewBound, NEW p \in Models(Query, i)
  PROVE  p[i] \in sys.bad /\ i = reachedK + 1 /\ p \in Paths(sys, i) /\ p[0] \in sys.init
<1>1. pc = "loop" /\ i > reachedK
  BY DEF NewBound
<1>2. BmcTypes /\ BetweenBounds
  BY <1>1 DEF BmcInv
<1>3. Len(Query) = 2 /\ Query[2] = [clauses |-> {Tested}, never |-> {}] /\ i = reachedK + 1
      /\ Tested = {i}
  BY <1>1, <1>2, QueryFrames
<1>4. 2 \in 1..Len(Query) /\ {i} \in Query[2].clauses
  BY <1>3
<1>5. \E t \in {i} : p[t] \in sys.bad
  BY <1>4 DEF Models
<1> QED
  BY <1>3, <1>5 DEF Models

LEMMA NoSearchStarts ==
  ASSUME BmcInv, Stepwise
  PROVE  ~StartSearch /\ pc \in {"idle", "loop", "done"}
<1>1. BmcTypes /\ ~MaySearch(opts)
  BY DEF BmcInv, Stepwise, MaySearch
<1>2. pc \in {"idle", "loop", "done"}
  BY <1>1 DEF BmcInv, BmcTypes, Searching
<1>3. ASSUME StartSearch
      PROVE  FALSE
  <2>1. NewBound
    BY <1>3 DEF StartSearch
  <2>2. PICK p \in Models(Query, i) : ~NoSearch(p)
    BY <1>3 DEF StartSearch
  <2>3. p[i] \in sys.bad /\ i = reachedK + 1 /\ p \in Paths(sys, i)
    BY <2>1, <2>2, NothingToSearch
  <2>4. i \in Nat /\ i \in 0..i
    BY <1>1 DEF BmcTypes
  <2>5. FirstBad(p, i) \in 0..i /\ FirstBad(p, i) >= i
    BY <2>3, <2>4, FirstBadLeast
  <2>6. FirstBad(p, reachedK + 1) = reachedK + 1
    BY <2>3, <2>4, <2>5
  <2> QED
    BY <2>2, <2>6 DEF NoSearch
<1> QED
  BY <1>2, <1>3

LEMMA AnswerKept ==
  ASSUME BmcInv, BmcInv', AnswerInv, [Next]_vars
  PROVE  AnswerInv' /\ PromisedStep
<1> USE DEF AnswerInv
<1>1. Stepwise /\ CoversAll /\ reachedK \in Int /\ reachedK >= -1 /\ i \in Nat
  BY DEF BmcInv, BmcTypes, Stepwise, OneByOne, CoversAll
<1>2. pc \in {"idle", "loop"} => Clear(sys, reachedK)
  BY <1>1 DEF BmcInv, BetweenBounds
<1>3. opts' = opts => Stepwise'
  BY <1>1 DEF Stepwise
<1>4. CASE \E k \in Bounds : CheckUntil(k)
  BY <1>3, <1>4 DEF CheckUntil, PromisedStep
<1>5. CASE LoopExit
  BY <1>3, <1>5 DEF LoopExit, PromisedStep
<1>6. CASE StepCovered
  BY <1>3, <1>6 DEF StepCovered, PromisedStep
<1>7. CASE StepUnsat
  <2>1. pc = "loop" /\ pc' = "loop" /\ reachedK' = i /\ i > reachedK /\ result = "NONE"
        /\ UNCHANGED <<sys, opts, result>>
    BY <1>7 DEF StepUnsat, NewBound
  <2>2. CoversAll'
    BY <1>1, <2>1 DEF CoversAll, Total
  <2>3. Clear(sys', reachedK')
    BY <2>1, <2>2 DEF BmcInv, BetweenBounds
  <2> QED
    BY <1>3, <2>1, <2>3 DEF PromisedStep
<1>8. CASE StepSat
  <2>1. /\ NewBound /\ path' \in Models(Query, i) /\ reachedK' = i - 1
        /\ pc = "loop" /\ pc' = "done" /\ result = "NONE" /\ result' = "FALSE"
        /\ UNCHANGED <<sys, opts>>
    BY <1>8 DEF StepSat, ReturnFalse, NewBound
  <2>2. /\ path'[i] \in sys.bad /\ i = reachedK + 1
        /\ path' \in Paths(sys, i) /\ path'[0] \in sys.init
    BY <1>1, <2>1, NothingToSearch
  <2>3. reachedK' = reachedK /\ reachedK' + 1 = i /\ Cexs(sys, i) # {}
    BY <1>1, <2>1, <2>2 DEF Cexs
  <2> QED
    BY <1>1, <1>2, <1>3, <2>1, <2>3 DEF PromisedStep
<1>9. CASE Refine
  <2>1. /\ pc = "done" /\ ~Counterexample(sys', reachedK + 1) /\ reachedK' = -1
        /\ result' = "NONE" /\ pc' = "idle" /\ opts' = opts
    BY <1>9 DEF Refine
  <2>2. sys' # sys
    BY <2>1 DEF Cexs, Counterexample
  <2> QED
    BY <1>3, <2>1, <2>2 DEF PromisedStep
<1>10. CASE UNCHANGED vars
  <2>1. UNCHANGED <<sys, opts, pc, reachedK, result>>
    BY <1>10 DEF vars
  <2> QED
    BY <1>3, <2>1 DEF PromisedStep
<1>11. ASSUME \/ StartSearch
              \/ BinaryFound \/ BinaryLower \/ BinaryUpper \/ BinaryOverconstrained
              \/ Fallback \/ LinearFound \/ LinearNext
              \/ LessIncFound \/ LessIncLower \/ LessIncUpper
       PROVE  FALSE
  BY <1>1, <1>11, NoSearchStarts
     DEF BinaryFound, BinaryLower, BinaryUpper, BinaryOverconstrained, Fallback,
         LinearFound, LinearNext, LessIncFound, LessIncLower, LessIncUpper
<1> QED
  BY <1>4, <1>5, <1>6, <1>7, <1>8, <1>9, <1>10, <1>11 DEF Next, Step

\* A run that tests every bound, as the default options do, implements the
\* contract of a prover: reached_k_ counts bounds without counterexamples, FALSE
\* comes with the length of a shortest counterexample, and only a refinement of
\* the system takes an answer back.
THEOREM BmcImplementsProver ==
  ASSUME NoBinaryCegar
  PROVE  Spec /\ Stepwise => Prover!Spec
<1>1. Init => Prover!Init
  BY DEF Init, Prover!Init
<1>2. Init /\ Stepwise => AnswerInv
  BY DEF Init, AnswerInv
<1>3. BmcInv /\ BmcInv' /\ AnswerInv /\ [Next]_vars => AnswerInv'
  BY AnswerKept
<1>4. BmcInv /\ BmcInv' /\ AnswerInv /\ [Next]_vars => [Prover!Next]_(Prover!proverVars)
  <2> SUFFICES ASSUME BmcInv, BmcInv', AnswerInv, [Next]_vars
               PROVE  [Prover!Next]_(Prover!proverVars)
    OBVIOUS
  <2>1. PromisedStep
    BY AnswerKept
  <2>2. sys \in Systems /\ reachedK' \in Int /\ reachedK' >= -1
    BY DEF BmcInv, BmcTypes
  <2> QED
    BY <2>1, <2>2, PromisedIsProver
<1> QED
  BY <1>1, <1>2, <1>3, <1>4, BmcInvariance, PTL DEF Spec, Prover!Spec
=============================================================================
