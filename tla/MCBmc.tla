-------------------------------- MODULE MCBmc --------------------------------
(* BMC on systems over four states, with every kind of interval search.    *)
EXTENDS Bmc

MCStates == 0..3

Rel(f) == { <<s, t>> \in MCStates \X MCStates : t \in f[s + 1] }

MCSystem(steps, wrong) ==
  [ init |-> {0}, trans |-> steps, bad |-> wrong, det |-> FALSE,
    boolPreds |-> {}, initPreds |-> {}, badPreds |-> {}, filePreds |-> {} ]

Counter == Rel(<<{1}, {2}, {3}, {0}>>)          \* the counter of samples/
Idle    == Rel(<<{0, 2}, {1}, {1, 3}, {3}>>)
Choice  == Rel(<<{0, 1}, {2}, {3}, {3}>>)
Fork    == Rel(<<{1, 2}, {0}, {3}, {1}>>)
Late    == Rel(<<{2}, {0}, {3}, {1}>>)          \* Fork, refined
DeadEnd == Rel(<<{0, 1}, {2, 3}, {1}, {}>>)     \* 3 has no successor

MCSystems ==
  { MCSystem(steps, wrong) :
      steps \in {Counter, Idle, Choice, Fork, Late, DeadEnd},
      wrong \in {{1}, {3}, {1, 3}, {2}} }

Opt(start, step, exponential, search) ==
  [ start |-> start, step |-> step, exponential |-> exponential,
    negInit |-> FALSE, singleBad |-> FALSE, negBad |-> "none",
    search |-> search, allowNonMinimal |-> FALSE, cegar |-> FALSE ]

Searches == {"binary", "lessinc", "linear"}

Intervals ==
  { Opt(start, step, FALSE, search) :
      start \in {0, 2}, step \in {1, 3, 5}, search \in Searches }

MCOptions ==
  Intervals
  \cup { Opt(0, 1, TRUE, search) : search \in Searches }
  \cup { [Opt(0, step, FALSE, search) EXCEPT !.negBad = "all"] :
           step \in {1, 3}, search \in Searches }
  \cup { [Opt(0, step, FALSE, "lessinc") EXCEPT !.negInit = n, !.negBad = "last",
            !.allowNonMinimal = a, !.singleBad = b, !.cegar = TRUE] :
           step \in {1, 4}, n, a, b \in BOOLEAN }
=============================================================================
