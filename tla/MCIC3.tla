-------------------------------- MODULE MCIC3 --------------------------------
(* Bit-level IC3 on systems over three Boolean state variables or a word of *)
(* three bits, and model-based IC3 on some of them, over a Boolean and      *)
(* two words of one bit, or a Boolean and a word of two bits.  A behaviour  *)
(* is one engine's.                                                         *)
EXTENDS IC3, MBIC3

CONSTANT Engines

MCStates == 0..7

MCSystem(start, steps, wrong, deterministic) ==
  [ init |-> start, trans |-> steps, bad |-> wrong, det |-> deterministic,
    boolPreds |-> StateBits([s \in MCStates |-> s], 3),
    initPreds |-> {}, badPreds |-> {}, filePreds |-> {} ]

\* Functional systems: affine counters that may saturate, from one or two
\* initial states; some overflow into bad, some never get there.
Affine(a, b, top) == { <<s, (a * s + b) % top>> : s \in MCStates }

Functional ==
  { MCSystem(start, Affine(a, b, top), wrong, TRUE) :
      start \in {{0}, {2, 4}}, a \in {1, 2, 3}, b \in {1, 2, 3},
      top \in {5, 6, 8}, wrong \in {{7}, {3, 5}} }

\* Relational systems: a nondeterministic walk whose states from dead on have
\* no successor, so that bad states can be dead ends.
Walk(hops, dead) ==
  { <<s, t>> \in MCStates \X MCStates : s < dead /\ \E h \in hops : t = (s + h) % 8 }

Relational ==
  { MCSystem(start, Walk(hops, dead), wrong, FALSE) :
      start \in {{0}, {1, 6}}, hops \in {{1}, {2, 3}, {4, 6}, {3, 6}}, dead \in {4, 7, 8},
      wrong \in {{5}, {6, 7}} }

MCSystems == Functional \cup Relational

-----------------------------------------------------------------------------
Word(sort, low, n) == [sort |-> sort, value |-> [s \in MCStates |-> (s \div low) % n]]

MCWords == { {Word("BOOL", 1, 2), Word("BV1", 2, 2), Word("BV1", 4, 2)},
             {Word("BOOL", 1, 2), Word("BV2", 2, 4)} }

MCMbOptions ==
  { [words |-> w, mode |-> m, preimage |-> FALSE] : w \in MCWords, m \in 0..2 }

\* The functional preimage; the words make no difference to it.
MCPreimage == { [words |-> {Word("BOOL", 1, 2), Word("BV2", 2, 4)}, mode |-> 0,
                 preimage |-> TRUE] }

\* Three that reach bad after some steps, a counter that never does, a walk into
\* dead ends, and two that start in bad or step into it.
MCMbSystems ==
  { MCSystem({0}, Affine(a, 1, 8), {3, 5}, TRUE) : a \in {1, 2} }
  \cup { MCSystem({0}, Affine(2, 1, 5), {3, 5}, TRUE), MCSystem({0}, Affine(2, 3, 8), {7}, TRUE),
         MCSystem({0}, Walk({4, 6}, 4), {5}, FALSE), MCSystem({0}, Walk({4, 6}, 4), {6, 7}, FALSE),
         MCSystem({1, 6}, Walk({4, 6}, 4), {6, 7}, FALSE) }

NoMb == [words |-> {}, mode |-> 0, preimage |-> FALSE]

EnginesInit ==
  \/ "ic3bits" \in Engines /\ Init /\ mb = NoMb
  \/ "mbic3" \in Engines /\ MbInit /\ sys \in MCMbSystems

EngineStep ==
  \/ mb = NoMb /\ (SearchStep \/ ReturnFalse) /\ UNCHANGED mb
  \/ mb # NoMb /\ MbStep

EnginesNext == EngineStep \/ (Environment /\ UNCHANGED mb)

EnginesSpec ==
  EnginesInit /\ [][EnginesNext]_<<vars, mb>> /\ WF_<<vars, mb>>(EngineStep)
=============================================================================
