--------------------------------- MODULE IC3 ---------------------------------
(***************************************************************************)
(* Bit-level IC3 (engines/ic3.cpp): cubes are made of the Boolean state    *)
(* variables, the transition system is the one that was given, and         *)
(* refine() is the default of ic3base.h, every trace is real.              *)
(***************************************************************************)
EXTENDS IC3Base

\* The literals of IC3Bits (engines/ic3bits.cpp), which is the same over words:
\* a Boolean and every bit of a word of so many bits.
StateBits(word, width) ==
  { { s \in States : (word[s] \div 2^j) % 2 = 1 } : j \in 0..width - 1 }

\* check_ts throws unless every state variable is Boolean, so that their values
\* are the state.
Init ==
  /\ BaseInit
  /\ Separating(sys.boolPreds)
  /\ preds = sys.boolPreds
  /\ trans = sys.trans

Next == SearchStep \/ ReturnFalse \/ Environment

\* The prover is one thread that runs until it returns; calls and signals
\* need never come.
Fairness == WF_vars(SearchStep \/ ReturnFalse)

Spec == Init /\ [][Next]_vars /\ Fairness

=============================================================================
