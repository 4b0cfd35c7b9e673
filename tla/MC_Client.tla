------------------------------ MODULE MC_Client ------------------------------
(* Small instances of Client for TLC.                                      *)
EXTENDS Client, TLC

CONSTANTS a, b, c1, c2, m1, m2

MCNicknames == {a}
MCTwoNicknames == {a, b}
MCContactIds == {c1, c2}
MCMIDs == {m1, m2}

(* Nicknames, ids and message ids are only compared for equality.         *)
MCSymmetry == Permutations(MCTwoNicknames) \cup Permutations(MCContactIds)
              \cup Permutations(MCMIDs)
==============================================================================
