---------------------------- MODULE MCSageInterp -----------------------------
EXTENDS SageInterp, TLC
CONSTANTS main, other
MCExplored ==
    [t \in Tasks |-> IF t = main THEN <<DOMAIN Form \ Inner, {"Method", "Super", "Binary", "Array"}, {"Assign", "Binary", "Proc", "Raise", "Return"}, {"Raise", "Return"}>>
                                 ELSE <<{"Assign"}, {}, {}, {}>>]
Symmetry == Permutations(Objects) \cup Permutations(Envs \ {Global})
==============================================================================
