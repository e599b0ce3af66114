----------------------------- MODULE MCDataPath -----------------------------
(* Instances of DataPath.                                                    *)
EXTENDS DataPath

AllMnemonics ==
    RegOps \cup ShiftIOps \cup CompareOps
    \cup {"addi", "andi", "ori", "xori", "movhi", "lbz", "lbs", "lhz", "lhs"}

=============================================================================
