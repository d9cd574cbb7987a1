-------------------------- MODULE MCEventLogFiles --------------------------
(* EventLogFiles for TLC: a good file, one that cannot be parsed and one    *)
(* that Salesforce will not serve.                                          *)
EXTENDS EventLogFiles, TLC

CONSTANTS p1, p2

MCFileKind == <<"good", "malformed", "gone">>
MCGoodFiles == <<"good", "good">>
MCMixedFiles == <<"malformed", "good">>
MCSymmetry == Permutations({p1, p2})
=============================================================================
