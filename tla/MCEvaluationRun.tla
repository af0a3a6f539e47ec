--------------------------- MODULE MCEvaluationRun ---------------------------
EXTENDS EvaluationRun, TLC

CONSTANTS r1, r2, f1, f2

MCRuns == {r1, r2}

MCFolders == {f1, f2}

Alike == Permutations(MCRuns) \cup Permutations(MCFolders)
=============================================================================
