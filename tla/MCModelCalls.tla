----------------------------- MODULE MCModelCalls -----------------------------
EXTENDS ModelCalls, TLC

\* As composed, and with retries.
MCConfigs == {Compose, Defaults}

Symmetry == Permutations(Model)
=============================================================================
