---------------------------- MODULE MCPublisher ----------------------------
EXTENDS Publisher, TLC

CONSTANTS r1, r2, w1, w2

OneRow == {r1}
TwoRows == {r1, r2}
OneWorker == {w1}
TwoWorkers == {w1, w2}
NoRows == {}

WorkerSymmetry == Permutations(TwoWorkers)
=============================================================================
