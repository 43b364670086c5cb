---------------------------- MODULE MCWinCondVar ----------------------------
\* WinCondVar for model checking: the threads are interchangeable in all that
\* is checked, but symmetry is not used because liveness is.
EXTENDS WinCondVar

CONSTANTS t1, t2, t3
=============================================================================
