-------------------------- MODULE MCPostTurnWorker --------------------------
\* Four turns, a queue of two, one close.
EXTENDS PostTurnWorker
=============================================================================
