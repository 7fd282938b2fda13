------------------------------ MODULE MCErrQueue ------------------------------
\* Model checking of ErrQueue.
EXTENDS ErrQueue
===============================================================================
