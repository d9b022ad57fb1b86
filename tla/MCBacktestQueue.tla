-------------------------- MODULE MCBacktestQueue --------------------------
EXTENDS BacktestQueue

\* A sound request and one with a stop the engine refuses.
SomeSpecs == {{}, {"stop"}}
=============================================================================
