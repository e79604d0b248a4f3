---------------------------- MODULE MCPrioQueue ----------------------------
\* A ring of four blocks of two cycles: the near future is eight cycles.
EXTENDS PrioQueue
=============================================================================
