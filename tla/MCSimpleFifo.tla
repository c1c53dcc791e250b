---------------------------- MODULE MCSimpleFifo ----------------------------
EXTENDS SimpleFifo
=============================================================================
