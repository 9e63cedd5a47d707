-------------------------- MODULE MCDirectMessages --------------------------
\* A small instance of DirectMessages for TLC: the constants are in the cfg.
EXTENDS DirectMessages
=============================================================================
