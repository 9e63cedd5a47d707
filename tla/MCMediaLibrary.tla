--------------------------- MODULE MCMediaLibrary ---------------------------
\* A small instance of MediaLibrary for TLC: the constants are in the cfg.
EXTENDS MediaLibrary
=============================================================================
