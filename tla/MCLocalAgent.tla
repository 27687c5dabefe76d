---------------------------- MODULE MCLocalAgent ----------------------------
EXTENDS LocalAgent

=============================================================================
