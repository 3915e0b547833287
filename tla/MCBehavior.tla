----------------------------- MODULE MCBehavior ------------------------------
EXTENDS Behavior, TLC
=============================================================================
