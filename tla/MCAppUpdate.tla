----------------------------- MODULE MCAppUpdate -----------------------------
EXTENDS AppUpdate
CONSTANT f1
=============================================================================
