-------------------------- MODULE MCRecorderService --------------------------
EXTENDS RecorderService
CONSTANTS o1, o2
=============================================================================
