---------------------------- MODULE MCRunSession ----------------------------
EXTENDS RunSession

AllModes == ExecutionModes
=============================================================================
