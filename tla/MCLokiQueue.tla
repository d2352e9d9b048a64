----------------------------- MODULE MCLokiQueue -----------------------------
EXTENDS LokiQueue
=============================================================================
