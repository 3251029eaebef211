----------------------------- MODULE MCEventHook -----------------------------
EXTENDS EventHook
=============================================================================
