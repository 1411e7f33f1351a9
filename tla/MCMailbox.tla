----------------------------- MODULE MCMailbox -----------------------------
EXTENDS CommandMailbox
=============================================================================
