----------------------------- MODULE MCButtons -----------------------------
EXTENDS Buttons
============================================================================
