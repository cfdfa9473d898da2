----------------------------- MODULE MCStartup -----------------------------
\* The bounds are numbers; there is nothing to instantiate.
EXTENDS Startup
=============================================================================
