----------------------------- MODULE MCFiberFair ----------------------------
\* Constants for the turns of fibers: the host gives one capability, and
\* programs ask for a name that no capability has.
EXTENDS FiberTurns

MCDefaultCapabilities == {"stdio.write"}
MCRequestNames == {"unknown"}
=============================================================================
