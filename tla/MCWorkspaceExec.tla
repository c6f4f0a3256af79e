-------------------------- MODULE MCWorkspaceExec ---------------------------
\* Model values for WorkspaceExec: the first call, one that writes and one or
\* two that kill, and the timer.
EXTENDS WorkspaceExec

CONSTANTS exec, write, kill1, kill2, timer0
=============================================================================
