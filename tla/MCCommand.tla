------------------------------ MODULE MCCommand ------------------------------
\* The command with three units and three presses of ctrl-c.
EXTENDS Command
=============================================================================
