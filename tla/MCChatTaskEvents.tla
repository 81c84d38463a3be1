-------------------------- MODULE MCChatTaskEvents --------------------------
EXTENDS ChatTaskEvents, TLC
\* The tool call ids are interchangeable, and so are the tasks.
Symmetry == Permutations(Tasks) \cup Permutations(Tools)
=============================================================================
