----------------------------- MODULE MCChatTurns -----------------------------
EXTENDS ChatTurns
=============================================================================
