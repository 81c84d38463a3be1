--------------------------- MODULE MCChatRecovery ---------------------------
EXTENDS ChatRecovery
=============================================================================
