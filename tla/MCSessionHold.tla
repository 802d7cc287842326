--------------------------- MODULE MCSessionHold ---------------------------
EXTENDS SessionHold

=============================================================================
