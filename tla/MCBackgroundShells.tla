--------------------------- MODULE MCBackgroundShells ---------------------------
EXTENDS BackgroundShells

=============================================================================
