---------------------------- MODULE MCAlarms ----------------------------
EXTENDS Alarms

=============================================================================
