SPECIFICATION MCSpec
PROPERTY KillEndsChild
CHECK_DEADLOCK FALSE
