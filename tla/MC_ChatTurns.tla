---------------------------- MODULE MC_ChatTurns ----------------------------
EXTENDS ChatTurns
CONSTANTS u1, u2
MCUser == [t \in Turns |-> IF t < 3 THEN u1 ELSE u2]
MCNoDefect == {"none"}
MCTools == {"get_environment_profile", "draft_environment_profile", "nonesuch"}
=============================================================================
