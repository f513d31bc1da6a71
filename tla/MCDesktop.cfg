SPECIFICATION DesktopSpec
CONSTANTS
  Launches = {"ordinary", "timed", "manual"}
  Recordings = {1}
  MaxSession = 2
  Verifies = {TRUE, FALSE}
PROPERTIES UnrecordedKept ReceptionEnds
CHECK_DEADLOCK FALSE
