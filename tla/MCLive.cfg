SPECIFICATION FairSpec
PROPERTIES EventsArrive WorkEnds
CHECK_DEADLOCK FALSE
