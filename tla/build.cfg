\* Two functions and descriptors of the application, with every table small.
CONSTANTS
  MaxIf = 2
  MaxAlt = 1
  MaxNumber = 2
  Dirs = {"in"}
  MaxDescr = 4
  MaxIfalts = 3
  MaxEps = 3
  MaxGroups = 2
  MaxMade = 2
  WithGuid = {0}
  GuidLen = 38
SPECIFICATION Spec
CONSTRAINT NotAllAtOnce
CHECK_DEADLOCK FALSE
INVARIANT TablesAgree
 
PROPERTY ReservationKept
PROPERTY RollbackExact
