SPECIFICATION Spec
CONSTANTS
  None = None
  MaxCycles = 1
  MaxCalls = 1
  MaxFaults = 1
INVARIANTS TypeOK AnnouncementNotLost
   
