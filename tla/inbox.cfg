\* One bell, a personal notification and one for all admins, every call may fail.
CONSTANTS
  b1 = b1  n1 = n1  n2 = n2
  Bells <- OneBell
  Posts <- TwoPosts
  Broadcasts <- ToAdmins
  Page = 1
  Faults = TRUE
SPECIFICATION FairSpec
INVARIANTS
  TypeOK
  BadgeIsExact
  LiveIsShown
PROPERTIES
  StaysConnected
