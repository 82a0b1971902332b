\* A tab of the admin and one of a customer under the fairness of the goroutines.
CONSTANTS
  a1 = a1  b1 = b1  admin = admin  buyer = buyer  all = all
  Clients <- OneTabEach
  Users <- Names
  UserOf <- TwoOwners
  Admins <- OneAdminTab
  Feed <- Published
  SendCap = 1
  BroadcastCap = 1
  MaxNotes = 2
SPECIFICATION FairSpec
INVARIANTS
  TypeOK
  NeverPanics
  NothingSkipped
PROPERTIES
  ImplementsChannel
  EndedIsCleanedUp
  HubKeepsMoving
