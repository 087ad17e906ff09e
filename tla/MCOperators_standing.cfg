SPECIFICATION FairSpec
CONSTANTS
  theAdmin = theAdmin
  theReseller = theReseller
  theOwner = theOwner
  Operators = {theAdmin, theReseller}
  Admins = {theAdmin}
  Parent <- OneEach
  Owner = theOwner
  Customers = {c1}
  Requests = {q1, q2}
  Forms <- AllowanceAndTerm
  Changes <- Some
  Seats = {2, 4}
  MaxDay = 1
  MaxUsed = 1
  MaxEdits = 2
  MaxUnread = 1
  MayOverlap = {}
INVARIANT NoOrphans
PROPERTIES TermStartsOnce StaysSuspended FollowsStanding
CHECK_DEADLOCK FALSE
