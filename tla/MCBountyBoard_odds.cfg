CONSTANTS
  u1 = u1  u2 = u2  b1 = b1  b2 = b2  r1 = r1  r2 = r2
  apply1 = apply1  apply2 = apply2  drawing = drawing
  weighing = weighing  resetting = resetting  switching = switching
  Rolls = 3
  MaxTimes = 6
  Person = {u1, u2}
  Maintainer = {u1}
  Bounty = {b1, b2}
  Message = {apply1, apply2, drawing, weighing, resetting, switching}
  Sent <- Messages
  Request = {r1, r2}
  History <- Veteran
  Answer <- Answers
  Stored <- Before
  Seeded = {b1}
  Proposed = {b2}
  MaxTime = 1
SYMMETRY Alike
SPECIFICATION Spec
INVARIANTS DoneOnce AnnouncedIsKnown DrawIsExplained OddsFollowTickets NewcomerLeads
CHECK_DEADLOCK FALSE
