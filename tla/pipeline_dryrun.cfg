SPECIFICATION Spec
CONSTANTS
  u1 = u1  u2 = u2  cal = cal  inbox = inbox  e1 = e1  m1 = m1  m2 = m2
  Users = {u1, u2}
  Mailboxes = {u1}
  Folders = {cal, inbox}
  Items = {e1, m1, m2}
  Stage <- TheirStage
  Owner <- AllOfU1
  Box <- EventAndMail
  Limit = 1
  MaxFaults = 1
  MaxRuns = 2
INVARIANT RehearsalIsHarmless
