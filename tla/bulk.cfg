SPECIFICATION FairSpec
CONSTANTS
  a1 = a1  a2 = a2  a3 = a3  u1 = u1  u2 = u2  m1 = m1
  Archives = {a1, a2, a3}
  Mailboxes = {u1, u2}
  Mailbox <- Shared
  Messages = {m1}
  Contents <- Entries
  Pool = 2
  MaxRequests = 2
  MaxFaults = 1
  MaxRuns = 2
  DryRuns = {FALSE, TRUE}
INVARIANTS CopiesExplained SuccessIsComplete
PROPERTIES OnlySiblingsTakeBack ImportEnds
