SPECIFICATION Spec
CONSTANTS
  u1 = u1  u2 = u2  u3 = u3  u4 = u4  ux = ux
  byOrg = byOrg  byAccount = byAccount
  NotGiven = NotGiven
  Users = {u1, u2, u3, u4, ux}
  Dir0 <- ThreeUsers
  Nameless = {ux}
  Mailless = {u3}
  Storage <- SomeStorage
  Mail <- SomeMail
  Scoped <- OrgEndpoints
  Plain <- PlainEndpoints
  Shows <- ShowsAll
  Limit = 2
  SampleFirst = 1
  SmallOrg = 2
  CommandLines <- UnmetLines
  MaxChanges = 1
INVARIANTS NobodyElse NumbersStillMean
