CONSTANTS
  c1 = c1
  c2 = c2
  Asker = a
  Self = s
  None = None
  Callers = {c1, c2}
  Others = {p1}
  Mixes <- MCMixes
SPECIFICATION SpecAll
INVARIANT FlagFollowsRole
INVARIANT NoLostWakeup
INVARIANT LeaderAnswer
INVARIANT StatusAnswer
PROPERTY CallOutcome
PROPERTY CallsEnd
PROPERTY MemberFound
