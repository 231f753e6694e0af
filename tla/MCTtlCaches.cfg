SPECIFICATION CachesSpec
CONSTANTS
  allowlist = allowlist
  corpus = corpus
  token = token
  Keys <- MCKeys
  Fallback = {allowlist}
  Tokens = {token}
  Ttl <- MCTtl
  Lifetime <- MCLifetime
  MaxRead = 2
  Requests = {r1, r2}
  EndOfTime = 6
  Nothing = Nothing
CHECK_DEADLOCK FALSE
INVARIANTS
  AnswersAreRecent
