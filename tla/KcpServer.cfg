\* Two clients, whose UDP addresses differ or are the same; two calls of users.
SPECIFICATION FairSpec
CONSTANTS
  NoConv = NoConv
  MaxConns = 2
  MaxCalls = 2
INVARIANTS Sound TablesAgree
PROPERTIES EndTogether
CHECK_DEADLOCK FALSE
