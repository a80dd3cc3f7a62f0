CONSTANTS
  t1 = t1
  t2 = t2
  t3 = t3
  a1 = a1
  a2 = a2
  a3 = a3
  Typed <- MCTyped
  Answers <- MCAnswers
  Kinds = {"echo_server", "any"}
SPECIFICATION FairSpec
INVARIANT TypeOK
INVARIANT ClosedOnce
INVARIANT PassedOn
PROPERTY ServerEndsClient
\* A client that has ended takes no further step.
CHECK_DEADLOCK FALSE
