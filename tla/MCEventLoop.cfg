SPECIFICATION FairSpec
CONSTANTS
  i1 = i1  c1 = c1  c2 = c2  c3 = c3
  Issue <- OneIssue
  Client <- ThreeClients
  Nothing = Nothing
INVARIANTS TypeOK RefreshTruthful StoreTruthful
PROPERTIES RefreshServed ShownAtLast StopsAtLast
CHECK_DEADLOCK FALSE
