\* Requests of two clients that edit rules, overlays, levels and providers while a session's
\* turns run and its agent is replaced.
SPECIFICATION Spec
CONSTANTS
  s1 = s1
  c1 = c1
  c2 = c2
  r1 = r1
  r2 = r2
  n1 = n1
  n2 = n2
  m1 = m1
  m2 = m2
  blank = blank
  Blank = blank
  read = read
  remove = remove
  Sessions <- MCSessions
  Agents <- MCSessions
  Clients <- MCClients
  Requests <- MCRequests
  Inputs <- MCInputs
  Destructive <- MCDestructive
  RuleBook <- MCRuleBook
  Overlays <- MCOverlays
  Names <- MCNames
  Models <- MCModels
  MaxDrafts = 2
  MaxVersion = 4
  MaxProviders = 2
  MaxEdits = 5
SYMMETRY MCSymmetry
INVARIANTS
  DecisionsAreLawful
  OverlayIsOne
  ProvidersAgree
CHECK_DEADLOCK FALSE
