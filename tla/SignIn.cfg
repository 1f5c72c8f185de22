\* Two pages of one browser, three pairs of tokens and one fault: two sign-ins and a
\* refresh, or one sign-in refreshed twice, with a lost answer or a reload.
CONSTANTS
  Pages     = {p1, p2}
  Nobody    = Nobody
  Kinds     = {"act", "logout", "revoke_all"}
  MaxTokens = 3
  MaxFaults = 1
SPECIFICATION Spec
INVARIANTS
  TokensAreSound
  ReuseIsNotOwn
PROPERTY MountedPageSettles
CHECK_DEADLOCK FALSE
