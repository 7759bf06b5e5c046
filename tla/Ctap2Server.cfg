SPECIFICATION Spec
CONSTANTS
  rp1 = rp1
  rp2 = rp2
  u1 = u1
  u2 = u2
  k1 = k1
  k2 = k2
  Setups <- Several
  RPs <- TwoRPs
  Users <- TwoUsers
  Calls <- TwoCalls
  MaxCreds = 2
  TTL = 2
  HandlerWait = 3
SYMMETRY Symmetry
INVARIANT
  TypeOK
PROPERTIES
  PresenceIsFresh
  CredentialIsTheRPs
  ListsAreSearched
  FirstResidentAnswers
  ConsentIsNotWasted
  DialogReachesHandler
