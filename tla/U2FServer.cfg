SPECIFICATION SpecFirstFree
CONSTANTS
  h1 = h1
  v1 = v1
  v2 = v2
  p1 = p1
  p2 = p2
  p3 = p3
  p4 = p4
  c1 = c1
  c2 = c2
  c3 = c3
  Handlers <- OneHandler
  Verifiers <- OneVerifier
  Challenges <- TwoChallenges
  Applications <- OneApplication
  Requests <- TwoRequests
  MaxExtenders = 1
  Clients <- ThreeClients
  Asks <- Competing
  PollGap = 1
  Ctap2Wait = 9
  SignerFails = FALSE
PROPERTIES
  EveryRequestAnswered
  EveryOperationEnds
