SPECIFICATION Spec
CONSTANTS
  h1 = h1
  h2 = h2
  v1 = v1
  p1 = p1
  p2 = p2
  p3 = p3
  Handlers <- TwoHandlers
  Verifiers <- OneVerifier
  Challenges <- TwoChallenges
  Applications <- OneApplication
  Requests <- ThreeRequests
  MaxExtenders = 1
INVARIANTS
  OneDialog
  OneTaker
  ChannelInv
PROPERTIES
  OkIsForAsker
  ImplementsConsent
  DialogEnds
  VerifierHears
