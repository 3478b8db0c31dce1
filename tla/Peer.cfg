SPECIFICATION Spec
CONSTANTS
  n1 = n1
  n2 = n2
  n3 = n3
  n4 = n4
  n5 = n5
  n6 = n6
  Device <- Devices
  Suites <- AnySuites
  Psk <- SomePsk
  Chain <- Chains
  Guests <- WithoutSecret
  Trusted <- Issuers
  Lasting <- AllSuites
  Scenes <- AnyScene
  NumNames = 2
  CallsTimeOut = TRUE
INVARIANTS TypeOK OneAnswer MadeByBoth OnlyFriends
PROPERTIES KeysAgree
CHECK_DEADLOCK FALSE
