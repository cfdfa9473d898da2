CONSTANTS
  r1 = r1 r2 = r2
  Requests <- TwoRequests
  Safe <- OneSafe
  MaxAttempts = 1
  MaxPurges = 1
  MaxEpochs = 1
  MaxKills = 1
  MaxToggles = 1
CHECK_DEADLOCK FALSE
SPECIFICATION PhoneFairSpec
INVARIANTS OneUser RegistrationSound
PROPERTIES ImplementsGate PhoneSettles
