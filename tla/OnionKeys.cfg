SPECIFICATION Spec
CONSTANTS
  Keys = {k1, k2, k3, k4}
  MaxFailures = 3
INVARIANT TypeOK
INVARIANT AddressKept
PROPERTY ServesAgain
