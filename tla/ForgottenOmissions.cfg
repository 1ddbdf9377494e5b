SPECIFICATION Spec
CONSTANTS
  Requests = {r1}
  MaxLevel = 2
  Omit = Omit
  Plain = Plain
  Setups <- MCSetups
  Life = 1
  MaxRetries = 3
  MaxEndpoints = 2
INVARIANTS OmissionRemembered
