SPECIFICATION Spec
CONSTANTS
  Requests = {r1, r2}
  MaxLevel = 2
  Omit = Omit
  Plain = Plain
  Setups <- MCSetups
  Life = 1
  MaxRetries = 3
  MaxEndpoints = 2
SYMMETRY Alike
INVARIANTS TakenIsNotRefused TakenIsFound SentOnce EndpointsInOrder
