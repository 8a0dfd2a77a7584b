\* Two players of one side meet one of the other.
SPECIFICATION Spec
CONSTANTS
  a1 = a1
  a2 = a2
  h1 = h1
  Players <- Three
  Team <- ThreeTeams
  Parties <- ThreeParties
  MinPerTeam = 1
  MaxPerTeam = 1
  MaxJoins = 4
  Width = 8
  MaxMessages = 2
  MaxTrips = 1
  Travellers = {a1, a2, h1}
  PatientClients = TRUE
INVARIANT
  TeamsFit
CHECK_DEADLOCK FALSE
