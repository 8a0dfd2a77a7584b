\* One player of each side, three joins, so that a battleground is entered more than once.
SPECIFICATION FairSpec
CONSTANTS
  a1 = a1
  a2 = a2
  h1 = h1
  Players <- Duel
  Team <- DuelTeams
  Parties <- DuelParties
  MinPerTeam = 1
  MaxPerTeam = 1
  MaxJoins = 3
  Width = 8
  MaxMessages = 2
  MaxTrips = 1
  Travellers = {a1}
  PatientClients = TRUE
INVARIANTS
  TypeOK
  InvitationsHaveABattleground
  QueuedPlayersKnow
  InvitedCountIsExact
PROPERTIES
  StaysUntilItsTime
  InvitationsEnd
CHECK_DEADLOCK FALSE
