\* Two racers, an observer and an AI, each user with one migration.
CONSTANTS
  ann = ann
  bob = bob
  eve = eve
  robot = robot
  Users = {ann, bob, eve}
  Spectators = {eve}
  AIs = {robot}
  GenMax = 2
  ReadyTimeout = 2
  StartDelay = 1
  SettlementDelay = 1
SPECIFICATION FairSpec
CHECK_DEADLOCK FALSE
INVARIANTS WaitsForThePresent NoAbandonedRace
PROPERTIES StartsTogether RaceMovesOn
