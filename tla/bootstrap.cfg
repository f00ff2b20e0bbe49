SPECIFICATION LiveSpec
CONSTANTS
  Created <- MCCreated
  References <- MCReferences
  CandleTables <- MCCandleTables
  Watch <- MCWatch
  LineTables <- MCLineTables
  MaxFaults = 3
INVARIANTS TypeOK UpMeansComplete ExistingTablesNotify
PROPERTIES CompleteDatabaseStarts
CHECK_DEADLOCK FALSE
