CONSTANTS
  Task = {t1}
  Call = {c1, c2}
  NoTask = none
  Initial <- RaceInitial
  Requested <- RaceRequested
  Corrected <- RaceCorrected
  Reentered <- RaceReentered
  FreshnessTries = 1
SPECIFICATION Spec
INVARIANT TypeOK EntryGuardHeld EntryGuardExclusive
PROPERTY CommitsFollowTable OwnedMoves 
