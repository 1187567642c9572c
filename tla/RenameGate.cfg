\* Limits scaled down: two guesses, a cooldown of 2 s, three guesses in a day of 9 s.
SPECIFICATION Spec
CONSTANTS
  Burst = 2
  Cooldown = 2
  Daily = 3
  Day = 9
  Start = 9
  Horizon = 29
INVARIANTS
  BurstsAreSpaced
  DaysAreCapped
  PatientPlayerMayRename
