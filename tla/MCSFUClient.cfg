SPECIFICATION Spec
CONSTANTS
  Users <- MCUsers
  MaxTimes = 3
  Roles = {"publisher", "subscriber"}
  MaxEvents = 3
INVARIANTS SwitchTakesEffect AnswerNotForOlder NoCandidateLeft
PROPERTIES CallsReturn ComesBack
