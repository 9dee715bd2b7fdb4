CONSTANTS
  Passwords = {"nil", "p", "q"}
  Salt = "salt"
  Pid = "pid"
SPECIFICATION Spec
INVARIANTS ReadyMeansReady RightPasswordGetsIn
