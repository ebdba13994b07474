SPECIFICATION Spec
CONSTANTS
  User = {u1}
  Tabs = {"Messenger", "Groups", "Account"}
  nil = nil
  absent = absent
INVARIANT TokenIsPresent
