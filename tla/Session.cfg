SPECIFICATION Spec
CONSTANTS
  User = {u1, u2}
  Tabs = {"Messenger", "Groups", "Account"}
  nil = nil
  absent = absent
SYMMETRY UserSymmetry
INVARIANTS TypeOK RequestsCarryOneSession UnwrapsFailWithoutKey
