SPECIFICATION Spec
CONSTANTS
  c1 = c1
  c2 = c2
  Clients = {c1, c2}
  Operations = {"read", "write", "increment", "delete"}
  Lifetimes = {Never, 1}
  Never = Never
  Text = Text
  Absent = Absent
  MaxTime = 4
  MaxNumber = 3
CHECK_DEADLOCK FALSE
PROPERTIES LiveLostToReader IncrementsAdd
