SPECIFICATION Spec
CONSTANTS
  c1 = c1
  c2 = c2
  c3 = c3
  main = main
  sub = sub
  Calls = {c1, c2, c3}
  Nameless = {c1}
  Agents = {main, sub}
  AgentOf <- MainOrSub
  ToolOf <- Named
  Session = Session
  MaxMishaps = 1
INVARIANTS WorkIsReported NothingStaleIsReported
CHECK_DEADLOCK FALSE
