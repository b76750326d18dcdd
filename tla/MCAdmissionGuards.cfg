SPECIFICATION Spec
CONSTANTS
  s1 = s1
  s2 = s2
  s3 = s3
  builder = builder
  main = main
  p1 = p1
  p2 = p2
  None = None
  Sessions = {s1, s2, s3}
  Agents = {builder, main}
  Projects = {p1}
  AgentOf <- MCAgentOf
  AnchorOf <- MCAnchorOf
  Producers = {c1, c2}
  c1 = c1
  c2 = c2
  MaxGuards = 2
INVARIANTS GuardsExcludeWork GuardsExcludePreparations BoundProjectUnchanged
CHECK_DEADLOCK FALSE
