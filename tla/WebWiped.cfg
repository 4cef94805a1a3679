SPECIFICATION MCSpec
CONSTANTS
  t1 = t1
  t2 = t2
  t3 = t3
  muted = muted
  theme = theme
  mode = mode
  attitude = attitude
  c1 = c1
  c2 = c2
  l1 = l1
  l2 = l2
  l3 = l3
  p1 = p1
  r1 = r1
  r2 = r2
  Tabs <- MCTabs
  Keys <- MCKeys
  LeavesTime = TRUE
  LoadsAlone = FALSE
  MaxChanges = 3
  MaxLoads = 3
  Capacity = 2
  Paths <- MCPaths
  Motion <- MCMotion
  Components <- MCComponents
  MaxValue = 1
  MaxWatches = 3
  Links <- MCLinks
  Ports <- MCPorts
  MaxFaults = 1
  MaxUnplugs = 1
  Relays <- MCRelays
  MaxLosses = 3
PROPERTIES NothingIsWiped
CHECK_DEADLOCK FALSE
