\* One phone and two connections, two goroutines that change the
\* game, a queue of one event, two loads in flight and two changes.
SPECIFICATION LiveSpec
CONSTANTS
  c1 = c1
  c2 = c2
  t1 = t1
  t2 = t2
  l1 = l1
  l2 = l2
  Conn = {c1, c2}
  Task = {t1, t2}
  QueueSize = 1
  MaxVersion = 2
  Load = {l1, l2}
  None = None
INVARIANT LiveTypeOK RoomIsLive ClosedHubIsEmpty HiddenIsDisconnected UpToDateAtRest LocksAreHeld
SYMMETRY Symmetry
CHECK_DEADLOCK FALSE
