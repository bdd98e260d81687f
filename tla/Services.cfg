CONSTANTS
  x1 = x1  x2 = x2  x3 = x3  f1 = f1
  Session = {x1, x2, x3}
  Flusher = {f1}
  Nobody = Nobody
  MaxRows = 2
  BatchSize = 2
  Refusals = FALSE
  IoErrors = FALSE
  MaxEvents = 3
  MaxForks = 2
  MaxCrashes = 0
  c1 = c1  c2 = c2  t1 = t1  t2 = t2
  Cap = {c1, c2}
  Task = {t1, t2}
  Capacity = 1
  MaxOps = 4
  MaxErrors = 1
  q1 = q1  s1 = s1  s2 = s2  p1 = p1  p2 = p2
  Quest = {q1}
  Step = {s1, s2}
  Caller = {p1, p2}
  Interval = 1
  MaxKeep = 1
  RingSize = 2
  MaxInputs = 5
  pa = pa  pb = pb  w1 = w1  a1 = a1  a2 = a2
  Peer = {pa, pb}
  Todo = {w1}
  Agent = {a1, a2}
  MaxConcurrent = 1
  MaxClaims = 1
  WindowLen = 1
  LeaseLen = 1
  MaxTime = 1
  MaxCount = 2
  u1 = u1  v1 = v1
  MaxSpawns = 3
  Canceller = {u1}
  Watcher = {v1}
  Reason = {"user", "parent"}
  SwarmLimit = 2
  TaskId = {1, 2, 3}
  NumTasks = 3
  Repeats = {1, 2}
  r1 = r1  k1 = k1  k2 = k2
  Approval = {r1}
  Client = {k1, k2}
  Verdict = {"approve", "reject"}
  MaxVotes = 4
  i1 = i1  i2 = i2  i3 = i3  h1 = h1
  Invoker = {i1, i2, i3}
  Prompt = {h1}
  Limit = 1
  Threshold = 2
  Attempts = 2
  OpenLen = 1
  MaxClock = 1
  MaxInvokes = 3
  d1 = d1  d2 = d2  d3 = d3  m1 = m1  m2 = m2
  Context = {d1, d2, d3}
  CacheUser = {m1, m2}
  CacheSize = 2
  MaxCacheCalls = 5
  g1 = g1  y1 = y1  y2 = y2
  Thread = {g1}
  AppCall = {y1, y2}
  Buckets = 2
  MaxSessions = 2
  MaxDepth = 1
  MaxAppOps = 4
SPECIFICATION ServicesSpec
INVARIANTS
  ServicesInv
  NothingLost ReadsLatest
  CheckpointKept CompletionReported
  NeverUndercounted
  FirstCauseWins
  DagVerdict
  VotesStand
  OneCallPerKey NoWaiterForgotten
  StuckOnlyByFork
CHECK_DEADLOCK FALSE
