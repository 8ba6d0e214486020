SPECIFICATION Spec
CONSTANTS
  l1 = l1  l2 = l2  d1 = d1  c1 = c1  c2 = c2
  t1 = t1  t2 = t2  t3 = t3  s1 = s1  s2 = s2  s3 = s3  s4 = s4
  Bootstrap <- OneSeed
  Discoverable = {}
  Callers = {c1, c2}
  Publishers = {c1, c2}
  Tasks = {t1, t2}
  Sessions = {s1, s2}
  Disco = Disco
  Closer = Closer
  NoSession = NoSession
  NoLink = NoLink
  MaxFailures = 1
  MaxLinks = 0
  Replication = 1
  RandomOrder = FALSE
  Applications = {{c1, c2}}
  Discovery = {FALSE}
  MultiThread = TRUE
SYMMETRY Symmetry
INVARIANT NoOrphan
