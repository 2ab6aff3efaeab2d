CONSTANTS
  a = a
  b = b
  sa = sa
  sb1 = sb1
  sb2 = sb2
  n1 = n1
  n2 = n2
  m0 = m0
  m1 = m1
  Users = {a, b}
  Sockets = {sa, sb1, sb2}
  Nodes = {n1, n2}
  Messages = {m0, m1}
  Owner <- MCOwner
  Home <- DevicesHome
  From <- MCFrom
  To <- MCTo
  Backlog <- OneQueued
  MaxQueued = 1
  MaxFaults = 0
  Faults = {}
SPECIFICATION Spec
CHECK_DEADLOCK FALSE
CONSTRAINT SenderStays
INVARIANT AtMostOnce
PROPERTY ImplementsMailbox
