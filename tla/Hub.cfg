\* Two sockets, two publishing threads, events that overlap.
CONSTANTS
  Sockets = {s1, s2}
  t1 = t1
  t2 = t2
  Topics <- MCTopics
  Default = t1
  Queries <- MCQueries
  Publishers = {w1, w2}
  Free = Free
  MaxEvents = 2
SPECIFICATION FairSpec
INVARIANTS TypeOK TablesMirror ExactlyOnceInOrder
PROPERTIES ImplementsFairTopicBus
CHECK_DEADLOCK FALSE
