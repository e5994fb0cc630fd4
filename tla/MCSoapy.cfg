\* Two threads that activate, pause and configure while the worker streams and a third reads. The queue
\* holds one buffer of two samples, a read asks for three; buffers may be dropped for want of space.
CONSTANTS
  Streams = {s1}
  NoStream = NoStream
  Controllers = {c1, c2}
  NoThread = NoThread
  Counts = {2}
  Wants = {3}
  QueueLimit = 2
  MaxTime = 6
SPECIFICATION FairSpec
INVARIANTS
  OnlyActiveWorks
  RateSettled
  QueueInOrder
  OneStretch
PROPERTIES
  CallsReturn
