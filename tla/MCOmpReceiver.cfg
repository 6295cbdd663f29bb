\* Two sessions, a retry of two ticks, one timer that is not cleared and a watch beside
\* the armed one, and a sender at each mailbox.
CONSTANTS
  s1 = s1  s2 = s2
  None = None
  Sessions = {s1, s2}
  MaxTicks = 2
  MaxWatches = 2
  MaxRefused = 1
  MaxSenders = 1
SPECIFICATION ReceiverFairSpec
INVARIANTS MarkerIsAPromise NothingLeaks
PROPERTIES RetryEnds WakeIsOwed
