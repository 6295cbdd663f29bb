\* Two enqueues, two reads and a doorbell; all stops when every call has ended.
CONSTANTS
  m1 = m1  m2 = m2
  r1 = r1  r2 = r2
  d1 = d1
  NoFile = NoFile
  Messages = {m1, m2}
  Readers = {r1, r2}
  Doorbells = {d1}
SPECIFICATION MailboxFairSpec
CHECK_DEADLOCK FALSE
INVARIANTS ReturnedOnce
PROPERTIES SentIsAnnounced
