\* The suffixes when a read and a doorbell meet.
CONSTANTS
  m1 = m1  m2 = m2
  r1 = r1  r2 = r2
  d1 = d1
  NoFile = NoFile
  Messages = {m1, m2}
  Readers = {r1}
  Doorbells = {d1}
SPECIFICATION MailboxSpec
CHECK_DEADLOCK FALSE
INVARIANTS SuffixIsReceipt
