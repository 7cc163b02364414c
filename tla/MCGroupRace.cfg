CONSTANTS
  a = a
  b = b
  t1 = t1
  t2 = t2
  t3 = t3
  t4 = t4
  t5 = t5
  None = None
  Devices = {a, b}
  Senders = {a}
  Tasks = {t1, t2, t3, t4}
  Chains = {t1, t2, t3, t4}
SPECIFICATION FairSpec
CHECK_DEADLOCK FALSE
PROPERTIES
  NotFoundMeansNotExchanged
