SPECIFICATION FairSpec
CONSTANTS
  me = me  em = em  p = p  q = q  qr = qr  ones = ones  zero = zero
  m1 = m1  m2 = m2  m3 = m3
  Addresses <- MCAddresses
  Swap <- MCSwap
  my_ip = me
  AllOnes = ones
  Zero = zero
  Macs = {m1, m2, m3}
  my_mac = my_mac
  Broadcast = Broadcast
  NoMac = NoMac
  FirstMac <- MCFirstMac
  RingSize = 2
  Hosts = {p, q}
  Targets = {p, q}
  TABLE_SIZE = 2
  MaxPings = 2
  MaxChatter = 2
INVARIANTS
  NetTypeOK
  TableSound
  NoMisdelivery
PROPERTIES
  BindingStable
  CompletionJustified
  PingAnswered
\* The user has typed every command and every host is silent.
CHECK_DEADLOCK FALSE
