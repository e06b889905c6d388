SPECIFICATION FairSpec
CONSTANTS
  me = me  em = em  p = p  q = q  qr = qr  ones = ones  zero = zero
  m1 = m1  m2 = m2  m3 = m3
  Addresses <- MCAddresses
  Swap <- MCSwap
  my_ip = me
  AllOnes = ones
  Zero = zero
  Macs = {m1, m2, m3}
  my_mac = my_mac
  Broadcast = Broadcast
  NoMac = NoMac
  FirstMac <- MCFirstMac
  RingSize = 2
  Hosts = {q}
  Targets = {q}
  TABLE_SIZE = 4
  MaxPings = 1
  MaxChatter = 0
PROPERTY
  EveryPingAnswered
CHECK_DEADLOCK FALSE
