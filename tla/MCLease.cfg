CONSTANTS
  a1 = a1
  a2 = a2
  g1 = g1
  n1 = n1
  n2 = n2
  Addr = {a1, a2}
  Gateway = {g1}
  NoGateway = NoGateway
  Dns = {n1, n2}
  NoDns = NoDns
  Offers <- MCOffers
  Duration = {6, 9}
  Forever = 9
  Renewal = {0, 1, 7}
SPECIFICATION FairSpec
INVARIANTS
  TypeOK
  AddressCovered
  KernelMatchesLease
  NeverSleepsPastExpiry
PROPERTY LostRecovers
