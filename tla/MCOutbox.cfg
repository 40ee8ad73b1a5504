SPECIFICATION FairSpec
CONSTANTS
  c1 = c1  c2 = c2
  k1 = k1  k2 = k2  kOld = kOld
  s1 = s1  s2 = s2
  d1 = d1  d2 = d2
  NoReceipt = NoReceipt
  NoDigest = NoDigest
  Nobody = Nobody
  Clients <- MCClients
  Claims <- MCClaims
  LegacyClaims <- MCLegacyClaims
  Subjects <- MCSubjects
  Requests <- MCRequests
INVARIANTS StoreInv ExactlyOnce AnswersAreBacked
PROPERTIES ImplementsStore EveryCallEnds
