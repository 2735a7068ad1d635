\* One peer, two operations in flight, up to two pairing requests.
SPECIFICATION Spec
CONSTANTS
  Devices = {d1}
  Tasks = {t1, t2}
  MaxRequests = 2
INVARIANTS
  TypeOK
  TrustIsProved
  GrantedOnce
