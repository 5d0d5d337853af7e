CONSTANTS
  Worker = {w1, w2}
  r1 = r1
  r2 = r2
  m1 = m1
  m2 = m2
  home = home
  isp = isp
  free = free
  Radio = {r1, r2}
  Band = {"2g", "5g", "6g"}
  BandOf <- MCBandOf
  OwnerRadio = r1
  Air <- MCAir
  Ssid = {"net"}
  Subnet = {home, isp, free}
  Private = {home, free}
  Candidates <- MCCandidates
  Forms <- MCForms
  Leases <- MCLeases
  Mac = {m1, m2}
  MaxJobs = 4
  None = None
SPECIFICATION Spec
SYMMETRY Symmetry
INVARIANTS
  TypeOK
  UplinkRouted
  FixResolves

  
CHECK_DEADLOCK FALSE
