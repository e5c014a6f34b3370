SPECIFICATION Spec
CONSTANTS
  Procs = {p1, p2}
  Keks = {k1, k2}
  Selectors = {primary, backup}
  Deks = {d1, d2}
  MayOverlap <- Careful
  Contexts <- MCContexts
  NonceSize = 2
  TagSize = 2
  NoBlob = NoBlob
  Garbage = Garbage
  NoDek = NoDek
  Idle = Idle
SYMMETRY Symmetry
INVARIANTS TypeOK OneDek RekeyedAsStored 
PROPERTIES VaultSpec DestroyErases CheckedDestroyMatches
