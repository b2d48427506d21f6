\* Three keys and four nodes, so that a cleared table leaves nodes behind and
\* allocation eventually fails; two policy threads clear while packets are looked
\* up, the cache is saved and freed.
SPECIFICATION FairSpec
CONSTANTS
  Keys = {k1, k2, k3}
  Nodes = {n1, n2, n3, n4}
  Clearers = {c1, c2}
  Main = main
  Nil = nil
INVARIANT TableOwnsItsNodes NoReadAfterFree LockedTableIsValid ShutdownSnapshotFits
PROPERTY ShutdownCompletes
CHECK_DEADLOCK FALSE
