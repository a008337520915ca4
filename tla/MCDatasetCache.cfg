CONSTANTS
  Procs = {p1, p2}
  Inodes = {i1, i2, i3}
  NoFile = NoFile
  NBlocks = 2
SPECIFICATION Spec
SYMMETRY InodeSymmetry
INVARIANTS TypeOK UndisturbedCopyVerified HonestDownloadSucceeds
