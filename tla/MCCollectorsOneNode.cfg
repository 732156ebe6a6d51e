\* Two NVIDIA GPUs, two of AMD, one of Intel; DRM has two numbers for the three
\* cards that need one, and a clock may be above its maximum.
SPECIFICATION Spec
CONSTANTS
  Gpus = {1, 2, 3, 4, 5}
  VendorOf <- MCVendorOf
  CardNumbers = {0, 1}
  NoCard = NoCard
  Freqs = {1, 2}
  MaxReloads = 1
INVARIANTS
  TypeOK
  SnapshotIsComplete
  IndexIsTheUuid
  NVMLBalanced
