\* Two AMD cards whose driver is reloaded.
SPECIFICATION Spec
CONSTANTS
  Gpus = {3, 4}
  VendorOf <- MCVendorOf
  CardNumbers = {0, 1}
  NoCard = NoCard
  Freqs = {1, 2}
  MaxReloads = 1
INVARIANT UuidIsThePciAddress
