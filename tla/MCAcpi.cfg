\* Regions of 8 and 7 bytes, an RSDP of 4 with a signature of 2, on multiples of
\* 4; up to three RSDPs, and up to four tables, an RSDT listing an RSDT among
\* them.  The kernel stops in a panic or goes on beyond this module.
SPECIFICATION Spec
CONSTANTS
  RegionLength <- MCRegionLength
  SignatureLength = 2
  RsdpLength = 4
  Alignment = 4
  Firmwares <- MCFirmwares
INVARIANTS UsesOnlyVerified DecidesRightly
PROPERTIES Decides
CHECK_DEADLOCK FALSE
