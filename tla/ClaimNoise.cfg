SPECIFICATION Spec
CONSTANTS
  Value <- NoisyZeros
  MaxLen = 1
  Caps <- MCCaps
  Chunk = 2
  Digest <- MCDigest
  Modulus = 64
  BitXor <- MCXor
INVARIANT ClaimNoiseIgnored
CHECK_DEADLOCK FALSE
