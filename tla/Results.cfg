SPECIFICATION Spec
CONSTANTS
  Value <- MCValue
  MaxLen = 3
  Caps <- MCCaps
  Chunk = 2
  Digest <- MCDigest
  Modulus = 64
  BitXor <- MCXor
INVARIANTS VerdictIsContent ReadIsExact
CHECK_DEADLOCK FALSE
