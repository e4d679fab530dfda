SPECIFICATION Spec
CONSTANTS
  a = a  e = e  s = s
  Char = {a, e, s}
  Pair = {s}
  Bytes <- ByteLength
  Text <- Texts
  Size = {0, 1, 2, 3, 4, 5, 6, 7, 8}
INVARIANTS NeverOverruns TruncationIsReported LengthSuffices PrefixButLast
PROPERTY CallsReturn
