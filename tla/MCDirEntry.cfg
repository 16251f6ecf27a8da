\* Entries with names up to the 27-byte limit are written and read back in
\* any order.
CONSTANTS
  Names <- MCNames
  InodeNumbers <- MCInodeNumbers
SPECIFICATION Spec
INVARIANTS TypeOK RoundTrip
