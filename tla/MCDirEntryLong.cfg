\* A 28-byte name, one past the limit: DirEntry::new stores it with no NUL.
CONSTANTS
  Names <- MCLongNames
  InodeNumbers <- MCInodeNumbers
SPECIFICATION Spec
INVARIANT StoredNameTerminated
