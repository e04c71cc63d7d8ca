\* Three entries in the directory, each of any kind.
SPECIFICATION Spec
CONSTANTS
  CertFile = c
  Files = {f1, f2, f3}
  NoSigner = nobody
INVARIANTS VerifiedAgainstSource
