\* The claim of ralfinfo.cpp:249.
SPECIFICATION Spec
CONSTANTS
  CertFile = c
  Files = {f1}
  NoSigner = nobody
INVARIANT VerifiedWhenProvided
