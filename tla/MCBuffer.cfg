\* Every sequence of calls within the bounds, from a new Buffer.
CONSTANTS
  CheapPrepend <- MCCheapPrepend
  InitialSize <- MCInitialSize
  ExtraSize <- MCExtraSize
  MaxContent <- MCMaxContent
  MaxLen <- MCMaxLen
  cr = cr
  lf = lf
  zero = zero
  CR <- cr
  LF <- lf
  Zero <- zero
SPECIFICATION Spec
INVARIANT TypeOK SearchesAgree
PROPERTY ImplementsByteQueue
