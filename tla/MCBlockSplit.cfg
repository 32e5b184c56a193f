SPECIFICATION SplitSpec
CONSTANTS
  Plain <- MCPlain
  PlainType <- MCPlainType
  PlainSub <- MCPlainSub
  Parents <- MCParents
  TypeOf <- MCTypeOf
  MainSub <- MCMainSub
  RawSub <- MCRawSub
  SubOf <- MCSubOf
  Rest = "rest"
  MaxLength = 2
INVARIANTS
  RegularRoundTrip
  BlockReadsAgree
CHECK_DEADLOCK FALSE
