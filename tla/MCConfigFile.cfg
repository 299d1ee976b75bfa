SPECIFICATION FairSpec
CONSTANTS
  Commands <- TwoCommands
  Paths <- PEM
  KeyPairs <- CertAndKey
  Edits <- Typed
  Flags <- Lines
  Forms <- Filled
  Staged <- Before
INVARIANTS TypeOK CommittedIsValid UpstreamsAsMeant
PROPERTIES FailedStartIsExplained NonInteractiveEditEnds ExistingConfigServes
