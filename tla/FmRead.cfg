SPECIFICATION MCSpec
CONSTANTS
  Looked = {"key file", "frame", "packet", "bundle", "lines", "base64", "duration"}
  MaxInput <- MCMaxInput
  Makers = {m1, m2}
  Loaders = {r1, r2}
  MaxPowerLosses = 1
  NoFile = NoFile
  Zeros = Zeros
  k1 = k1
  k2 = k2
  h1 = h1
  h2 = h2
  Keys <- MCKeys
  Hosts <- MCHosts
  TextLines <- MCTextLines
  MaxFrameSize = 11
  FrameBytes <- MCFrameBytes
  Base = 7
  HelloMagic <- MCMagic
  HelloVersion = 0
  U64Len = 2
  DigestLen = 1
  PacketKeyLen = 1
  EdSigLen = 1
  MlDsaSigLen = 2
  Sample <- MCSample
  Radix = 2
  KeyMagic <- MCMagic
  KeyVersion = 1
  U32Len = 2
  EdKeyLen = 2
  Pad = Pad
  Invalid = Invalid
  Characters <- MCCharacters
  Plus = Plus
  LetterS = s
  LetterM = m
  LetterH = h
  Stray = Stray
  Error = Error
  Panic = Panic
  MaxU64 = 8191
  Minute = 60
  Hour = 3600
  ArgumentChars <- MCArgumentChars
INVARIANTS
  OnlyWholeKeys
  ReportedKept
  OneIdentity
  FramesApart
  GoodResidue
  OneBitTold
  PacketsAsWritten
  KeysAsWritten
  AuthorizedAsListed
  KnownAsListed
  FingerprintsWhatIsUsed
  DecodesBits
  AcceptedIsMeant
\* The longest inputs, and processes that are done, have no successor.
CHECK_DEADLOCK FALSE
