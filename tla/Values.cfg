SPECIFICATION ValuesSpec
CHECK_DEADLOCK FALSE
CONSTANTS
  Lists = {l1, l2}
  Nodes = {n1, n2, n3, n4}
  Data = {a, b}
  Null = null
  MaxCopied = 1
  B64Bytes = {0, 1, 62, 171, 251, 255}
  B64MaxLen = 5
  Block = 16
  WordBytes = 128
  PieceSizes = {0, 1, 7, 8, 16, 25, 50}
  MaxPieces = 3
  TextBytes = {65, 128, 160, 187, 191, 194, 224, 237, 239, 240, 244, 248}
  MaxText = 4
  MaxPiece = 2
  Payloads = {0, 1, 9, 133}
  Chunk = 8
  MaxFrames = 2
  MaxHandshake = 6
  ShortMod = 130
  SizeMod = 140
  UriStarts <- UriBeginnings
  UriPieces <- UriTexts
  UriMaxLen = 7
  BodySize = 2
  Cookies <- SomeCookies
  MaxCookies = 2
  MaxLines = 4
  MaxBody = 1
  SlistOptions = {o1, o2}
  SlistIds = {s1, s2, s3}
  NoSlist = noslist
SYMMETRY Symmetry
INVARIANTS HoldsItsItems OwnedOnce Base64RoundTrip BlocksArePaddedMessage FragmentsJudgedAsWhole FramesWhole UriRoundTrip ResponseIsTheLast LibcurlAgrees
