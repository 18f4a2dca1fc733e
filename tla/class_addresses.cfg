\* Two functions of any class on one device.
CONSTANTS
  Parts = {"build"}
  Targets = {0, 1}
  Alts = {0, 1, 2}
  ImageLengths = {1, 2, 3}
  BlockNumbers = 4
  MaxStrays = 2
  BackendMayFail = TRUE
  MaxDownloads = 2
  NStores = 2
  Listing <- MtpListing
  MaxHandles = 3
  StoreMayFail = TRUE
  Classes = {"cdc", "hid", "dfu", "mtp", "bt", "uac", "uvc"}
  MaxFuncs = 2
  LastNumber = 4
  MicLengths = {0, 1, 2}
  MaxPackets = 2
  MaxSamples = 5
  FrameCap = 9
  FrameLengths = {0, 2, 3}
  Requests = {1, 2, 3, 4}
  UrbPackets = 2
  MaxFrames = 3
  Formats = {0, 1, 2}
  AclLengths = {0, 2, 4, 5}
  AclHeader = 4
  ReasmMax = 8
  MaxUrb = 4
  MaxAcl = 4
  Codings <- MCCodings
  InputMax = 2
  MaxReport = 3
  MaxReports = 3
  Loggers = {"a", "b"}
  MaxLogged = 2
  MaxOpens = 2
  EnvAsks = TRUE
  Devids = {1, 2, 3}
  MapSlots = 2
SPECIFICATION Spec
CHECK_DEADLOCK FALSE
INVARIANT AddressesApart
