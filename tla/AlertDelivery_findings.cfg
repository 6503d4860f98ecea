\* Each of these is violated; TLC stops at the first it meets.
SPECIFICATION Spec
CONSTANTS
  Path <- ScanPath
  Fingerprint <- ScanFingerprint
  SignalOf <- ScanSignalOf
  PathOf <- ScanPathOf
  CategoryOf <- ScanCategoryOf
  ConfiguredBots <- MCBots
  Cooldown = 1
  AlertExpiry = 1
  AlertMaxRetries = 2
  TelegramMaxRetries = 2
  RecoverLimit = 1
  MaxAlerts = 2
  MaxTime = 3
  MaxCrashes = 1
INVARIANTS
  OneActivePerFingerprint
  UnconfiguredStaysOpen
PROPERTIES
  ExpiryKeepsSent
