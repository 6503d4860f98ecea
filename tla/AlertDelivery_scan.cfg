SPECIFICATION FairSpec
CONSTANTS
  Path <- ScanPath
  Fingerprint <- ScanFingerprint
  SignalOf <- ScanSignalOf
  PathOf <- ScanPathOf
  CategoryOf <- ScanCategoryOf
  ConfiguredBots <- MCBots
  Cooldown = 1
  AlertExpiry = 1
  AlertMaxRetries = 2
  TelegramMaxRetries = 2
  RecoverLimit = 1
  MaxAlerts = 2
  MaxTime = 3
  MaxCrashes = 1
INVARIANTS
  TypeOK
  ReissueOnlyAfterExpiry
  CooldownSpacing
  DuplicatesAreLostAcks
PROPERTIES
  SentIsNotResent
  AlertsSettle
