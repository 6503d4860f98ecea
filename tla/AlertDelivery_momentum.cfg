SPECIFICATION Spec
CONSTANTS
  Path <- MomentumPath
  Fingerprint <- MomentumFingerprint
  SignalOf <- MomentumSignalOf
  PathOf <- MomentumPathOf
  CategoryOf <- MomentumCategoryOf
  ConfiguredBots <- MCBots
  Cooldown = 0
  AlertExpiry = 1
  AlertMaxRetries = 2
  TelegramMaxRetries = 1
  RecoverLimit = 1
  MaxAlerts = 2
  MaxTime = 2
  MaxCrashes = 1
INVARIANTS
  DuplicatesAreLostAcks
PROPERTIES
  SentIsNotResent
