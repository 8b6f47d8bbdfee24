\* Syncer and expirer, expiry rounds of one entry: Close returns.
CONSTANTS
  SyncerOn = TRUE
  ExpirerOn = TRUE
  MaxExpired = 1
  MaxMods = 3
SPECIFICATION Spec
PROPERTY CloseReturns
\* After Close the exited goroutines and the returned client take no steps.
CHECK_DEADLOCK FALSE
