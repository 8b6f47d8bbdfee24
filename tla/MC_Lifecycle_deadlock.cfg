\* Expiry rounds of two entries: the second db.mu.Lock blocks on the first.
CONSTANTS
  SyncerOn = TRUE
  ExpirerOn = TRUE
  MaxExpired = 2
  MaxMods = 3
SPECIFICATION Spec
PROPERTY CloseReturns
\* After Close the exited goroutines and the returned client take no steps.
CHECK_DEADLOCK FALSE
