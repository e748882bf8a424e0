\* The result of usbws_client_start_session.
SPECIFICATION Spec
CONSTANTS
  MayFail = {}
  ErrorOnDestroy = TRUE
  MaxSigint = 0
INVARIANTS
  EstablishedStays
