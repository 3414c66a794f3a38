CONSTANTS
  Files = {f1, f2}
  InLibrary = {f1}
  Browser <- MCBrowser
  Logins <- MCLogins
  Storages <- MCStorages
  Silent = TRUE
SPECIFICATION Spec
INVARIANTS
  ReportIsTrue
