CONSTANTS
  Files = {f1, f2}
  InLibrary = {f1}
  Browser <- MCBrowser
  Logins <- MCLogins
  Storages <- MCStorages
  Silent = FALSE
SPECIFICATION Spec
INVARIANTS
  TypeOK
  LoadedAsWritten
  ExportKeepsLogin
  ErrorIsReported
  ReportIsTrue
