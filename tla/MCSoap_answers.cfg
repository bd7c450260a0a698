\* Every kind of result in every notation, read to its end or damaged on the way.
CONSTANTS
  Blank = "blank"
  DefaultDelay = 2000
  PasswordKeys = {"ftp_password", "old_password", "show_password"}
  Answers <- AllAnswers
  Bodies <- AllBodies
  Number <- Numbers
  Oversize <- Oversizes
SPECIFICATION UseSpec
INVARIANTS
  SoapTypeOK
  AnswerAsMeant
  NoGuessedTree
  ReadAsWritten
  DamageIsNoticed
  WindowAsReported
  RecordsAsSent
  IdAsSent
  SecretsHidden
CHECK_DEADLOCK FALSE
