SPECIFICATION Spec
CONSTANTS
  XmlDocs <- MCXmlDocs
  CF_UID = "CF$UID"
  JsonDocs <- MCJsonDocs
  OpenStepDocs <- MCOpenStepDocs
  FirstTokens = 2
  MoreTokens = 1
  MaxFailures = 0
  MaxInt = 19
  MaxNesting = 3
  NULL = NULL
INVARIANTS OneRootValue
CHECK_DEADLOCK FALSE
