SPECIFICATION Spec
CONSTANTS
  XmlDocs <- MCXmlDocs
  CF_UID = "CF$UID"
  JsonDocs <- MCJsonDocs
  OpenStepDocs <- MCOpenStepDocs
  FirstTokens = 2
  MoreTokens = 1
  MaxFailures = 1
  MaxInt = 19
  MaxNesting = 3
  NULL = NULL
INVARIANTS PathAgrees TokensAgree DepthAgrees NothingLeaked ReadsTheText KeptByConversion
           WrittenReadsBack
PROPERTIES Termination
CHECK_DEADLOCK FALSE
