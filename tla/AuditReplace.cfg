SPECIFICATION Spec
CONSTANTS
    ConnectTimeout = 1
    WriteTimeout = 1
    ReadTimeout = 1
    Ids = 2
    MaxData = 1
PROPERTY
    ReplaceTellsFalse
