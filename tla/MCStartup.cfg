\* Two releases, and two changes or failures.
SPECIFICATION Spec
CONSTANTS
    NULL = NULL
    Configurations <- OneWrong
    Options <- SomeOptions
    Releases = {1, 2}
    FloatLimit = 8
    SpanLimit = 5
    AgeLimit = 4
    MaxChanges = 2
PROPERTIES
    CleanCheckSuffices
    SchemaCompletes
    FailingMessageDies
