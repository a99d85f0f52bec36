CONSTANTS
    Lines <- SomeLines
    MaxChord = 2
SPECIFICATION ScreensSpec
INVARIANTS
    RepeatsInTime
    TextInView
PROPERTIES
    AnswersAreMeant
