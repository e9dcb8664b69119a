SPECIFICATION Spec
CONSTANTS
    Items = {1}
    Empty = Empty
    Text = Text
    NaN = NaN
    Inf = Inf
    NegInf = NegInf
    Null = Null
    Unreadable = Unreadable
    Fields <- Typed
    Predictions <- Favorabilities
    Elsewhere <- Records
    MaxOutcomes = 2
INVARIANTS
    CalibrationAgrees
    ScreensAgree
    OutcomesValid
