SPECIFICATION FairSpec
INVARIANTS
    ScreenShowsState
    EchoGoneWithPrompt
PROPERTIES
    FeedbackFades
