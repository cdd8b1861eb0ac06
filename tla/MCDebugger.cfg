SPECIFICATION Spec
CONSTANT MaxSkipStepFrameCount = 2
INVARIANTS TypeOK PausedTogether ClientKnows StopsAreFresh NothingOutlivesDisable ExceptionsAsAsked
PROPERTIES EventsNeedListener StopsEnd ImplementsSession
CHECK_DEADLOCK FALSE
