SPECIFICATION LiveSpec
PROPERTIES
    RecordingEnds AutomaticSettles ServerSettles StreamsEnd SessionsEnd RecoveryEnds
    PassEnds
CHECK_DEADLOCK FALSE
