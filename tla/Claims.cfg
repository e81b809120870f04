\* The constants are given by the instances.
SPECIFICATION ClaimsSpec
INVARIANT SomeSentenceHolds
CHECK_DEADLOCK FALSE
