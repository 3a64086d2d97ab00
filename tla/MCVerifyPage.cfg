\* One page, with or without a session.
SPECIFICATION FairSpec
PROPERTY LinkIsAnswered
CHECK_DEADLOCK FALSE
