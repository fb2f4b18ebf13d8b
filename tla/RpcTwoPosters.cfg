\* Two posters at once.
SPECIFICATION Spec
CONSTANTS
    Call <- TwoPosters
    KindOf <- Kinds
    SenderOf <- Senders
    ProcessOf <- Processes
    TaskOf <- Tasks
    Serial = TRUE
    MaxTries <- Polls
    MaxLoss = 0
\* Every call may have ended.
CHECK_DEADLOCK FALSE
INVARIANT SecretsAreOwn
