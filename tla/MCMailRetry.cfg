CONSTANTS
    MaxMail = 1
    MaxTries = 1
    MaxMishaps = 1
SPECIFICATION MailboxSpec
PROPERTY EachRetryCounts
CHECK_DEADLOCK FALSE
