SPECIFICATION BusFairSpec
CONSTANTS
    Drivers = {"daly", "ats"}
    Daly = "daly"
    Program <- MCProgram
    Master = "bms1"
    Retries = 1
    Turnaround = 2
    Timeout = 4
    Gap <- MCGap
    RetryPause = 4
    Rest = 2
    BackoffInitial = 1
    BackoffMax = 2
    Latest = 4
INVARIANTS AnswersRequest
PROPERTIES AnsweringReported
