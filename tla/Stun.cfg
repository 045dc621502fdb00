SPECIFICATION StunSpec
CONSTANTS
    Servers <- MCServers
    Own = {1, 2}
    Unnamed = {2}
    Others <- MCOthers
    MaxRounds = 1
    MaxDups = 1
INVARIANTS Classified ParserFinds VerdictTrue
CHECK_DEADLOCK FALSE
