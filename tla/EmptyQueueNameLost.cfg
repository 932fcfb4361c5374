CONSTANTS
    ShortBits = 6
    Priorities <- I16Priorities
    AskedPriorities <- I32Priorities
    AskedAttempts <- I32Attempts
    QueueNames = {"", "parallel", "q1"}
    Messages <- Texts
    ShownBy = "Display"
    Unset = Unset
    GraphileAttempts = 25
    MaxRounds = 1
SPECIFICATION Spec
PROPERTIES SerialStaysSerial
CHECK_DEADLOCK FALSE
