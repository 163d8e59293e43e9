SPECIFICATION Spec
CONSTANTS
    MaxNesting = 2
    MaxStray = 0
    Padding <- MCAnyPadding
PROPERTY NewGroupHasNoElse
CHECK_DEADLOCK FALSE
