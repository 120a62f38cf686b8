SPECIFICATION Spec
CHECK_DEADLOCK FALSE
CONSTANTS
    Components <- MCComponents
    Letters <- MCLetters
    OptionTexts <- MCOptionTexts
    Uses <- MCUses
    MaxText = 1
    MaxTimers = 1
    MaxHeld = 2
INVARIANTS TypeOK ChipsSound ListFollowsField  SelectSound
PROPERTY UnknownNeverGrows
