\* An incumbent that leaves by an exception, and a newcomer.
SPECIFICATION FairSlotSpec
CONSTANTS
    Nobody = Nobody
    Streams = {s1, s2}
PROPERTY SlotContextAlive
CHECK_DEADLOCK FALSE
