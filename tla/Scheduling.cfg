SPECIFICATION SchedulingSpec
CONSTANTS
    daily = daily
    weekly = weekly
    None = None
    Tasks = {daily, weekly}
    Matches <- MCMatches
    SlotOf <- MCSlotOf
    SlotsPerDay = 2
    Horizon = 5
 
PROPERTIES OncePerDay NoSilentMiss
