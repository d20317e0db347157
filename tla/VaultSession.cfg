SPECIFICATION FairSpec
CONSTANTS
    Process = {serve, cli}
    Serve = serve
    Passwords = {old, new}
    NoVault = NoVault
    NoKey = NoKey
    NoFile = NoFile
    Garbled = Garbled
    Off = Off
    Default = 2
    MaxEpoch = 2
    MaxIdle = 3
    MaxKills = 1
INVARIANTS OneKey PasswordKnown IdleLocks
PROPERTIES StaleHeals
