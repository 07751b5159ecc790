SPECIFICATION Spec
CONSTANTS
    discord = discord
    email = email
    Accounts = {}
    Payments = {p}
    Banks = {b}
    Txns = {}
    ChannelOrder <- BothChannels
    MaxOccurs = 1
    MaxToggles = 1
    MaxUnsure = 2
INVARIANTS RepeatedOnlyWhenUnsure SentHasArrived
