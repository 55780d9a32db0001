SPECIFICATION FaultFreeSpec
CONSTANTS
    Threads = {t1}
    Timeouts = {1}
    Unset = Unset
PROPERTY Relocked
