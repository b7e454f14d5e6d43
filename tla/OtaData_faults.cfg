CONSTANTS
    Word = 2
    FlashLen = 24
    Faults = {"erase", "head", "mid", "tail", "whole"}
    IMAGE_WRITE_SIZE = 4
    ERASE_SIZE = 8
    BankLen = 16
    Totals <- MCTotals
    MaxPack = 9
    Uint = 128
SPECIFICATION FairSpec
INVARIANTS PrefixInFlash CellsRespected
PROPERTIES Completes
