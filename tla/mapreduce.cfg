\* Two jobs over texts of zero to five pieces, a call that goes wrong.
CONSTANTS
    Jobs = {j1, j2}
    Texts <- ShortTexts
    Words = {"x", "y"}
    WordsOf <- TwoWords
    Missing = missing
    MaxFaults = 1
SPECIFICATION Spec
SYMMETRY Symmetry
INVARIANTS TypeOK CountsExact PartsWhole
CHECK_DEADLOCK FALSE
