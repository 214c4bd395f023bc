\* HTML texts of up to four pieces, and texts of up to seven bytes.
SPECIFICATION Spec
CONSTANTS
    Pieces <- SmallPieces
    MaxPieces = 4
    MaxBytes = 7
INVARIANTS
    HtmlTokensAreWords
    CharacterTokensPartition
    TokensInOrder
