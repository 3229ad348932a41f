SPECIFICATION AssetsSpec
CONSTANTS
    Large = Large
    Small = Small
    Rows = {r1}
    Columns = {A, B}
    Keys <- TwoKeys
    Named <- OneThumbnail
    Clients = {c1, c2}
    Blank = Blank
    Space = Space
    Nothing = Nothing
    Limit = 1
    Width = 1
INVARIANTS
    AssetsHaveFiles
