CONSTANTS
    Header = Header
    Flag = Flag
    Low = Low
    High = High
    Word = Word
    None = None
    Schema <- TwoSchemas
    Cells <- Columns
    Quantity <- Numbers
    Letters <- Alphabet
    Within <- Contained
    Truths <- FalseAndTrue
    RankOffset = 60
    Listings <- SomeListings
    Searches <- SomeSearches
    PageSize = 1
    Limit = 2
    MaxRows = 3
    MaxHits = 2
    MaxChanges = 2
SPECIFICATION Spec
INVARIANTS
    TypeOK
    ListingsDeliverOnce
    SearchesAnswerWhatMet
    BothWaysFirst
