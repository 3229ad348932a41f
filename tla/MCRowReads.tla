----------------------------- MODULE MCRowReads ------------------------------
(* A dataset with a column of numbers, and one with a column of choices    *)
(* under the same header and one of flags.  Low and High are numbers and   *)
(* stand for false and true, Word is neither; Low occurs in High.          *)
EXTENDS RowReads, TLC

CONSTANTS Header, Flag, Low, High, Word

AllCells == {Low, High, Word}
Columns == (Header :> AllCells) @@ (Flag :> {Low, High})
TwoSchemas == <<Header :> "ordered", (Header :> "choice") @@ (Flag :> "boolean")>>
Numbers == (Low :> 1) @@ (High :> 2) @@ (Word :> None)
Alphabet == (Low :> 1) @@ (High :> 2) @@ (Word :> 3)
Contained == {<<c, c>> : c \in AllCells} \cup {<<High, Low>>}
FalseAndTrue == {{Low}, {High}}

Filter(header, values, operator) ==
    [header |-> header, values |-> values, operator |-> operator]
On(value, operator) == {Filter(Header, <<value>>, operator)}

List(d, words, filters, sort, descending, by) ==
    [dataset |-> d, words |-> words, filters |-> filters, sort |-> sort,
     descending |-> descending, by |-> by]

SomeListings ==
    {List(1, None, {}, Header, TRUE, "person"),
     List(1, None, On(Low, "above"), Header, FALSE, "person"),
     List(2, Low, {}, "row_number", FALSE, "client"),
     List(2, None, {Filter(Header, <<Low, Word>>, None)}, Flag, FALSE, "client")}

SomeSearches ==
    {[scope |-> None, words |-> Low, filters |-> {}],
     [scope |-> 2, words |-> Low,
      filters |-> On(High, None) \cup {Filter(Flag, <<Low>>, None)}]}
=============================================================================
