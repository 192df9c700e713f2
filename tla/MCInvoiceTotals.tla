-------------------------- MODULE MCInvoiceTotals --------------------------
(***************************************************************************)
(* Lines for TLC: prices and quantities whose products lie between two     *)
(* cents and halfway, free lines, and values the mapper has to replace.    *)
(***************************************************************************)
EXTENDS InvoiceTotals

Line(quantity, unitPrice, taxRate) ==
    [quantity |-> quantity, unitPrice |-> unitPrice, taxRate |-> taxRate]

SomeLines ==
    {Line(15, 0, 0), Line(15, 10, 200), Line(15, 333, 55), Line(15, 333, 0),
     Line(10, 1000, 200), Line(-10, 127, 55), Line(None, -10, None),
     Line(25, None, 1200), Line(25, 126, 200), None}

PlainHeader == [buyer |-> "two letters", seller |-> "other",
                issueDate |-> "none", dueDate |-> "none"]

\* The usual header, and each field that can be out of range on its own.
SomeHeaders ==
    {PlainHeader,
     [PlainHeader EXCEPT !.buyer = "two characters"],
     [PlainHeader EXCEPT !.seller = "two characters"],
     [PlainHeader EXCEPT !.issueDate = "more digits"],
     [PlainHeader EXCEPT !.issueDate = "four digits", !.dueDate = "more digits"]}

SomeOffsets == {-11, -10, -4, 0, 5, 10, 11, 500}
=============================================================================
