------------------------------ MODULE MCOffers ------------------------------
(* OfferRows on a small instance.                                          *)
EXTENDS OfferRows

Off(audience, amount) == [audience |-> audience, amount |-> amount, percent |-> None]
Half(audience) == [audience |-> audience, amount |-> None, percent |-> 50]

Text(text, date) == [text |-> text, channel |-> "delivery", date |-> date]

Page(code, stock, list, discounts, reported, quoted, delivery) ==
    [code |-> code, variant |-> "King", stock |-> stock, list |-> list,
     discounts |-> discounts, reported |-> reported, quoted |-> quoted,
     delivery |-> delivery]

Third == Text("3 Jan", [day |-> 3, month |-> 1])
Late == Text("30 Dec", [day |-> 30, month |-> 12])

McPages ==
    {Page("A", TRUE, 8, <<>>, TRUE, "any", Third),
     Page("A", TRUE, 6, <<Off("new_customer", 2)>>, TRUE, "new_customer", Late),
     Page("a", TRUE, 6, <<Off("new_customer", 2), Half("any")>>, TRUE, "returning_customer", Late),
     Page("a", TRUE, 8, <<Off("returning_customer", 2), Half("members")>>, FALSE, "any", Third),
     Page("a", FALSE, None, <<>>, TRUE, "any", Text("", None)),
     Page("a", TRUE, 8, <<Half("new_customer")>>, TRUE, "any", Text("soon", None)),
     Page("B", TRUE, 7, <<Off("new_customer", 2)>>, TRUE, "any", Third),
     Page("B", TRUE, 6, <<>>, TRUE, "returning_customer", Text("", None))}

McFold == [code \in {"A", "a", "B"} |-> IF code = "B" THEN "b" ELSE "a"]

McFirstDay == Ordinal(2023, 12, 30)
=============================================================================
