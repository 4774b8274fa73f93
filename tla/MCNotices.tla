----------------------------- MODULE MCNotices ------------------------------
(* The notices over two pages, of one product in either case.              *)
EXTENDS Notices

Page(code, list, stock) ==
    [code |-> code, variant |-> "King", stock |-> stock, list |-> list,
     discounts |-> <<>>, reported |-> TRUE, quoted |-> "any",
     delivery |-> [text |-> "", channel |-> "delivery", date |-> None]]

McPages == {Page("A", 8, TRUE), Page("a", 6, FALSE)}

McFold == [code \in {"A", "a"} |-> "a"]

McFirstDay == Ordinal(2024, 1, 1)
=============================================================================
