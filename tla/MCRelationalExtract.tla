------------------------- MODULE MCRelationalExtract -------------------------
(* RelationalExtract with two orders and documents in which GUIDs are        *)
(* missing, repeated in one document, and shared by the two orders.          *)
EXTENDS RelationalExtract

No == {}

P(dict, guid, place) == [dict |-> dict, guid |-> guid, place |-> place]
Party(guid, name, said) == [dict |-> TRUE, guid |-> guid, name |-> name, said |-> said]
Loan(guid, lender, amount, financed) ==
  [dict |-> TRUE, guid |-> guid, lender |-> Party(lender, "bank", ""), amount |-> amount,
   financed |-> financed]

Empty == [Properties |-> <<>>, Buyers |-> <<>>, Sellers |-> <<>>, Lenders |-> <<>>,
          TitleCompanies |-> <<>>, Others |-> <<>>, Loans |-> <<>>]

\* One of each, all with a GUID
Regular ==
  [Empty EXCEPT !.Properties = <<P(TRUE, {"a"}, "here")>>,
                !.Buyers = <<Party({"ann"}, "Ann", "")>>,
                !.Loans = <<Loan({"l"}, {"bank"}, {5}, {5})>>]

\* A property, a loan and a lender twice; an amount that is zero, and one that is not there
Repeated ==
  [Empty EXCEPT !.Properties = <<P(TRUE, {"a"}, "here"), P(TRUE, {"a"}, "there")>>,
                !.Sellers = <<Party({"bob"}, "Bob", ""), Party(No, "Al", "")>>,
                !.Loans = <<Loan({"l"}, {"bank"}, {0}, {3}), Loan({"l"}, {"bank"}, No, No)>>]

\* No GUIDs, an entry that is no object, and another who is said to be a buyer
Anonymous ==
  [Empty EXCEPT !.Properties = <<P(FALSE, No, ""), P(TRUE, No, "there")>>,
                !.Buyers = <<Party(No, "Ann", "")>>,
                !.Others = <<Party(No, "Bob", "BUYER")>>,
                !.Loans = <<Loan(No, No, {0}, {0}), Loan(No, No, {7}, No)>>]

\* A buyer who also sells, a lender that is a party, loans that come to zero
Doubled ==
  [Empty EXCEPT !.Properties = <<P(TRUE, {"b"}, "there")>>,
                !.Buyers = <<Party({"ann"}, "Ann", "")>>,
                !.Sellers = <<Party({"ann"}, "Anne", "")>>,
                !.Lenders = <<Party({"bank"}, "Bank", "")>>,
                !.Loans = <<Loan({"l"}, {"bank"}, {0}, {0})>>]

\* A lender that a section mentions, and another that only its loan does
Lent ==
  [Empty EXCEPT !.Lenders = <<Party({"bank"}, "Bank", "")>>,
                !.TitleCompanies = <<Party({"title"}, "Title", "")>>,
                !.Others = <<Party(No, "Eve", "ATTORNEY")>>,
                !.Loans = <<Loan({"k"}, {"bank"}, {5}, No), Loan(No, {"fund"}, {4}, {5})>>]

MCPlans == [o \in Orders |->
              IF o = "o1" THEN {Empty, Regular, Repeated, Anonymous, Doubled, Lent}
                          ELSE {Regular, Anonymous, Lent}]

=============================================================================
