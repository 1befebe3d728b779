--------------------------- MODULE MCLegacyFunds ---------------------------
(***************************************************************************)
(* Constant values for the run of LegacyFunds.                             *)
(***************************************************************************)
EXTENDS LegacyFunds

\* Both legs in one currency, or a spot leg paid in the other.
ThePairs == {<<q, q>> : q \in Quotes} \cup {<<q, Home>> : q \in Quotes}

\* All the money is in the home currency.
TheFunds == [q \in Quotes |-> IF q = Home THEN 12 ELSE 0]

TheKind == [m \in Movements |-> "sub"]

=============================================================================
