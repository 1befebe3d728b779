---------------------------- MODULE MCPaperTrading ----------------------------
(***************************************************************************)
(* Quotes for the run of PaperTrading.  Each is there for a decision: the  *)
(* name says which.  The mid prices of Contango show more basis than its   *)
(* fills have.                                                             *)
(***************************************************************************)
EXTENDS PaperTrading, TLC

At(price, depth) == [price |-> price, depth |-> depth]

\* Two levels on each side of a mid price.
Book(mid, near, far) ==
    [asks |-> <<At(mid + 1, near), At(mid + 2, far)>>,
     bids |-> <<At(mid - 1, near), At(mid - 2, far)>>,
     mid |-> mid]

QuoteOf(spot, futures, funding) == [spot |-> spot, futures |-> futures, funding |-> funding]

Paying    == QuoteOf(Book(100, 4, 8), Book(100, 4, 8), 2100)
PayingLow == QuoteOf(Book(95, 2, 5), Book(95, 8, 2), 2500)
Backward  == QuoteOf(Book(100, 4, 8), Book(97, 4, 8), 2600)
Contango  == QuoteOf(Book(100, 4, 8), Book(102, 4, 8), 1600)
TooSmall  == QuoteOf(Book(100, 1, 1), Book(100, 1, 2), 2200)
Faded     == QuoteOf(Book(100, 4, 8), Book(100, 4, 8), 0)
Deferred  == QuoteOf(Book(100, 4, 8), Book(103, 4, 8), 0)
Widened   == QuoteOf(Book(100, 4, 8), Book(110, 4, 8), 1900)
Lost      == QuoteOf(Book(100, 4, 8), Book(125, 4, 8), 2300)
ThinPerp  == QuoteOf(Book(100, 4, 8), Book(100, 1, 1), 0)
ThinSpot  == QuoteOf(Book(100, 1, 1), Book(100, 4, 8), 0)

MCQuotes == {Paying, PayingLow, Backward, Contango, TooSmall, Faded, Deferred,
             Widened, Lost, ThinPerp, ThinSpot}

\* The settings of the run fit each other and the quotes.
ASSUME MCSettings == SafetyCovers /\ MarginCovers /\ ThresholdsApart

Symmetry == Permutations(Bases)

=============================================================================
