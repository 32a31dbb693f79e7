---------------------------- MODULE MCPaperBook -----------------------------
(***************************************************************************)
(* Small instances of PaperBook.  Prices sit around 10 with a stop of 2, so *)
(* one bar can touch a stop, gap over it, reach a target or do neither.    *)
(***************************************************************************)
EXTENDS PaperBook

Shape(o, h, l, c) == [open |-> o, high |-> h, low |-> l, close |-> c]
Quote(b, a) == [bid |-> b, ask |-> a]
Form(side, stop, target) == [side |-> side, stop |-> stop, target |-> target]
OrderForm(type, price, side, stop, target, bars, above, below) ==
  [type |-> type, price |-> price, side |-> side, stop |-> stop, target |-> target,
   validBars |-> bars, above |-> above, below |-> below]

FiveBars == 1..5

Flat == Shape(10, 10, 10, 10)
GapDown == Shape(6, 7, 5, 6)

FlatsAndGaps == {Flat, GapDown}

BothSides == {Form("Long", None, None), Form("Short", 12, None)}

BuyLimit == {OrderForm("Limit", 9, "Long", 7, 12, 2, 12, None)}
SellStop == {OrderForm("Stop", 9, "Short", 11, None, 2, None, 6)}
BuyLimitOrSellStop == BuyLimit \cup SellStop

LowOrHighQuote == {Quote(8, 9), Quote(12, 13)}

NoBars == {}
BarThree == {3}

=============================================================================
