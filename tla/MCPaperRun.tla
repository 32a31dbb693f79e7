----------------------------- MODULE MCPaperRun -----------------------------
(***************************************************************************)
(* Small instances of PaperRun: three or four bars around a price of 10    *)
(* with a stop of 2, and a verdict that vetoes, halves or allows.          *)
(***************************************************************************)
EXTENDS PaperRun

Shape(o, h, l, c) == [open |-> o, high |-> h, low |-> l, close |-> c]
Form(side, stop, target) == [side |-> side, stop |-> stop, target |-> target]
OrderForm(type, price, side, stop, target, bars, above, below) ==
  [type |-> type, price |-> price, side |-> side, stop |-> stop, target |-> target,
   validBars |-> bars, above |-> above, below |-> below]

ThreeBars == 1..3
FourBars == 1..4
NoBars == {}
Drop == Shape(10, 10, 6, 7)
Flat == Shape(10, 10, 10, 10)
Dip == Shape(11, 11, 10, 10)
AllAtTen == [t \in Times |-> 10]
ThirdAtEleven == [t \in Times |-> IF t = 3 THEN 11 ELSE 10]
Rise == Shape(11, 16, 11, 15)
TwoOpens == {Flat, Drop, Dip, Rise}
Drops == {Drop}
FlatOrDrop == {Flat, Drop}
NoForms == {}
DerivedLong == {Form("Long", None, None)}
PostedLong == {Form("Long", 8, None)}
BuyLimit == {OrderForm("Limit", 9, "Long", 7, 12, 2, 12, None)}
LowQuote == {[bid |-> 8, ask |-> 9]}
=============================================================================
