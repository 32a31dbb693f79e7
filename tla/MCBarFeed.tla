----------------------------- MODULE MCBarFeed ------------------------------
(***************************************************************************)
(* Small instances of BarFeed: tapes of a few bars, possibly with gaps.    *)
(***************************************************************************)
EXTENDS BarFeed

Shape(o, h, l, c) == [open |-> o, high |-> h, low |-> l, close |-> c]
Form(side, stop, target) == [side |-> side, stop |-> stop, target |-> target]

FourBars == 1..4
Drop == Shape(10, 10, 6, 7)
Rise == Shape(10, 13, 10, 13)
DropsAndRises == {Drop, Rise}
DerivedLong == {Form("Long", None, None)}
BothSides == {Form("Long", None, None), Form("Short", 12, None)}
AtrLate == 2..5
NoBars == {}
=============================================================================
