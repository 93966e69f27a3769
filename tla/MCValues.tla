------------------------------ MODULE MCValues ------------------------------
(* Values for TLC: widths of two, three and four bits, years 1 to 9999 as   *)
(* the instants 4 to 15 in half microseconds.                               *)
EXTENDS Values

Instant(i, offset) == [instant |-> i, offset |-> offset]

MCSample ==
    << V("I32", -4), V("I32", 3), V("I64", -8), V("I64", 1), V("I64", 7), V("Bool", TRUE),
      V("Bool", FALSE), V("Float", "whole"), V("Float", "fraction"), V("Float", "nan"),
      V("Text", "1"), V("Bytes", "b"), V("Uuid", "u"), V("Json", "1"),
      V("Time", Instant(6, 2)), V("Time", Instant(7, 0)), V("Time", Instant(2, 4)),
      V("I64", Null), V("Time", Null), V("Bool", Null) >>

MCForeign ==
    [b \in Backend |->
        IF b = "sqlite"
        THEN << Cell("INTEGER", 2), Cell("INTEGER", 7), Cell("REAL", "inf"),
               Text("Time", Instant(7, 0)), Text("Time", Instant(2, 0)), Text("Text", "x") >>
        ELSE << Cell("INT8", 7), Cell("FLOAT8", "nan"), Cell("TIMESTAMPTZ", Instant(2, 0)) >>]

=============================================================================
