--------------------------- MODULE MCSignalChain ---------------------------
(* An instance of SignalChain for TLC. *)
EXTENDS SignalChain

Btc(up, down) == [up |-> up, down |-> down]
M(btc, eth, breadth) == [btc |-> btc, eth |-> eth, breadth |-> breadth]
Full == [score |-> 80, above |-> 60, advancing |-> 40]

\* Trends that are confirmed, weakly confirmed, not confirmed, too weak, tied
\* and unknown.  The short one is confirmed by an ETH that rises.
MCMarkets == { M(Btc(4, 1), 2, None), M(Btc(5, 0), 1, Full), M(Btc(3, 2), None, None),
               M(Btc(1, 4), 3, None), M(Btc(0, 5), 0, Full), M(Btc(2, 2), 3, Full),
               M(None, 3, None) }

U(symbols, above, advancing) ==
  [btc |-> TRUE, symbols |-> symbols,
   counts |-> [c \in Measures |-> IF c = "advancing" THEN advancing ELSE above]]

\* Scores of exactly 60 (or 59), exactly 50, exactly 41, and too few symbols.
MCUniverses == { U(20, 12, 12), U(20, 10, 10), U(20, 8, 10), U(19, 19, 19) }
=============================================================================
