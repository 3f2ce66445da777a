------------------------------ MODULE MCClick -------------------------------
(* Instance of ClickPlayer for TLC: two callers, one or two tickers.         *)
EXTENDS ClickPlayer
=============================================================================
