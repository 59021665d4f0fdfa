------------------------------- MODULE Billing -------------------------------
(***************************************************************************)
(* What passes between the gateway and a vendor: the request of a          *)
(* substitute, as Adapters plans it, and what a streamed answer is billed  *)
(* for, the reports that the parser and the accumulators of Streams find   *)
(* in it, at the prices of Prices.                                         *)
(***************************************************************************)
EXTENDS Prices

CONSTANTS
    Done, MaxEventChars, Interesting  \* see Streams

S == INSTANCE Streams
A == INSTANCE Adapters
=============================================================================
