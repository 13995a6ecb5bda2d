-------------------------- MODULE MCTransmissionApp -------------------------
(* An instance of TransmissionApp for TLC; README discusses the bounds.    *)
EXTENDS TransmissionApp

\* One number per connection: none of them waits for a number.
MCNumbers == 1 .. 2
=============================================================================
