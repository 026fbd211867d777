----------------------------- MODULE MCChannels -----------------------------
(* A number, a page, one delivery posted any number of times, two calls. *)
EXTENDS Channels
=============================================================================
