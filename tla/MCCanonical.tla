---------------------------- MODULE MCCanonical ----------------------------
(* Characters for TLC: one of each class that some property tells apart.  A *)
(* Letter is left out, as Slash and Bmp without an escape are ordinary too. *)
EXTENDS Canonical

Classes == {Control, Tab, Quote, Slash, Bmp, Astral}
=============================================================================
