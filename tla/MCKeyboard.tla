----------------------------- MODULE MCKeyboard -----------------------------
(* The keyboard driver with a ring of three slots, of which two can be filled, *)
(* and every kind of key.                                                      *)
EXTENDS Keyboard

MCKeys == Scancodes
=============================================================================
