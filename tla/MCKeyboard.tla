----------------------------- MODULE MCKeyboard -----------------------------
(***************************************************************************)
(* Keyboard for TLC.  Three slots show a ring that is empty, in between,   *)
(* full, and wrapped in every position; the keys are one for each way the  *)
(* decoder treats a code.  That two shift keys share a flag is covered by  *)
(* the proofs, which hold for every set of keys.                           *)
(***************************************************************************)
EXTENDS Keyboard

MCKeys == {"lshift", "ctrl", "d"}
=============================================================================
