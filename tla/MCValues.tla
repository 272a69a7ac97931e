------------------------------ MODULE MCValues ------------------------------
(* Values with integers of 32 and of 8 values. *)
EXTENDS Values

CONSTANTS Word, Bytes, Real

MCTexts == {Empty, NullText, Word}
MCBlobs == {Empty, Bytes}
MCReals == {Real}
=============================================================================
