----------------------------- MODULE MCStorage -----------------------------
(***************************************************************************)
(* A small instance of Storage for TLC: arrays of no, one and two bytes,   *)
(* at any offset up to one behind the longest file.                        *)
(***************************************************************************)
EXTENDS Storage

SomeBytes == {<<>>, <<1>>, <<2, 3>>}

AnyOffset == 0 .. MAX_FILE_SIZE + 1

=============================================================================
