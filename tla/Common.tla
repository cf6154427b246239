------------------------------- MODULE Common -------------------------------
(***************************************************************************)
(* What the client-side modules share: Python's None, and the union of     *)
(* tables.                                                                 *)
(***************************************************************************)
CONSTANT None

(* The entries of all the tables; no name is in two of them. *)
Merged(tables) ==
    [name \in UNION {DOMAIN table : table \in tables} |->
        (CHOOSE table \in tables : name \in DOMAIN table)[name]]

=============================================================================
