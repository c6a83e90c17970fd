----------------------------- MODULE MCOneAtTime -----------------------------
(* Call sites for model checking OneAtTime: two of the same id, two of other *)
(* ids and two without an id.                                                *)
EXTENDS OneAtTime

MCCalls  == 1..6
MCCallId == <<1, 1, 2, 3, 0, 0>>

=============================================================================
