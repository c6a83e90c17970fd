------------------------------- MODULE MCStomp -------------------------------
(* Two sends, the two attempts of STOMP_OPTIONS.                              *)
EXTENDS Stomp

CONSTANTS s1, s2

MCCalls == {s1, s2}

=============================================================================
