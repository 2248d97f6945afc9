----------------------------- MODULE MCServerWin ----------------------------
(* Small instances of ServerWin for TLC. *)
EXTENDS ServerWin

CONSTANTS c1, c2

OneClient == {c1}
TwoClients == {c1, c2}

=============================================================================
