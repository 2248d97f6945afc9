---------------------------- MODULE MCServerUnix ----------------------------
(* Small instances of ServerUnix for TLC. *)
EXTENDS ServerUnix

CONSTANTS c1, c2, p1, p2

OneClient == {c1}
TwoClients == {c1, c2}
OnePid == {p1}
TwoPids == {p1, p2}

=============================================================================
