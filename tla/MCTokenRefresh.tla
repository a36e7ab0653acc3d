--------------------------- MODULE MCTokenRefresh ---------------------------
(* Two nodes, one refresh of each login and one new login.                  *)
EXTENDS TokenRefresh

CONSTANTS n1, n2

MCNodes == {n1, n2}

=============================================================================
