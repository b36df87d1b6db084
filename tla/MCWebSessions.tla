--------------------------- MODULE MCWebSessions ---------------------------
(* WebSessions with interchangeable handlers. *)
EXTENDS WebSessions, TLC

Symmetry == Permutations(Handlers)
=============================================================================
