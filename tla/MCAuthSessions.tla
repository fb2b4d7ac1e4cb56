---------------------------- MODULE MCAuthSessions ----------------------------
(* AuthSessions with two requests at a time.                               *)
EXTENDS AuthSessions, TLC

Symmetric == Permutations(Clients) \union Permutations(Passwords) \union Permutations(Tokens)
=============================================================================
