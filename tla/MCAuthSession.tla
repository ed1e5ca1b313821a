---------------------------- MODULE MCAuthSession ----------------------------
(* Instances of AuthSession for TLC.  No step compares two connections.  The  *)
(* patterns are a secured one and main.cpp's, which matches what the literal  *)
(* paths and the first pattern match too.                                     *)
EXTENDS AuthSession, TLC

MCRegexRoutes ==
    << [matches |-> {"/report"}, method |-> "post", secure |-> TRUE],
       [matches |-> Paths \cup {"/report"}, method |-> "any", secure |-> FALSE] >>

LineSymmetry == Permutations(Lines)
=============================================================================
