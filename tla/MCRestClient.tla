---------------------------- MODULE MCRestClient -----------------------------
(* The instance of RestClient for TLC.  The service called is                 *)
(* main_example.cpp, which registers literal paths only.                      *)
EXTENDS RestClient

MCNoRegexRoutes == <<>>
=============================================================================
