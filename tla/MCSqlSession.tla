---------------------------- MODULE MCSqlSession ----------------------------
(* One statement for each of the four calls. *)
EXTENDS SqlSession, TLC

CONSTANTS get1, query1, json1, exec1

MCQueries == {get1, query1, json1, exec1}
MCOp == get1 :> "get" @@ query1 :> "query" @@ json1 :> "get_json" @@ exec1 :> "exec"

=============================================================================
