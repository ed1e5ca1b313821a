------------------------------ MODULE SqlSession ------------------------------
(***************************************************************************)
(* One worker thread's session with one database (sql.cpp, sql.tpp): the   *)
(* thread_local cache of connections, the cache of prepared statements that*)
(* a connection owns, the cursor of each statement, and the calls sql::get,*)
(* query, get_json and exec, each with its loop of two attempts.           *)
(*                                                                         *)
(* Every ODBC function the calls use may report an error.  The code tells  *)
(* two classes of SQLSTATE apart: "link" (HY000, 01000, 08S01), for which  *)
(* the first attempt drops the connection and tries again, and "other".    *)
(* Assumed of the driver: a lost connection is reported as "link"; the     *)
(* driver manager refuses to execute a statement whose cursor is open      *)
(* ("other", 24000) before it looks at the connection; a statement that is *)
(* refused has had no effect; and once it has delivered a column it keeps  *)
(* answering SQL_NO_DATA for it.                                           *)
(***************************************************************************)
EXTENDS Naturals

CONSTANTS
    Queries,   \* the sql texts the handlers use
    Op,        \* which call each is made with
    MaxRows    \* bound of a result's rows

ASSUME OpAssumption == Op \in [Queries -> {"get", "query", "get_json", "exec"}]
ASSUME RowsAssumption == MaxRows \in Nat

SqlStates == {"link", "other"}

VARIABLES
    up,         \* the database accepts connections
    conn,       \* m_connections[db_key]: "none", "live" or "broken"
    stmts,      \* m_statement_cache of that connection
    cursor,     \* statements with an open cursor
    pc,         \* where the thread is: "idle" between two calls, "spin" in
                \* the loop over a column's pieces that does not end
    q,          \* sql_query of the call
    attempt,
    sqlstate,   \* of the exception under way
    rows,       \* rows fetched by this execution
    total,      \* rows of its result
    outcome,    \* how the call ended
    met,        \* history: an ODBC function failed in this attempt
    effects,    \* history: how often the call's statement took effect
    lost,       \* history: the reply to one of these was lost
    refused,    \* history: the database or its driver refused something of the call
    wedged,     \* history: the statement's cursor was open when the call began
    steady      \* history: the database and the last connection held out

vars == <<up, conn, stmts, cursor, pc, q, attempt, sqlstate, rows, total,
          outcome, met, effects, lost, refused, wedged, steady>>
cache == <<conn, stmts, cursor>>
result == <<rows, total>>
history == <<met, effects, lost, refused, wedged, steady>>

\* query and get_json take any failure of SQLFetch for the end of the rows and
\* do not look at what SQLGetData returns.
Lenient == {s \in Queries : Op[s] \in {"query", "get_json"}}

-----------------------------------------------------------------------------

Init ==
    /\ up \in BOOLEAN
    /\ conn = "none" /\ stmts = {} /\ cursor = {}
    /\ pc = "idle" /\ q \in Queries /\ attempt = 1 /\ sqlstate = "other"
    /\ rows = 0 /\ total = 0 /\ outcome = "none"
    /\ met = FALSE /\ effects = 0 /\ lost = FALSE
    /\ refused = FALSE /\ wedged = FALSE /\ steady = TRUE

\* A handler calls get, query, get_json or exec.
Call(s) ==
    /\ pc = "idle"
    /\ pc' = "connect" /\ q' = s /\ attempt' = 1 /\ outcome' = "none"
    /\ rows' = 0 /\ total' = 0
    /\ met' = FALSE /\ effects' = 0 /\ lost' = FALSE
    /\ refused' = FALSE /\ wedged' = (s \in cursor) /\ steady' = up
    /\ UNCHANGED <<up, cache, sqlstate>>

\* check_odbc_error throws.
Throws(e) == pc' = "catch" /\ sqlstate' = e /\ met' = TRUE

\* get_connection: from the cache, or a new one.
Connect ==
    /\ pc = "connect"
    /\ \/ conn # "none" /\ pc' = "prepare" /\ UNCHANGED <<conn, sqlstate, met>>
       \/ conn = "none" /\ up /\ conn' = "live" /\ pc' = "prepare" /\ UNCHANGED <<sqlstate, met>>
       \/ /\ conn = "none" /\ ~up
          /\ \E e \in SqlStates : Throws(e)
          /\ UNCHANGED conn
    /\ UNCHANGED <<up, stmts, cursor, q, attempt, result, outcome,
                   effects, lost, refused, wedged, steady>>

\* get_or_create_statement
Prepare ==
    /\ pc = "prepare"
    /\ \/ q \in stmts /\ pc' = "bind" /\ UNCHANGED <<stmts, sqlstate, met, refused>>
       \/ /\ q \notin stmts /\ conn = "live"
          /\ stmts' = stmts \cup {q} /\ pc' = "bind"
          /\ UNCHANGED <<sqlstate, met, refused>>
       \/ /\ q \notin stmts /\ conn = "live"
          /\ \E e \in SqlStates : Throws(e)
          /\ refused' = TRUE /\ UNCHANGED stmts
       \/ q \notin stmts /\ conn = "broken" /\ Throws("link") /\ UNCHANGED <<stmts, refused>>
    /\ UNCHANGED <<up, conn, cursor, q, attempt, result, outcome,
                   effects, lost, wedged, steady>>

\* SQLBindParameter for each parameter; the driver may refuse one, after it has
\* cached the statement, or notice that the connection is gone.
Bind ==
    /\ pc = "bind"
    /\ \/ pc' = "execute" /\ UNCHANGED <<sqlstate, met, refused>>
       \/ conn = "broken" /\ Throws("link") /\ UNCHANGED refused
       \/ conn = "live" /\ refused' = TRUE /\ \E e \in SqlStates : Throws(e)
    /\ UNCHANGED <<up, cache, q, attempt, result, outcome, effects, lost, wedged, steady>>

\* Bug: exec fetches too.
ExecuteAndFetch ==
    /\ pc = "execute" /\ q \notin cursor /\ conn = "live"
    /\ effects' = effects + 1
    /\ cursor' = cursor \cup {q}
    /\ rows' = 0 /\ total' \in 0..MaxRows
    /\ pc' = IF q \in Lenient THEN "describe" ELSE "fetch"
    /\ UNCHANGED <<up, conn, stmts, q, attempt, sqlstate, outcome,
                   met, lost, refused, wedged, steady>>

\* SQLExecute succeeds.
Execute ==
    /\ pc = "execute" /\ q \notin cursor /\ conn = "live"
    /\ effects' = effects + 1
    /\ cursor' = cursor \cup {q}
    /\ rows' = 0 /\ total' \in 0..MaxRows
    /\ pc' = CASE Op[q] = "exec" -> "close"
               [] Op[q] = "get"  -> "fetch"
               [] q \in Lenient  -> "describe"
    /\ UNCHANGED <<up, conn, stmts, q, attempt, sqlstate, outcome,
                   met, lost, refused, wedged, steady>>

\* SQLExecute fails: the cursor is open, the connection is gone, or the
\* database refuses.
ExecuteFails ==
    /\ pc = "execute"
    /\ \/ q \in cursor /\ Throws("other") /\ UNCHANGED refused
       \/ q \notin cursor /\ conn = "broken" /\ Throws("link") /\ UNCHANGED refused
       \/ /\ q \notin cursor /\ conn = "live"
          /\ \E e \in SqlStates : Throws(e)
          /\ refused' = TRUE
    /\ UNCHANGED <<up, cache, q, attempt, result, outcome, effects, lost, wedged, steady>>

\* The connection breaks while SQLExecute waits: the statement may have taken
\* effect, and nobody can tell.
ExecuteLost ==
    /\ pc = "execute" /\ q \notin cursor /\ conn = "live"
    /\ conn' = "broken" /\ Throws("link")
    /\ \/ effects' = effects + 1 /\ lost' = TRUE
       \/ UNCHANGED <<effects, lost>>
    /\ steady' = (steady /\ attempt = 1)
    /\ UNCHANGED <<up, stmts, cursor, q, attempt, result, outcome, refused, wedged>>

\* fetch_all, fetch_and_build_json: SQLNumResultCols, SQLDescribeCol.
Describe ==
    /\ pc = "describe"
    /\ \/ pc' = "fetch" /\ UNCHANGED <<sqlstate, met, refused>>
       \/ conn = "broken" /\ Throws("link") /\ UNCHANGED refused
       \/ conn = "live" /\ refused' = TRUE /\ \E e \in SqlStates : Throws(e)
    /\ UNCHANGED <<up, cache, q, attempt, result, outcome, effects, lost, wedged, steady>>

\* A row, which the driver may have buffered before the connection broke, and
\* all of its columns, each read in pieces to its end (SqlChunks).
FetchRow ==
    /\ pc = "fetch" /\ rows < total
    /\ rows' = rows + 1
    /\ UNCHANGED <<up, cache, pc, q, attempt, sqlstate, total, outcome, history>>

\* The driver returns the last piece of a column, or the only one, with a warning
\* (SQL_SUCCESS_WITH_INFO) that is no truncation.  The loop asks for another
\* piece, gets SQL_NO_DATA, leaves has_more_chunks as it was and asks again.
FetchSpins ==
    /\ pc = "fetch" /\ rows < total
    /\ pc' = "spin"
    /\ UNCHANGED <<up, cache, q, attempt, sqlstate, result, outcome, history>>

\* SQL_NO_DATA from SQLFetch
FetchEnd ==
    /\ pc = "fetch" /\ rows = total
    /\ pc' = "close"
    /\ UNCHANGED <<up, cache, q, attempt, sqlstate, result, outcome, history>>

\* Bug: get stops at an error too.
FetchFailsQuietly ==
    /\ pc = "fetch"
    /\ met' = TRUE /\ pc' = "close" /\ UNCHANGED sqlstate
    /\ refused' = (refused \/ conn = "live")
    /\ UNCHANGED <<up, cache, q, attempt, result, outcome, effects, lost, wedged, steady>>

\* SQLFetch (or, in get, SQLGetData) fails.  The lenient loops end at a warning
\* of SQLFetch, too.
FetchFails ==
    /\ pc = "fetch"
    /\ IF q \in Lenient
       THEN met' = TRUE /\ pc' = "close" /\ UNCHANGED sqlstate
       ELSE \E e \in SqlStates : (conn = "broken" => e = "link") /\ Throws(e)
    /\ refused' = (refused \/ conn = "live")
    /\ UNCHANGED <<up, cache, q, attempt, result, outcome, effects, lost, wedged, steady>>

\* SQLGetData fails in query or get_json: the row goes into the result as it is.
FetchDamaged ==
    /\ pc = "fetch" /\ q \in Lenient /\ rows < total
    /\ rows' = rows + 1 /\ met' = TRUE
    /\ refused' = (refused \/ conn = "live")
    /\ UNCHANGED <<up, cache, pc, q, attempt, sqlstate, total, outcome,
                   effects, lost, wedged, steady>>

\* Bug: SQL_CLOSE is left out.
CloseNothing ==
    /\ pc = "close"
    /\ pc' = "idle" /\ outcome' = "ok"
    /\ UNCHANGED <<up, cache, q, attempt, sqlstate, result, history>>

\* SQLFreeStmt(SQL_CLOSE), and the call returns.
Close ==
    /\ pc = "close"
    /\ cursor' = cursor \ {q}
    /\ pc' = "idle" /\ outcome' = "ok"
    /\ UNCHANGED <<up, conn, stmts, q, attempt, sqlstate, result, history>>

\* Bug: the attempts are not counted.
RetriesAlways(e) == e = "link"

\* The condition of the catch block.
Retries(e) == attempt = 1 /\ e = "link"

\* Bug: the broken connection stays in the cache.
CatchKeepsConnection ==
    /\ pc = "catch"
    /\ IF Retries(sqlstate)
       THEN /\ attempt' = 2 /\ met' = FALSE
            /\ pc' = "connect" /\ UNCHANGED outcome
       ELSE /\ pc' = "idle" /\ outcome' = "error"
            /\ UNCHANGED <<attempt, met>>
    /\ UNCHANGED <<up, cache, q, sqlstate, result, effects, lost, refused, wedged, steady>>

\* The catch block: invalidate_connection and once more, or throw.
Catch ==
    /\ pc = "catch"
    /\ IF Retries(sqlstate)
       THEN /\ conn' = "none" /\ stmts' = {} /\ cursor' = {}
            /\ attempt' = 2 /\ met' = FALSE
            /\ pc' = "connect" /\ UNCHANGED outcome
       ELSE /\ pc' = "idle" /\ outcome' = "error"
            /\ UNCHANGED <<cache, attempt, met>>
    /\ UNCHANGED <<up, q, sqlstate, result, effects, lost, refused, wedged, steady>>

-----------------------------------------------------------------------------
(* The database *)

\* The connection breaks: a failover, an idle timeout of a firewall.
LinkBreaks ==
    /\ conn = "live"
    /\ conn' = "broken"
    /\ steady' = (steady /\ (pc = "idle" \/ attempt = 1))
    /\ UNCHANGED <<up, stmts, cursor, pc, q, attempt, sqlstate, result, outcome,
                   met, effects, lost, refused, wedged>>

DatabaseStops ==
    /\ up
    /\ up' = FALSE
    /\ conn' = IF conn = "live" THEN "broken" ELSE conn
    /\ steady' = (steady /\ pc = "idle")
    /\ UNCHANGED <<stmts, cursor, pc, q, attempt, sqlstate, result, outcome,
                   met, effects, lost, refused, wedged>>

DatabaseStarts ==
    /\ ~up
    /\ up' = TRUE
    /\ UNCHANGED <<cache, pc, q, attempt, sqlstate, result, outcome, history>>

Proceed ==
    \/ Connect \/ Prepare \/ Bind \/ Execute \/ ExecuteFails \/ ExecuteLost \/ Describe
    \/ FetchRow \/ FetchSpins \/ FetchEnd \/ FetchFails \/ FetchDamaged \/ Close \/ Catch

Next ==
    \/ \E s \in Queries : Call(s)
    \/ Proceed
    \/ LinkBreaks \/ DatabaseStops \/ DatabaseStarts

\* Weak fairness: a call under way goes on; every ODBC function returns.
Spec == Init /\ [][Next]_vars /\ WF_vars(Proceed)

-----------------------------------------------------------------------------
(* Properties *)

\* Types, and what belongs to what: cursors to statements, statements to a
\* connection (the statement cache is a member of Connection).
TypeOK ==
    /\ up \in BOOLEAN
    /\ conn \in {"none", "live", "broken"}
    /\ cursor \subseteq stmts /\ stmts \subseteq Queries
    /\ conn = "none" => stmts = {}
    /\ pc \in {"idle", "connect", "prepare", "bind", "execute", "describe", "fetch", "spin",
              "close", "catch"}
    /\ q \in Queries /\ attempt \in {1, 2} /\ sqlstate \in SqlStates
    /\ total \in 0..MaxRows /\ rows \in 0..total
    /\ outcome \in {"none", "ok", "error"}
    /\ met \in BOOLEAN /\ effects \in 0..2 /\ lost \in BOOLEAN
    /\ refused \in BOOLEAN /\ wedged \in BOOLEAN /\ steady \in BOOLEAN

\* What the retry is for: a caller never notices that a cached connection had
\* broken, or breaks under the first attempt.  A call fails only if the
\* database was down, broke the second connection or reported an error of its
\* own, or if a former call left the cursor of this very statement open.
CallSurvives ==
    outcome = "error" => ~steady \/ refused \/ wedged

\* An exec applies its statement twice only if the reply to the first execution
\* was lost, and never returns without having applied it (sql.tpp:269).
AppliedOnce ==
    /\ Op[q] = "exec" /\ effects = 2 => lost
    /\ outcome = "ok" => effects >= 1

\* A get that returns hands out every row of one execution, and no error was
\* passed over on the way (fetch_json_result).
GetWhole ==
    outcome = "ok" /\ Op[q] = "get" => rows = total /\ ~met

\* A call leaves a cursor open only on its own statement and only when it
\* throws; exec never does.  An open cursor makes the next call of the same
\* statement fail.
CursorsClosed ==
    [][pc # "idle" /\ pc' = "idle" =>
          /\ cursor' \ {q} \subseteq cursor
          /\ q \in cursor' => outcome' = "error" /\ Op[q] # "exec"]_vars

\* Every call returns or throws, whatever the database does, with one exception:
\* a call that fetches may meet a warning about a column that was not truncated,
\* and then reads the end of that column for ever (sql.tpp:131, 406, sql.cpp:75).
\* No exec does.
Spins == pc = "spin" /\ Op[q] # "exec"
CallEnds == pc # "idle" ~> pc = "idle" \/ Spins

\* sql.hpp:31 describes sql::error as "Exception thrown for ODBC-related
\* errors": a call that returns has met none in the attempt that made its result.
ErrorsThrown ==
    outcome = "ok" => ~met

=============================================================================
