--------------------------- MODULE SqlSessionProofs ---------------------------
(* Theorems about SqlSession, for any set of statements and any result size. *)
EXTENDS SqlSession, TLAPS

Safety == Init /\ [][Next]_vars

\* TypeOK in four parts.
Flags ==
    /\ up \in BOOLEAN /\ met \in BOOLEAN /\ lost \in BOOLEAN
    /\ refused \in BOOLEAN /\ wedged \in BOOLEAN /\ steady \in BOOLEAN

Caches ==
    /\ conn \in {"none", "live", "broken"}
    /\ cursor \subseteq stmts /\ stmts \subseteq Queries
    /\ conn = "none" => stmts = {}

Control ==
    /\ pc \in {"idle", "connect", "prepare", "bind", "execute", "describe", "fetch", "spin",
              "close", "catch"}
    /\ q \in Queries /\ attempt \in {1, 2} /\ sqlstate \in {"link", "other"}
    /\ outcome \in {"none", "ok", "error"}

Counts == total \in 0..MaxRows /\ rows \in 0..total /\ effects \in 0..2

\* An attempt has a connection from the moment it has got one until it fails,
\* and only statements with a result are fetched.
PlaceInv ==
    /\ pc \in {"prepare", "bind", "execute", "describe", "fetch", "close"} => conn # "none"
    /\ pc \in {"bind", "execute", "describe", "fetch", "close"} => q \in stmts
    /\ pc = "describe" => Op[q] \in {"query", "get_json"}
    /\ pc = "fetch" => Op[q] # "exec"

\* Each attempt applies the statement at most once, in SQLExecute.
EffectInv ==
    /\ pc \in {"connect", "prepare", "bind", "execute"} => effects <= attempt - 1
    /\ effects <= attempt
    /\ pc \in {"describe", "fetch", "close"} => effects >= 1

TypeInv == Flags /\ Caches /\ Control /\ Counts /\ PlaceInv /\ EffectInv

-----------------------------------------------------------------------------

\* Every action keeps each part.
LEMMA TypeStep == TypeInv /\ [Next]_vars => TypeInv'
<1> SUFFICES ASSUME TypeInv, [Next]_vars PROVE TypeInv'
  OBVIOUS
<1> USE DEF TypeInv
<1>1. ASSUME NEW s \in Queries, Call(s) PROVE TypeInv'
  <2>1. Flags'
    <3>1. wedged' = (s \in cursor) /\ steady' = up /\ up' = up
      BY <1>1 DEF Call
    <3>2. met' = FALSE /\ lost' = FALSE /\ refused' = FALSE
      BY <1>1 DEF Call
    <3>3. wedged' \in BOOLEAN
      BY <3>1 DEF Call
    <3>4. steady' \in BOOLEAN /\ up' \in BOOLEAN
      BY <3>1, TypeInv DEF Flags
    <3> QED
      BY <3>2, <3>3, <3>4 DEF Flags
  <2>2. Caches'
    BY <1>1, TypeInv DEF Call, cache, Caches, Control, PlaceInv
  <2>3. Control'
    BY <1>1, TypeInv DEF Call, cache, Control
  <2>4. Counts'
    BY <1>1, RowsAssumption, TypeInv DEF Call, cache, Counts, EffectInv, Control
  <2>5. PlaceInv'
    BY <1>1, TypeInv DEF Call, cache, PlaceInv, Control, Caches
  <2>6. EffectInv'
    BY <1>1, TypeInv DEF Call, cache, EffectInv, Control, Counts
  <2> QED
    BY <2>1, <2>2, <2>3, <2>4, <2>5, <2>6
<1>2. CASE Connect
  <2>1. Flags'
    BY <1>2, TypeInv DEF Connect, result, Throws, SqlStates, Flags
  <2>2. Caches'
    BY <1>2, TypeInv DEF Connect, result, Throws, SqlStates, Caches, Control, PlaceInv
  <2>3. Control'
    BY <1>2, TypeInv DEF Connect, result, Throws, SqlStates, Control
  <2>4. Counts'
    BY <1>2, TypeInv DEF Connect, result, Throws, SqlStates, Counts, EffectInv, Control
  <2>5. PlaceInv'
    BY <1>2, TypeInv DEF Connect, result, Throws, SqlStates, PlaceInv, Control, Caches
  <2>6. EffectInv'
    BY <1>2, TypeInv DEF Connect, result, Throws, SqlStates, EffectInv, Control, Counts
  <2> QED
    BY <2>1, <2>2, <2>3, <2>4, <2>5, <2>6
<1>3. CASE Prepare
  <2>1. Flags'
    BY <1>3, TypeInv DEF Prepare, result, Throws, SqlStates, Flags
  <2>2. Caches'
    BY <1>3, TypeInv DEF Prepare, result, Throws, SqlStates, Caches, Control, PlaceInv
  <2>3. Control'
    BY <1>3, TypeInv DEF Prepare, result, Throws, SqlStates, Control
  <2>4. Counts'
    BY <1>3, TypeInv DEF Prepare, result, Throws, SqlStates, Counts, EffectInv, Control
  <2>5. PlaceInv'
    BY <1>3, TypeInv DEF Prepare, result, Throws, SqlStates, PlaceInv, Control, Caches
  <2>6. EffectInv'
    BY <1>3, TypeInv DEF Prepare, result, Throws, SqlStates, EffectInv, Control, Counts
  <2> QED
    BY <2>1, <2>2, <2>3, <2>4, <2>5, <2>6
<1>4. CASE Bind
  <2>1. Flags'
    BY <1>4, TypeInv DEF Bind, cache, result, Throws, SqlStates, Flags
  <2>2. Caches'
    BY <1>4, TypeInv DEF Bind, cache, result, Throws, SqlStates, Caches, Control, PlaceInv
  <2>3. Control'
    BY <1>4, TypeInv DEF Bind, cache, result, Throws, SqlStates, Control
  <2>4. Counts'
    BY <1>4, TypeInv DEF Bind, cache, result, Throws, SqlStates, Counts, EffectInv, Control
  <2>5. PlaceInv'
    BY <1>4, TypeInv DEF Bind, cache, result, Throws, SqlStates, PlaceInv, Control, Caches
  <2>6. EffectInv'
    BY <1>4, TypeInv DEF Bind, cache, result, Throws, SqlStates, EffectInv, Control, Counts
  <2> QED
    BY <2>1, <2>2, <2>3, <2>4, <2>5, <2>6
<1>5. CASE Execute
  <2>1. Flags'
    BY <1>5, TypeInv DEF Execute, Lenient, Flags
  <2>2. Caches'
    BY <1>5, TypeInv DEF Execute, Lenient, Caches, Control, PlaceInv
  <2>3. Control'
    BY <1>5, OpAssumption, TypeInv DEF Execute, Lenient, Control
  <2>4. Counts'
    BY <1>5, RowsAssumption, TypeInv DEF Execute, Lenient, Counts, EffectInv, Control
  <2>5. PlaceInv'
    BY <1>5, OpAssumption, TypeInv DEF Execute, Lenient, PlaceInv, Control, Caches
  <2>6. EffectInv'
    BY <1>5, OpAssumption, TypeInv DEF Execute, Lenient, EffectInv, Control, Counts
  <2> QED
    BY <2>1, <2>2, <2>3, <2>4, <2>5, <2>6
<1>6. CASE ExecuteFails
  <2>1. Flags'
    BY <1>6, TypeInv DEF ExecuteFails, cache, result, Throws, SqlStates, Flags
  <2>2. Caches'
    BY <1>6, TypeInv DEF ExecuteFails, cache, result, Throws, SqlStates, Caches, Control, PlaceInv
  <2>3. Control'
    BY <1>6, TypeInv DEF ExecuteFails, cache, result, Throws, SqlStates, Control
  <2>4. Counts'
    BY <1>6, TypeInv DEF ExecuteFails, cache, result, Throws, SqlStates, Counts, EffectInv, Control
  <2>5. PlaceInv'
    BY <1>6, TypeInv DEF ExecuteFails, cache, result, Throws, SqlStates, PlaceInv, Control, Caches
  <2>6. EffectInv'
    BY <1>6, TypeInv DEF ExecuteFails, cache, result, Throws, SqlStates, EffectInv, Control, Counts
  <2> QED
    BY <2>1, <2>2, <2>3, <2>4, <2>5, <2>6
<1>7. CASE ExecuteLost
  <2>1. Flags'
    BY <1>7, TypeInv DEF ExecuteLost, result, Throws, SqlStates, Flags
  <2>2. Caches'
    BY <1>7, TypeInv DEF ExecuteLost, result, Throws, SqlStates, Caches, Control, PlaceInv
  <2>3. Control'
    BY <1>7, TypeInv DEF ExecuteLost, result, Throws, SqlStates, Control
  <2>4. Counts'
    BY <1>7, TypeInv DEF ExecuteLost, result, Throws, SqlStates, Counts, EffectInv, Control
  <2>5. PlaceInv'
    BY <1>7, TypeInv DEF ExecuteLost, result, Throws, SqlStates, PlaceInv, Control, Caches
  <2>6. EffectInv'
    BY <1>7, TypeInv DEF ExecuteLost, result, Throws, SqlStates, EffectInv, Control, Counts
  <2> QED
    BY <2>1, <2>2, <2>3, <2>4, <2>5, <2>6
<1>8. CASE Describe
  <2>1. Flags'
    BY <1>8, TypeInv DEF Describe, cache, result, Lenient, Throws, SqlStates, Flags
  <2>2. Caches'
    BY <1>8, TypeInv DEF Describe, cache, result, Lenient, Throws, SqlStates, Caches, Control, PlaceInv
  <2>3. Control'
    BY <1>8, TypeInv DEF Describe, cache, result, Lenient, Throws, SqlStates, Control
  <2>4. Counts'
    BY <1>8, TypeInv DEF Describe, cache, result, Lenient, Throws, SqlStates, Counts, EffectInv, Control
  <2>5. PlaceInv'
    BY <1>8, TypeInv DEF Describe, cache, result, Lenient, Throws, SqlStates, PlaceInv, Control, Caches
  <2>6. EffectInv'
    BY <1>8, TypeInv DEF Describe, cache, result, Lenient, Throws, SqlStates, EffectInv, Control, Counts
  <2> QED
    BY <2>1, <2>2, <2>3, <2>4, <2>5, <2>6
<1>9. CASE FetchRow
  <2>1. Flags'
    BY <1>9, TypeInv DEF FetchRow, cache, history, Flags
  <2>2. Caches'
    BY <1>9, TypeInv DEF FetchRow, cache, history, Caches, Control, PlaceInv
  <2>3. Control'
    BY <1>9, OpAssumption, TypeInv DEF FetchRow, cache, history, Control
  <2>4. Counts'
    BY <1>9, TypeInv DEF FetchRow, cache, history, Counts, EffectInv, Control
  <2>5. PlaceInv'
    BY <1>9, OpAssumption, TypeInv DEF FetchRow, cache, history, PlaceInv, Control, Caches
  <2>6. EffectInv'
    BY <1>9, OpAssumption, TypeInv DEF FetchRow, cache, history, EffectInv, Control, Counts
  <2> QED
    BY <2>1, <2>2, <2>3, <2>4, <2>5, <2>6
<1>10. CASE FetchEnd
  <2>1. Flags'
    BY <1>10, TypeInv DEF FetchEnd, cache, result, history, Flags
  <2>2. Caches'
    BY <1>10, TypeInv DEF FetchEnd, cache, result, history, Caches, Control, PlaceInv
  <2>3. Control'
    BY <1>10, TypeInv DEF FetchEnd, cache, result, history, Control
  <2>4. Counts'
    BY <1>10, TypeInv DEF FetchEnd, cache, result, history, Counts, EffectInv, Control
  <2>5. PlaceInv'
    BY <1>10, TypeInv DEF FetchEnd, cache, result, history, PlaceInv, Control, Caches
  <2>6. EffectInv'
    BY <1>10, TypeInv DEF FetchEnd, cache, result, history, EffectInv, Control, Counts
  <2> QED
    BY <2>1, <2>2, <2>3, <2>4, <2>5, <2>6
<1>11. CASE FetchFails
  <2>1. Flags'
    BY <1>11, TypeInv DEF FetchFails, cache, result, Throws, SqlStates, Flags
  <2>2. Caches'
    BY <1>11, TypeInv DEF FetchFails, cache, result, Throws, SqlStates, Caches, Control, PlaceInv
  <2>3. Control'
    BY <1>11, TypeInv DEF FetchFails, cache, result, Throws, SqlStates, Control
  <2>4. Counts'
    BY <1>11, TypeInv DEF FetchFails, cache, result, Throws, SqlStates, Counts, EffectInv, Control
  <2>5. PlaceInv'
    BY <1>11, TypeInv DEF FetchFails, cache, result, Throws, SqlStates, PlaceInv, Control, Caches
  <2>6. EffectInv'
    BY <1>11, TypeInv DEF FetchFails, cache, result, Throws, SqlStates, EffectInv, Control, Counts
  <2> QED
    BY <2>1, <2>2, <2>3, <2>4, <2>5, <2>6
<1>12. CASE FetchDamaged
  <2>1. Flags'
    BY <1>12, TypeInv DEF FetchDamaged, cache, Flags
  <2>2. Caches'
    BY <1>12, TypeInv DEF FetchDamaged, cache, Caches, Control, PlaceInv
  <2>3. Control'
    BY <1>12, TypeInv DEF FetchDamaged, cache, Control
  <2>4. Counts'
    BY <1>12, TypeInv DEF FetchDamaged, cache, Counts, EffectInv, Control
  <2>5. PlaceInv'
    BY <1>12, TypeInv DEF FetchDamaged, cache, PlaceInv, Control, Caches
  <2>6. EffectInv'
    BY <1>12, TypeInv DEF FetchDamaged, cache, EffectInv, Control, Counts
  <2> QED
    BY <2>1, <2>2, <2>3, <2>4, <2>5, <2>6
<1>13. CASE Close
  <2>1. Flags'
    BY <1>13, TypeInv DEF Close, result, history, Flags
  <2>2. Caches'
    BY <1>13, TypeInv DEF Close, result, history, Caches, Control, PlaceInv
  <2>3. Control'
    BY <1>13, TypeInv DEF Close, result, history, Control
  <2>4. Counts'
    BY <1>13, TypeInv DEF Close, result, history, Counts, EffectInv, Control
  <2>5. PlaceInv'
    BY <1>13, TypeInv DEF Close, result, history, PlaceInv, Control, Caches
  <2>6. EffectInv'
    BY <1>13, TypeInv DEF Close, result, history, EffectInv, Control, Counts
  <2> QED
    BY <2>1, <2>2, <2>3, <2>4, <2>5, <2>6
<1>14. CASE Catch
  <2>1. Flags'
    BY <1>14, TypeInv DEF Catch, cache, result, Retries, Flags
  <2>2. Caches'
    BY <1>14, TypeInv DEF Catch, cache, result, Retries, Caches, Control, PlaceInv
  <2>3. Control'
    BY <1>14, TypeInv DEF Catch, cache, result, Retries, Control
  <2>4. Counts'
    BY <1>14, TypeInv DEF Catch, cache, result, Retries, Counts, EffectInv, Control
  <2>5. PlaceInv'
    BY <1>14, TypeInv DEF Catch, cache, result, Retries, PlaceInv, Control, Caches
  <2>6. EffectInv'
    BY <1>14, TypeInv DEF Catch, cache, result, Retries, EffectInv, Control, Counts
  <2> QED
    BY <2>1, <2>2, <2>3, <2>4, <2>5, <2>6
<1>15. CASE LinkBreaks
  <2>1. Flags'
    BY <1>15, TypeInv DEF LinkBreaks, result, Flags
  <2>2. Caches'
    BY <1>15, TypeInv DEF LinkBreaks, result, Caches, Control, PlaceInv
  <2>3. Control'
    BY <1>15, TypeInv DEF LinkBreaks, result, Control
  <2>4. Counts'
    BY <1>15, TypeInv DEF LinkBreaks, result, Counts, EffectInv, Control
  <2>5. PlaceInv'
    BY <1>15, TypeInv DEF LinkBreaks, result, PlaceInv, Control, Caches
  <2>6. EffectInv'
    BY <1>15, TypeInv DEF LinkBreaks, result, EffectInv, Control, Counts
  <2> QED
    BY <2>1, <2>2, <2>3, <2>4, <2>5, <2>6
<1>16. CASE DatabaseStops
  <2>1. Flags'
    BY <1>16, TypeInv DEF DatabaseStops, result, Flags
  <2>2. Caches'
    BY <1>16, TypeInv DEF DatabaseStops, result, Caches, Control, PlaceInv
  <2>3. Control'
    BY <1>16, TypeInv DEF DatabaseStops, result, Control
  <2>4. Counts'
    BY <1>16, TypeInv DEF DatabaseStops, result, Counts, EffectInv, Control
  <2>5. PlaceInv'
    BY <1>16, TypeInv DEF DatabaseStops, result, PlaceInv, Control, Caches
  <2>6. EffectInv'
    BY <1>16, TypeInv DEF DatabaseStops, result, EffectInv, Control, Counts
  <2> QED
    BY <2>1, <2>2, <2>3, <2>4, <2>5, <2>6
<1>17. CASE DatabaseStarts
  <2>1. Flags'
    BY <1>17, TypeInv DEF DatabaseStarts, cache, result, history, Flags
  <2>2. Caches'
    BY <1>17, TypeInv DEF DatabaseStarts, cache, result, history, Caches, Control, PlaceInv
  <2>3. Control'
    BY <1>17, TypeInv DEF DatabaseStarts, cache, result, history, Control
  <2>4. Counts'
    BY <1>17, TypeInv DEF DatabaseStarts, cache, result, history, Counts, EffectInv, Control
  <2>5. PlaceInv'
    BY <1>17, TypeInv DEF DatabaseStarts, cache, result, history, PlaceInv, Control, Caches
  <2>6. EffectInv'
    BY <1>17, TypeInv DEF DatabaseStarts, cache, result, history, EffectInv, Control, Counts
  <2> QED
    BY <2>1, <2>2, <2>3, <2>4, <2>5, <2>6
<1>18. CASE FetchSpins
  <2>1. Flags'
    BY <1>18, TypeInv DEF FetchSpins, cache, result, history, Flags
  <2>2. Caches'
    BY <1>18, TypeInv DEF FetchSpins, cache, result, history, Caches, Control, PlaceInv
  <2>3. Control'
    BY <1>18, TypeInv DEF FetchSpins, cache, result, history, Control
  <2>4. Counts'
    BY <1>18, TypeInv DEF FetchSpins, cache, result, history, Counts, EffectInv, Control
  <2>5. PlaceInv'
    BY <1>18, TypeInv DEF FetchSpins, cache, result, history, PlaceInv, Control, Caches
  <2>6. EffectInv'
    BY <1>18, TypeInv DEF FetchSpins, cache, result, history, EffectInv, Control, Counts
  <2> QED
    BY <2>1, <2>2, <2>3, <2>4, <2>5, <2>6
<1>19. CASE UNCHANGED vars
  BY <1>19 DEF vars, Flags, Caches, Control, Counts, PlaceInv, EffectInv
<1> QED
  BY <1>1, <1>2, <1>3, <1>4, <1>5, <1>6, <1>7, <1>8, <1>9, <1>10, <1>11, <1>12, <1>13, <1>14, <1>15, <1>16, <1>17, <1>18, <1>19
     DEF Next, Proceed

\* The types, with the places and the effects, are inductive.
LEMMA TypeInvCorrect == Safety => []TypeInv
<1>1. Init => TypeInv
  <2> SUFFICES ASSUME Init PROVE TypeInv
    OBVIOUS
  <2>1. Flags
    BY DEF Init, Flags
  <2>2. Caches /\ Control /\ PlaceInv
    BY DEF Init, Caches, Control, PlaceInv
  <2>3. Counts /\ EffectInv
    BY RowsAssumption DEF Init, Counts, EffectInv
  <2> QED
    BY <2>1, <2>2, <2>3 DEF TypeInv
<1> QED
  BY <1>1, TypeStep, PTL DEF Safety

\* Every variable keeps its type; the caches of connections, statements and
\* cursors nest; a call applies its statement at most twice.
THEOREM TypeCorrect == Spec => []TypeOK
<1>1. TypeInv => TypeOK
  BY DEF TypeInv, TypeOK, Flags, Caches, Control, Counts, SqlStates
<1> QED
  BY <1>1, TypeInvCorrect, PTL DEF Spec, Safety

-----------------------------------------------------------------------------

\* Why a call may fail: what CallSurvives lists.
Excuse == ~steady \/ refused \/ wedged

\* CallSurvives with what it rests on: during a call that has no excuse yet the
\* database is up, the statement's cursor is closed before it is executed, the
\* connection of the second attempt is good, and only a lost connection can
\* have thrown, in the first attempt.
SurviveInv ==
    /\ outcome = "error" => Excuse
    /\ pc # "idle" => outcome = "none" /\ (steady => up)
    /\ pc \in {"connect", "prepare", "bind", "execute"} /\ q \in cursor => wedged
    /\ pc # "idle" /\ attempt = 2 /\ conn = "broken" => Excuse
    /\ pc = "catch" /\ (sqlstate = "other" \/ attempt = 2) => Excuse

\* Every action keeps SurviveInv.
LEMMA SurviveStep == TypeInv /\ SurviveInv /\ [Next]_vars => SurviveInv'
<1> SUFFICES ASSUME TypeInv, SurviveInv, [Next]_vars PROVE SurviveInv'
  OBVIOUS
<1> USE DEF TypeInv, Flags, Caches, Control, PlaceInv, SurviveInv, Excuse
<1>1. ASSUME NEW s \in Queries, Call(s) PROVE SurviveInv'
  <2>1. /\ pc' = "connect" /\ q' = s /\ attempt' = 1 /\ outcome' = "none"
        /\ steady' = up /\ up' = up
    BY <1>1 DEF Call
  <2>2. cursor' = cursor
    BY <1>1 DEF Call, cache
  <2>3. s \in cursor => wedged'
    BY <1>1 DEF Call
  <2> QED
    BY <2>1, <2>2, <2>3
<1>2. CASE Connect
  BY <1>2 DEF Connect, Throws, SqlStates
<1>3. CASE Prepare
  BY <1>3 DEF Prepare, Throws, SqlStates
<1>4. CASE Bind
  BY <1>4 DEF Bind, cache, Throws, SqlStates
<1>5. CASE Execute
  BY <1>5, OpAssumption DEF Execute, Lenient
<1>6. CASE ExecuteFails
  BY <1>6 DEF ExecuteFails, cache, Throws, SqlStates
<1>7. CASE ExecuteLost
  BY <1>7 DEF ExecuteLost, Throws
<1>8. CASE Describe
  BY <1>8 DEF Describe, cache, Throws, SqlStates
<1>9. CASE FetchRow
  BY <1>9 DEF FetchRow, cache, history
<1>10. CASE FetchEnd
  BY <1>10 DEF FetchEnd, cache, history
<1>11. CASE FetchFails
  BY <1>11 DEF FetchFails, cache, Throws, SqlStates
<1>12. CASE FetchDamaged
  BY <1>12 DEF FetchDamaged, cache
<1>13. CASE Close
  BY <1>13 DEF Close, history
<1>14. CASE Catch
  BY <1>14 DEF Catch, Retries, cache
<1>15. CASE LinkBreaks
  BY <1>15 DEF LinkBreaks
<1>16. CASE DatabaseStops
  BY <1>16 DEF DatabaseStops
<1>17. CASE DatabaseStarts
  BY <1>17 DEF DatabaseStarts, cache, history
<1>18. CASE FetchSpins
  BY <1>18 DEF FetchSpins, cache, history
<1>19. CASE UNCHANGED vars
  BY <1>19 DEF vars
<1> QED
  BY <1>1, <1>2, <1>3, <1>4, <1>5, <1>6, <1>7, <1>8, <1>9, <1>10, <1>11, <1>12, <1>13, <1>14, <1>15, <1>16, <1>17, <1>18, <1>19
     DEF Next, Proceed

\* The retry does its work: a call fails only with an excuse.
THEOREM SurvivalCorrect == Spec => []CallSurvives
<1>1. Init => SurviveInv
  BY DEF Init, SurviveInv, Excuse
<1>2. SurviveInv => CallSurvives
  BY DEF SurviveInv, Excuse, CallSurvives
<1> QED
  BY <1>1, <1>2, SurviveStep, TypeInvCorrect, PTL DEF Spec, Safety

-----------------------------------------------------------------------------

\* AppliedOnce, GetWhole and CursorsClosed with what they rest on.  An exec that
\* has taken effect throws, and comes to a second attempt, only after a lost
\* reply; a get has met no error until it throws; the cursor of an exec is open
\* only between SQLExecute and SQL_CLOSE.
ResultInv ==
    /\ Op[q] = "exec" /\ effects >= 1 => lost \/ (effects = 1 /\ pc \in {"close", "idle"})
    /\ outcome = "ok" => pc = "idle" /\ effects >= 1
    /\ Op[q] = "get" /\ pc \notin {"idle", "catch"} => ~met
    /\ Op[q] = "get" /\ (pc = "close" \/ outcome = "ok") => rows = total /\ ~met
    /\ \A s \in cursor : Op[s] = "exec" => pc = "close" /\ s = q

\* Every action keeps ResultInv.
LEMMA ResultStep == TypeInv /\ SurviveInv /\ ResultInv /\ [Next]_vars => ResultInv'
<1> SUFFICES ASSUME TypeInv, SurviveInv, ResultInv, [Next]_vars PROVE ResultInv'
  OBVIOUS
<1> USE DEF TypeInv, Control, Counts, PlaceInv, EffectInv, SurviveInv, ResultInv
<1>1. ASSUME NEW s \in Queries, Call(s) PROVE ResultInv'
  BY <1>1 DEF Call, cache
<1>2. CASE Connect
  BY <1>2, OpAssumption DEF Connect, result, Throws
<1>3. CASE Prepare
  BY <1>3, OpAssumption DEF Prepare, result, Throws
<1>4. CASE Bind
  BY <1>4, OpAssumption DEF Bind, cache, result, Throws
<1>5. CASE Execute
  BY <1>5, OpAssumption DEF Execute, Lenient
<1>6. CASE ExecuteFails
  BY <1>6, OpAssumption DEF ExecuteFails, cache, result, Throws
<1>7. CASE ExecuteLost
  BY <1>7, OpAssumption DEF ExecuteLost, result, Throws
<1>8. CASE Describe
  BY <1>8, OpAssumption DEF Describe, cache, result, Throws
<1>9. CASE FetchRow
  BY <1>9, OpAssumption DEF FetchRow, cache, history
<1>10. CASE FetchEnd
  BY <1>10, OpAssumption DEF FetchEnd, cache, result, history
<1>11. CASE FetchFails
  BY <1>11, OpAssumption DEF FetchFails, cache, result, Throws, Lenient
<1>12. CASE FetchDamaged
  BY <1>12, OpAssumption DEF FetchDamaged, cache, Lenient
<1>13. CASE Close
  BY <1>13, OpAssumption DEF Close, result, history
<1>14. CASE Catch
  BY <1>14, OpAssumption DEF Catch, cache, result, Retries
<1>15. CASE LinkBreaks
  BY <1>15, OpAssumption DEF LinkBreaks, result
<1>16. CASE DatabaseStops
  BY <1>16, OpAssumption DEF DatabaseStops, result
<1>17. CASE DatabaseStarts
  BY <1>17, OpAssumption DEF DatabaseStarts, cache, result, history
<1>18. CASE FetchSpins
  BY <1>18, OpAssumption DEF FetchSpins, cache, result, history
<1>19. CASE UNCHANGED vars
  BY <1>19 DEF vars
<1> QED
  BY <1>1, <1>2, <1>3, <1>4, <1>5, <1>6, <1>7, <1>8, <1>9, <1>10, <1>11, <1>12, <1>13, <1>14, <1>15, <1>16, <1>17, <1>18, <1>19
     DEF Next, Proceed

\* The three invariants together, for the theorems below.
LEMMA SessionCorrect == Safety => [](TypeInv /\ SurviveInv /\ ResultInv)
<1>1. Init => SurviveInv /\ ResultInv
  BY DEF Init, SurviveInv, ResultInv, Excuse
<1> QED
  BY <1>1, SurviveStep, ResultStep, TypeInvCorrect, PTL DEF Safety

\* An exec is applied twice only after a lost reply.
THEOREM AppliedCorrect == Spec => []AppliedOnce
<1>1. ResultInv => AppliedOnce
  BY DEF ResultInv, AppliedOnce
<1> QED
  BY <1>1, SessionCorrect, PTL DEF Spec, Safety

\* A get that returns hands out all of one execution's rows.
THEOREM GetWholeCorrect == Spec => []GetWhole
<1>1. ResultInv => GetWhole
  BY DEF ResultInv, GetWhole
<1> QED
  BY <1>1, SessionCorrect, PTL DEF Spec, Safety

\* Only a call that throws, and no exec, leaves its statement's cursor open.
THEOREM CursorsCorrect == Spec => CursorsClosed
<1> DEFINE Closes ==
      pc # "idle" /\ pc' = "idle" =>
          /\ cursor' \ {q} \subseteq cursor
          /\ q \in cursor' => outcome' = "error" /\ Op[q] # "exec"
<1>1. TypeInv /\ ResultInv /\ [Next]_vars => [Closes]_vars
  <2> SUFFICES ASSUME TypeInv, ResultInv, [Next]_vars, pc # "idle", pc' = "idle", ~UNCHANGED vars
               PROVE  Closes
    BY DEF vars
  <2>1. CASE Close
    BY <2>1 DEF Close
  <2>2. CASE Catch
    BY <2>2 DEF Catch, Retries, cache, ResultInv
  <2>3. ~(\E s \in Queries : Call(s)) /\ ~LinkBreaks /\ ~DatabaseStops /\ ~DatabaseStarts
    BY DEF Call, LinkBreaks, DatabaseStops, DatabaseStarts
  <2>4. ~Connect /\ ~Prepare /\ ~Bind /\ ~ExecuteFails /\ ~ExecuteLost /\ ~Describe
    BY DEF Connect, Prepare, Bind, ExecuteFails, ExecuteLost, Describe, Throws
  <2>5. ~Execute
    BY OpAssumption DEF Execute, Lenient, TypeInv, Control
  <2>6. ~FetchRow /\ ~FetchSpins /\ ~FetchEnd /\ ~FetchFails /\ ~FetchDamaged
    BY DEF FetchRow, FetchSpins, FetchEnd, FetchFails, FetchDamaged, Throws
  <2> QED
    BY <2>1, <2>2, <2>3, <2>4, <2>5, <2>6 DEF Next, Proceed
<1> QED
  BY <1>1, SessionCorrect, PTL DEF Spec, Safety, CursorsClosed

=============================================================================
