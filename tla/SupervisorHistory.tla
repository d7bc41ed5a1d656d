--------------------------- MODULE SupervisorHistory ---------------------------
(*****************************************************************************)
(* Supervisor with a history variable: how many fan writes (set_mode,        *)
(* write_speed) of the control path have failed in a row.  It only observes. *)
(*****************************************************************************)
EXTENDS Supervisor

VARIABLE failed_in_a_row   \* counted up to WriteFailFallback

historyVars == <<vars, failed_in_a_row>>

\* The thread is at a fan write of the control path and this step takes it.
MakesWrite ==
  /\ pc' # pc /\ pc' # "dead"
  /\ \/ pc \in {"release", "enter", "speed", "return", "l1mode"}
     \/ pc = "l1track" /\ L1Tracking /\ ~monitor_only /\ ~applied

Fails == write_failures' > write_failures

HistoryInit == Init /\ failed_in_a_row = 0

HistoryNext ==
  /\ Next
  /\ failed_in_a_row' =
       IF MakesWrite
       THEN IF Fails
            THEN IF failed_in_a_row < WriteFailFallback
                 THEN failed_in_a_row + 1
                 ELSE failed_in_a_row
            ELSE 0
       ELSE IF (pc = "fallback" /\ pc' # pc) \/ pc' = "dead"
            THEN 0
            ELSE failed_in_a_row

HistorySpec == HistoryInit /\ [][HistoryNext]_historyVars

\* The module comment of supervisor.rs: WRITE_FAIL_FALLBACK consecutive failed
\* writes restore AUTO and latch monitor-only.
ConsecutiveFailuresFallBack ==
  failed_in_a_row >= WriteFailFallback => pc = "fallback" \/ monitor_only
=============================================================================
