-------------------------------- MODULE StateFile --------------------------------
(*****************************************************************************)
(* state.json: Supervisor::publish_state and write_atomic                    *)
(* (src/src/supervisor.rs), cut at their system calls, at the end of every   *)
(* poll of module Supervisor; what `afanctl status` (src/src/cli.rs) and the *)
(* daemon-mode check of `afanctl doctor` (src/src/doctor.rs) make of the     *)
(* file; the death of the daemon and the removal of the directory.           *)
(*                                                                           *)
(* A snapshot has the fields that tell who has the fan.  The temperatures,   *)
(* the speeds, `verified`, the counters and the messages are left out, and   *)
(* so is a `once` that publishes in the daemon's place.                      *)
(*                                                                           *)
(* A definition whose comment starts with "Seeded bug" is not part of the    *)
(* specification: it is a wrong version of the definition that follows it.   *)
(*****************************************************************************)
EXTENDS Supervisor

VARIABLES
  state_file,   \* state.json
  tmp_file,     \* state.json.tmp
  at,           \* write_atomic: "out", "opened" or "written"
  current       \* the last poll of this process was published

files == <<state_file, tmp_file>>
fileVars == <<files, at, current>>
allVars == <<vars, fileVars>>

\* Contents that are no document.
Gone == [kind |-> "gone"]
Torn == [kind |-> "torn"]

\* state.json.tmp with the document of the poll that wrote it.  Nobody reads it
\* there, and it is truncated before it is written again: whose it is matters
\* only for the rename that follows in the same poll.
Written == [kind |-> "written"]

\* StateFile and SafetyLayers, as publish_state fills them in.
Snapshot ==
  [kind |-> "state", mode |-> mode.kind, monitor_only |-> monitor_only,
   auto_restore_pending |-> auto_restore_pending, l2_death_path |-> armed]

FileInit ==
  /\ Init
  /\ state_file = Gone /\ tmp_file = Gone /\ at = "out" /\ current = FALSE

-----------------------------------------------------------------------------
(* publish_state *)

\* Seeded bug: the file is written in place.
OpenTmpInPlace ==
  /\ pc = "publish" /\ at = "out"
  /\ state_file' = Torn /\ tmp_file' = Torn
  /\ at' = "opened"
  /\ UNCHANGED <<vars, current>>

\* Seeded bug: the file must not be there yet, so a leftover blocks for ever.
OpenTmpExclusive ==
  /\ pc = "publish" /\ at = "out" /\ tmp_file = Gone
  /\ tmp_file' = Torn
  /\ at' = "opened"
  /\ UNCHANGED <<vars, state_file, current>>

\* fs::write creates or truncates state.json.tmp ...
OpenTmp ==
  /\ pc = "publish" /\ at = "out"
  /\ tmp_file' = Torn
  /\ at' = "opened"
  /\ UNCHANGED <<vars, state_file, current>>

\* ... and writes the document,
WriteTmp ==
  /\ at = "opened"
  /\ tmp_file' = Written
  /\ at' = "written"
  /\ UNCHANGED <<vars, state_file, current>>

\* which the rename puts in place: the poll ends.
RenameTmp ==
  /\ at = "written"
  /\ state_file' = (IF tmp_file = Written THEN Snapshot ELSE tmp_file)
  /\ tmp_file' = Gone
  /\ at' = "out" /\ current' = TRUE
  /\ PublishState

\* Any of the three fails (so does creating the directory): the error is noted
\* and the poll ends all the same.
PublishFails ==
  /\ at' = "out" /\ current' = FALSE
  /\ PublishState
  /\ UNCHANGED files

-----------------------------------------------------------------------------
(* The rest of the daemon, its clients, its death and its restart *)

Elsewhere ==
  /\ (Daemon /\ pc # "publish") \/ ClientWritesCmd \/ FirmwareReclaims
  /\ UNCHANGED fileVars

DieWhereItStands ==
  /\ Die
  /\ at' = "out" /\ current' = FALSE
  /\ UNCHANGED files

\* The RuntimeDirectory goes with all three files, or stays with them.
RestartAnew ==
  /\ Restart
  /\ \/ UNCHANGED files
     \/ cmd_file' = NoCmd /\ state_file' = Gone /\ tmp_file' = Gone
  /\ UNCHANGED <<at, current>>

Publish == OpenTmp \/ WriteTmp \/ RenameTmp \/ PublishFails

FileNext == Elsewhere \/ Publish \/ DieWhereItStands \/ RestartAnew

\* A publication that is tried every poll succeeds now and then.
FileFairness ==
  /\ WF_allVars(Elsewhere /\ Daemon) /\ WF_allVars(Publish)
  /\ WF_allVars(RestartAnew)
  /\ SF_allVars(OpenTmp) /\ SF_allVars(WriteTmp) /\ SF_allVars(RenameTmp)

FileSpec == FileInit /\ [][FileNext]_allVars /\ FileFairness

-----------------------------------------------------------------------------
(* The readers *)

\* read_state and daemon_mode_check: what does not parse is as good as absent.
Parsed(content) == IF content = Torn THEN Gone ELSE content

\* status_json, status_human: there is a daemon when there is a document.
Running(content) == Parsed(content) # Gone

\* Seeded bug: only the latch counts as a degradation.
ClassifyLatchOnly(state) ==
  IF state = Gone THEN "no daemon"
  ELSE IF state.monitor_only THEN "warn: writing nothing"
  ELSE IF state.mode = "hold" THEN "warn: hold"
  ELSE state.mode

\* classify_daemon_mode: the flags come before the mode.
ClassifyDaemonMode(state) ==
  IF state = Gone THEN "no daemon"
  ELSE IF state.monitor_only \/ state.auto_restore_pending
       THEN "warn: writing nothing"
  ELSE IF state.mode = "hold" THEN "warn: hold"
  ELSE state.mode

DoctorSays == ClassifyDaemonMode(Parsed(state_file))

-----------------------------------------------------------------------------
(* Properties *)

\* A reader finds a whole document or none, at every system call of a
\* publication, after one that failed half-way and after a death in the middle
\* of it; what a dead daemon left half-written never comes to light later.
ReadersSeeWholePolls == state_file # Torn

\* Between two polls, when the last one was published, the file tells who has
\* the fan: "firmware owns the fan" and "driving the fan" are true of the
\* daemon, a fan that is owned but not driven shows as a warning, and the death
\* path is reported as armed exactly when it is.
ReportIsTrue ==
  pc = "cmd" /\ current =>
    /\ Running(state_file)
    /\ DoctorSays = "observe" => ~manual_armed
    /\ DoctorSays \in {"curve", "warn: hold"} => Controlling /\ armed
    /\ manual_armed /\ ~Controlling => DoctorSays = "warn: writing nothing"
    /\ state_file.l2_death_path = armed

\* A daemon that stays degraded says so: failing publications only delay it,
\* and a document of the process before it does not hide it.
DegradationBecomesVisible ==
  <>[](monitor_only /\ pc # "dead") => <>[](DoctorSays = "warn: writing nothing")
=============================================================================
