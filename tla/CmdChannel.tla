-------------------------------- MODULE CmdChannel --------------------------------
(*****************************************************************************)
(* The command channel: CLI processes (observe, curve, hold) that publish a  *)
(* document at cmd.json by way of cmd.json.tmp (src/src/cli.rs), the daemon  *)
(* that reads it once a poll behind its freshness gate                       *)
(* (src/src/supervisor.rs), and systemd, which removes the directory with    *)
(* the service (src/packaging/afanctl.service).                              *)
(*                                                                           *)
(* The two names are links to inodes, since a file that is replaced or       *)
(* removed lives on for the process that has it open.  What a file holds is  *)
(* the document last written at its start and a length: the file is that     *)
(* document and nothing else exactly when the length is the document's.      *)
(*                                                                           *)
(* What the daemon does with a command, refusing it included, is             *)
(* Supervisor's apply_mode; here `applied` is the command handed to it.      *)
(*                                                                           *)
(* A definition whose comment starts with "Seeded bug" is not part of the    *)
(* specification: it is a wrong version of the definition that follows it.   *)
(*****************************************************************************)
EXTENDS Integers, FiniteSets

CONSTANTS
  Clients,        \* the CLI processes
  Inodes,         \* enough of them for every link and every open file
  HwMin, HwMax,   \* the hardware band that hold is checked against
  HoldRequests,   \* the speeds asked for
  MaxDeaths,      \* bound: deaths of the daemon
  None

ASSUME ChannelAssumption ==
  /\ IsFiniteSet(Clients) /\ IsFiniteSet(Inodes)
  /\ Cardinality(Inodes) > Cardinality(Clients)
  /\ HwMin \in Nat /\ HwMax \in Nat /\ HwMin <= HwMax
  /\ HoldRequests \subseteq Nat /\ MaxDeaths \in Nat

VARIABLES
  files,          \* inode -> contents
  cmd, tmp,       \* the inodes named cmd.json and cmd.json.tmp, or None
  step,           \* client -> the system call it makes next, or how it ended:
                  \* "done" with success, "idle" otherwise
  request,        \* client -> the document it publishes, or None
  fd,             \* client -> the inode it has open, or None
  overlapped,     \* history: the clients at work that met another one at work
  up,             \* the daemon runs
  applied,        \* the command last handed to apply_mode
  last_cmd,       \* field of Supervisor: the freshness gate, or None
  deaths

clients == <<step, request, fd, overlapped>>
daemon == <<up, applied, last_cmd, deaths>>
vars == <<files, cmd, tmp, clients, daemon>>

-----------------------------------------------------------------------------
Hold(rpm) == [mode |-> "hold", rpm |-> rpm]
Docs == {[mode |-> "observe"], [mode |-> "curve"]} \cup {Hold(r) : r \in HwMin..HwMax}

ASSUME NoneAssumption == None \notin Docs /\ None \notin Inodes

\* The bytes of a document, up to what order tells apart.
Length(doc) == CASE doc.mode = "curve" -> 1
                 [] doc.mode = "observe" -> 2
                 [] doc.mode = "hold" -> 3

Empty == [doc |-> None, length |-> 0]

\* write(2) at the start of a file keeps what lies behind its end.
Over(file, doc) ==
  [doc |-> doc, length |-> IF file.length > Length(doc) THEN file.length ELSE Length(doc)]

Whole(file) == file.doc # None /\ file.length = Length(file.doc)

\* What parse_cmd makes of cmd.json.
Current == IF cmd # None /\ Whole(files[cmd]) THEN files[cmd].doc ELSE None

Busy == {p \in Clients : step[p] \in {"open", "write", "rename"}}

\* What becomes of the files: an inode without a link and without a process that
\* has it open is free again.
Reclaim ==
  files' = [i \in Inodes |->
              IF i \in {cmd', tmp'} \cup {fd'[p] : p \in Clients} THEN files[i] ELSE Empty]

Init ==
  /\ files = [i \in Inodes |-> Empty]
  /\ cmd = None /\ tmp = None
  /\ step = [p \in Clients |-> "idle"]
  /\ request = [p \in Clients |-> None]
  /\ fd = [p \in Clients |-> None]
  /\ overlapped = {}
  /\ up = TRUE /\ applied = [mode |-> "observe"] /\ last_cmd = None /\ deaths = 0

-----------------------------------------------------------------------------
(* The CLI *)

\* The command ends.
Exit(p, how) ==
  /\ step' = [step EXCEPT ![p] = how]
  /\ request' = [request EXCEPT ![p] = None]
  /\ fd' = [fd EXCEPT ![p] = None]
  /\ overlapped' = overlapped \ {p}
  /\ Reclaim

\* write_cmd begins: observe, curve, or a hold clamped to the band.
Begin(p) ==
  /\ p \notin Busy
  /\ \E doc \in {[mode |-> "observe"], [mode |-> "curve"]}
                \cup {Hold(IF r > HwMax THEN HwMax ELSE r) : r \in {r \in HoldRequests : r >= HwMin}} :
       request' = [request EXCEPT ![p] = doc]
  /\ step' = [step EXCEPT ![p] = "open"]
  /\ overlapped' = IF Busy = {} THEN {} ELSE Busy \cup {p}
  /\ UNCHANGED <<files, cmd, tmp, fd, daemon>>

\* run_hold: no backend, or a speed below the band; nothing is written.
HoldRejected(p) ==
  /\ p \notin Busy
  /\ UNCHANGED <<cmd, tmp, daemon>>
  /\ Exit(p, "idle")

\* The inode that cmd.json.tmp has once it is opened for writing.
TmpInode ==
  IF tmp # None THEN tmp
  ELSE CHOOSE i \in Inodes : i # cmd /\ \A p \in Clients : fd[p] # i

\* Seeded bug: opens without truncating.
OpenKeepingOld(p) ==
  /\ step[p] = "open"
  /\ step' = [step EXCEPT ![p] = "write"]
  /\ tmp' = TmpInode
  /\ fd' = [fd EXCEPT ![p] = TmpInode]
  /\ UNCHANGED <<files, cmd, request, overlapped, daemon>>

\* std::fs::write creates or truncates cmd.json.tmp, whoever left it there ...
Open(p) ==
  /\ step[p] = "open"
  /\ step' = [step EXCEPT ![p] = "write"]
  /\ tmp' = TmpInode
  /\ files' = [files EXCEPT ![TmpInode] = Empty]
  /\ fd' = [fd EXCEPT ![p] = TmpInode]
  /\ UNCHANGED <<cmd, request, overlapped, daemon>>

\* Seeded bug: the file stays open over the rename.
WriteKeepingOpen(p) ==
  /\ step[p] = "write"
  /\ step' = [step EXCEPT ![p] = "rename"]
  /\ files' = [files EXCEPT ![fd[p]] = Over(@, request[p])]
  /\ UNCHANGED <<cmd, tmp, request, fd, overlapped, daemon>>

\* ... writes the file it has open, wherever that is linked by now, and closes it.
Write(p) ==
  /\ step[p] = "write"
  /\ step' = [step EXCEPT ![p] = "rename"]
  /\ files' = [files EXCEPT ![fd[p]] = Over(@, request[p])]
  /\ fd' = [fd EXCEPT ![p] = None]
  /\ UNCHANGED <<cmd, tmp, request, overlapped, daemon>>

\* Seeded bug: a missing cmd.json.tmp is taken for done.
RenameTolerant(p) ==
  /\ step[p] = "rename"
  /\ IF tmp = None THEN UNCHANGED <<cmd, tmp>> ELSE cmd' = tmp /\ tmp' = None
  /\ UNCHANGED daemon
  /\ Exit(p, "done")

\* rename(2) publishes whatever cmd.json.tmp names.
Rename(p) ==
  /\ step[p] = "rename"
  /\ tmp # None
  /\ cmd' = tmp /\ tmp' = None
  /\ UNCHANGED daemon
  /\ Exit(p, "done")

\* The directory cannot be created, the open, the write or the rename fails, or
\* the process is killed: what it wrote so far stays behind.
Stops(p) ==
  /\ p \in Busy
  /\ UNCHANGED <<cmd, tmp, daemon>>
  /\ Exit(p, "idle")

-----------------------------------------------------------------------------
(* The daemon and its service *)

\* apply_cmd_file: a document that parses and differs from the last one
\* applied.  Everything else leaves the state alone.
ApplyCmdFile ==
  /\ up
  /\ Current # None /\ Current # last_cmd
  /\ last_cmd' = Current
  /\ applied' = Current
  /\ UNCHANGED <<files, cmd, tmp, clients, up, deaths>>

\* The service stops and systemd removes its RuntimeDirectory.
Die ==
  /\ up /\ deaths < MaxDeaths
  /\ up' = FALSE /\ deaths' = deaths + 1
  /\ cmd' = None /\ tmp' = None
  /\ UNCHANGED <<clients, applied, last_cmd>>
  /\ Reclaim

\* Seeded bug: the gate survives the process.
RestartRemembering ==
  /\ ~up /\ up' = TRUE
  /\ applied' = [mode |-> "observe"]
  /\ UNCHANGED <<files, cmd, tmp, clients, last_cmd, deaths>>

\* RestartSec later it is up again, in observe mode.
Restart ==
  /\ ~up /\ up' = TRUE
  /\ applied' = [mode |-> "observe"] /\ last_cmd' = None
  /\ UNCHANGED <<files, cmd, tmp, clients, deaths>>

-----------------------------------------------------------------------------
Client(p) == Begin(p) \/ HoldRejected(p) \/ Open(p) \/ Write(p) \/ Rename(p) \/ Stops(p)

Next == (\E p \in Clients : Client(p)) \/ ApplyCmdFile \/ Die \/ Restart

\* The daemon polls for ever and its service is restarted.
Spec == Init /\ [][Next]_vars /\ WF_vars(ApplyCmdFile) /\ WF_vars(Restart)

-----------------------------------------------------------------------------
(* Properties *)

TypeOK ==
  /\ files \in [Inodes -> [doc : Docs \cup {None}, length : 0..3]]
  /\ cmd \in Inodes \cup {None} /\ tmp \in Inodes \cup {None}
  /\ step \in [Clients -> {"idle", "open", "write", "rename", "done"}]
  /\ request \in [Clients -> Docs \cup {None}]
  /\ fd \in [Clients -> Inodes \cup {None}]
  /\ \A p \in Clients : fd[p] # None <=> step[p] = "write"
  /\ overlapped \subseteq Busy
  /\ up \in BOOLEAN /\ applied \in Docs /\ last_cmd \in Docs \cup {None}
  /\ deaths \in 0..MaxDeaths

\* write_atomic: unless two CLI processes are at work at the same time, cmd.json
\* changes only into one whole document, or vanishes, whatever killed and failing
\* clients left behind.
AloneIsAtomic ==
  [][overlapped = {} /\ cmd' # None /\ (cmd' # cmd \/ files'[cmd'] # files[cmd'])
       => Whole(files'[cmd'])]_vars

\* write_cmd: a client that met no other one and reports success has replaced
\* cmd.json by its own document, even if the directory was removed meanwhile.
SuccessMeansPublished ==
  [][\A p \in Clients :
       step[p] # "done" /\ step'[p] = "done" /\ p \notin overlapped
         => Current' = request[p]]_vars

\* apply_cmd_file: a document that stays at cmd.json is handed on in the end and
\* stays in force, restarts notwithstanding.
Delivered ==
  \A doc \in Docs : <>[](Current = doc) => <>[](applied = doc)

-----------------------------------------------------------------------------
(* The inductive invariant behind AloneIsAtomic and SuccessMeansPublished    *)

\* What is being written is never what is published.
LinksApart == tmp # None => tmp # cmd

\* A client that met no other one at work is the only one at work.
AloneAtWork == \A p \in Busy \ overlapped : Busy = {p}

\* It has the file it opened for itself, empty, then with its own document, at
\* cmd.json.tmp or, after the directory was removed, nowhere.
AloneProtocol ==
  \A p \in Clients \ overlapped :
    /\ step[p] = "write" => tmp \in {None, fd[p]} /\ fd[p] # cmd /\ files[fd[p]] = Empty
    /\ step[p] = "rename" /\ tmp # None =>
         Whole(files[tmp]) /\ files[tmp].doc = request[p]

AsksForADocument == \A p \in Busy : request[p] \in Docs

Inv == TypeOK /\ LinksApart /\ AloneAtWork /\ AloneProtocol /\ AsksForADocument
=============================================================================
