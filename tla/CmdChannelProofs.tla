---------------------------- MODULE CmdChannelProofs ----------------------------
(*****************************************************************************)
(* Proofs about CmdChannel, for any number of clients and inodes: publishing *)
(* is atomic as long as no two clients are at work at the same time.         *)
(*                                                                           *)
(* The inductive invariant is CmdChannel!Inv.  An action of a client that is *)
(* alone is compared with the others through AloneAtWork: nobody else has    *)
(* anything open.                                                            *)
(*****************************************************************************)
EXTENDS CmdChannel, FiniteSetTheorems, TLAPS

LEMMA LengthType == ASSUME NEW doc \in Docs PROVE Length(doc) \in 1..3
BY ChannelAssumption DEF Docs, Hold, Length

\* There is an inode for a new cmd.json.tmp: fewer are linked or open than there
\* are clients and one more.
LEMMA TmpInodeFacts ==
  ASSUME TypeOK, LinksApart, NEW p \in Clients, step[p] = "open"
  PROVE  TmpInode \in Inodes /\ TmpInode # cmd
<1>1. CASE tmp # None
  BY <1>1 DEF TmpInode, TypeOK, LinksApart
<1>2. CASE tmp = None
  <2> DEFINE used == [q \in Clients |-> IF q = p THEN cmd ELSE fd[q]]
             InUse == {used[q] : q \in Clients}
  <2>1. used \in Surjection(Clients, InUse)
    BY DEF Surjection
  <2>2. IsFiniteSet(InUse) /\ Cardinality(InUse) <= Cardinality(Clients)
    BY <2>1, FS_Surjection, ChannelAssumption
  <2>3. fd[p] = None
    BY DEF TypeOK
  <2>4. PICK i \in Inodes : i \notin InUse
    <3> SUFFICES ASSUME Inodes \subseteq InUse PROVE FALSE
      OBVIOUS
    <3>1. Cardinality(Inodes) <= Cardinality(InUse)
      BY <2>2, FS_Subset
    <3>2. Cardinality(Inodes) \in Nat /\ Cardinality(InUse) \in Nat
          /\ Cardinality(Clients) \in Nat
      BY <2>2, FS_CardinalityType, ChannelAssumption
    <3>. QED
      BY <3>1, <3>2, <2>2, ChannelAssumption
  <2>5. i # cmd /\ \A q \in Clients : fd[q] # i
    BY <2>3, <2>4, NoneAssumption
  <2>. QED
    BY <2>5, <1>2 DEF TmpInode
<1>. QED
  BY <1>1, <1>2

\* A file that keeps a link or a process that has it open keeps its contents.
LEMMA ReclaimKeeps ==
  ASSUME TypeOK, Reclaim
  PROVE  /\ files' \in [Inodes -> [doc : Docs \cup {None}, length : 0..3]]
         /\ \A i \in Inodes : i \in {cmd', tmp'} \cup {fd'[q] : q \in Clients}
                                => files'[i] = files[i]
BY DEF TypeOK, Reclaim, Empty

\* The end of one client's command leaves the other clients alone.
LEMMA ExitFacts ==
  ASSUME Inv, NEW p \in Clients, NEW how \in {"idle", "done"}, Exit(p, how)
  PROVE  /\ step' = [step EXCEPT ![p] = how]
         /\ request' = [request EXCEPT ![p] = None]
         /\ fd' = [fd EXCEPT ![p] = None]
         /\ overlapped' = overlapped \ {p}
         /\ Busy' = Busy \ {p}
         /\ step' \in [Clients -> {"idle", "open", "write", "rename", "done"}]
         /\ request' \in [Clients -> Docs \cup {None}]
         /\ fd' \in [Clients -> Inodes \cup {None}]
         /\ \A q \in Clients : fd'[q] # None <=> step'[q] = "write"
         /\ overlapped' \subseteq Busy'
         /\ AloneAtWork' /\ AsksForADocument'
<1>1. /\ step' = [step EXCEPT ![p] = how]
      /\ request' = [request EXCEPT ![p] = None]
      /\ fd' = [fd EXCEPT ![p] = None]
      /\ overlapped' = overlapped \ {p}
  BY DEF Exit
<1>2. Busy' = Busy \ {p}
  BY <1>1 DEF Inv, TypeOK, Busy
<1>3. /\ step' \in [Clients -> {"idle", "open", "write", "rename", "done"}]
      /\ request' \in [Clients -> Docs \cup {None}]
      /\ fd' \in [Clients -> Inodes \cup {None}]
      /\ \A q \in Clients : fd'[q] # None <=> step'[q] = "write"
  BY <1>1 DEF Inv, TypeOK
<1>4. overlapped' \subseteq Busy'
  BY <1>1, <1>2 DEF Inv, TypeOK
<1>5. AloneAtWork'
  BY <1>1, <1>2 DEF Inv, AloneAtWork
<1>6. AsksForADocument'
  BY <1>1, <1>2 DEF Inv, AsksForADocument, TypeOK, Busy
<1>. QED
  BY <1>1, <1>2, <1>3, <1>4, <1>5, <1>6

LEMMA InitInv == Init => Inv
BY ChannelAssumption, NoneAssumption
   DEF Init, Inv, TypeOK, LinksApart, AloneAtWork, AloneProtocol, AsksForADocument,
       Busy, Empty, Docs

LEMMA BeginInv ==
  ASSUME Inv, NEW p \in Clients, Begin(p)
  PROVE  Inv'
<1>1. PICK doc \in {[mode |-> "observe"], [mode |-> "curve"]}
                \cup {Hold(IF r > HwMax THEN HwMax ELSE r) :
                        r \in {r \in HoldRequests : r >= HwMin}} :
        request' = [request EXCEPT ![p] = doc]
  BY DEF Begin
<1>2. doc \in Docs
  BY <1>1, ChannelAssumption DEF Docs, Hold
<1>3. /\ p \notin Busy
      /\ step' = [step EXCEPT ![p] = "open"]
      /\ overlapped' = IF Busy = {} THEN {} ELSE Busy \cup {p}
      /\ UNCHANGED <<files, cmd, tmp, fd, daemon>>
  BY DEF Begin
<1>4. Busy' = Busy \cup {p}
  BY <1>3 DEF Inv, TypeOK, Busy
<1>5. TypeOK'
  BY <1>1, <1>2, <1>3, <1>4 DEF Inv, TypeOK, Busy, daemon
<1>6. LinksApart'
  BY <1>3 DEF Inv, LinksApart
<1>7. AloneAtWork'
  BY <1>3, <1>4 DEF AloneAtWork
<1>8. AloneProtocol'
  <2> SUFFICES ASSUME NEW q \in Clients, q \notin overlapped',
                      step'[q] \in {"write", "rename"}
               PROVE  FALSE
    BY DEF AloneProtocol
  <2>1. q # p /\ q \in Busy
    BY <1>3 DEF Inv, TypeOK, Busy
  <2>. QED
    BY <2>1, <1>3
<1>9. AsksForADocument'
  BY <1>1, <1>2, <1>4 DEF Inv, AsksForADocument, TypeOK, Busy
<1>. QED
  BY <1>5, <1>6, <1>7, <1>8, <1>9 DEF Inv

\* An exit that leaves the links alone.
LEMMA GiveUpInv ==
  ASSUME Inv, NEW p \in Clients, UNCHANGED <<cmd, tmp, daemon>>, Exit(p, "idle")
  PROVE  Inv'
<1>1. Reclaim
  BY DEF Exit
<1>2. TypeOK'
  BY <1>1, ExitFacts, ReclaimKeeps DEF Inv, TypeOK, daemon
<1>3. LinksApart'
  BY DEF Inv, LinksApart
<1>4. AloneProtocol'
  <2> SUFFICES ASSUME NEW q \in Clients \ overlapped'
               PROVE  /\ step'[q] = "write" =>
                           tmp \in {None, fd'[q]} /\ fd'[q] # cmd /\ files'[fd'[q]] = Empty
                      /\ step'[q] = "rename" /\ tmp # None =>
                           Whole(files'[tmp]) /\ files'[tmp].doc = request'[q]
    BY DEF AloneProtocol, Whole
  <2>1. CASE q = p
    BY <2>1, ExitFacts DEF Inv, TypeOK
  <2>2. CASE q # p
    <3>1. /\ q \notin overlapped /\ step'[q] = step[q]
          /\ fd'[q] = fd[q] /\ request'[q] = request[q]
      BY <2>2, ExitFacts DEF Inv, TypeOK
    <3>2. fd'[q] \in Inodes => files'[fd'[q]] = files[fd'[q]]
      BY <1>1, ReclaimKeeps DEF Inv
    <3>3. tmp \in Inodes => files'[tmp] = files[tmp]
      BY <1>1, ReclaimKeeps DEF Inv
    <3>4. /\ step[q] = "write" =>
               tmp \in {None, fd[q]} /\ fd[q] # cmd /\ files[fd[q]] = Empty
          /\ step[q] = "rename" /\ tmp # None =>
               Whole(files[tmp]) /\ files[tmp].doc = request[q]
      BY <3>1 DEF Inv, AloneProtocol
    <3>. QED
      BY <3>1, <3>2, <3>3, <3>4 DEF Inv, TypeOK
  <2>. QED
    BY <2>1, <2>2
<1>. QED
  BY <1>2, <1>3, <1>4, ExitFacts DEF Inv

LEMMA OpenInv ==
  ASSUME Inv, NEW p \in Clients, Open(p)
  PROVE  Inv'
<1>1. /\ step[p] = "open"
      /\ step' = [step EXCEPT ![p] = "write"]
      /\ tmp' = TmpInode
      /\ files' = [files EXCEPT ![TmpInode] = Empty]
      /\ fd' = [fd EXCEPT ![p] = TmpInode]
      /\ UNCHANGED <<cmd, request, overlapped, daemon>>
  BY DEF Open
<1>2. TmpInode \in Inodes /\ TmpInode # cmd /\ TmpInode # None
  BY <1>1, TmpInodeFacts, NoneAssumption DEF Inv
<1>3. Busy' = Busy /\ p \in Busy
  BY <1>1 DEF Inv, TypeOK, Busy
<1>4. TypeOK'
  BY <1>1, <1>2, <1>3 DEF Inv, TypeOK, Empty, daemon
<1>5. LinksApart'
  BY <1>1, <1>2 DEF LinksApart
<1>6. AloneAtWork'
  BY <1>1, <1>3 DEF Inv, AloneAtWork
<1>7. AloneProtocol'
  <2> SUFFICES ASSUME NEW q \in Clients \ overlapped', step'[q] \in {"write", "rename"}
               PROVE  /\ step'[q] = "write" /\ tmp' \in {None, fd'[q]}
                      /\ fd'[q] # cmd' /\ files'[fd'[q]] = Empty
    BY DEF AloneProtocol
  <2>1. q \in Busy \ overlapped
    BY <1>1, <1>3 DEF Busy
  <2>2. q = p
    BY <2>1, <1>3 DEF Inv, AloneAtWork
  <2>. QED
    BY <2>2, <1>1, <1>2 DEF Inv, TypeOK
<1>8. AsksForADocument'
  BY <1>1, <1>3 DEF Inv, AsksForADocument
<1>. QED
  BY <1>4, <1>5, <1>6, <1>7, <1>8 DEF Inv

LEMMA WriteInv ==
  ASSUME Inv, NEW p \in Clients, Write(p)
  PROVE  Inv'
<1>1. /\ step[p] = "write"
      /\ step' = [step EXCEPT ![p] = "rename"]
      /\ files' = [files EXCEPT ![fd[p]] = Over(@, request[p])]
      /\ fd' = [fd EXCEPT ![p] = None]
      /\ UNCHANGED <<cmd, tmp, request, overlapped, daemon>>
  BY DEF Write
<1>2. Busy' = Busy /\ p \in Busy
  BY <1>1 DEF Inv, TypeOK, Busy
<1>3. fd[p] \in Inodes /\ request[p] \in Docs
  BY <1>1, <1>2 DEF Inv, TypeOK, AsksForADocument
<1>4. Length(request[p]) \in 1..3
  BY <1>3, LengthType
<1>5. files'[fd[p]] = Over(files[fd[p]], request[p])
  BY <1>1, <1>3 DEF Inv, TypeOK
<1>6. Over(files[fd[p]], request[p]) \in [doc : Docs \cup {None}, length : 0..3]
  BY <1>3, <1>4 DEF Over, Inv, TypeOK
<1>7. TypeOK'
  BY <1>1, <1>2, <1>6 DEF Inv, TypeOK, daemon
<1>8. LinksApart'
  BY <1>1 DEF Inv, LinksApart
<1>9. AloneAtWork'
  BY <1>1, <1>2 DEF Inv, AloneAtWork
<1>10. AloneProtocol'
  <2> SUFFICES ASSUME NEW q \in Clients \ overlapped', step'[q] \in {"write", "rename"}
               PROVE  /\ step'[q] = "rename"
                      /\ tmp' # None => Whole(files'[tmp']) /\ files'[tmp'].doc = request'[q]
    BY DEF AloneProtocol, Whole
  <2>1. q \in Busy \ overlapped
    BY <1>1, <1>2 DEF Busy
  <2>2. q = p
    BY <2>1, <1>2 DEF Inv, AloneAtWork
  <2>3. tmp \in {None, fd[p]} /\ files[fd[p]] = Empty
    BY <2>1, <2>2, <1>1 DEF Inv, AloneProtocol
  <2>4. files'[fd[p]] = [doc |-> request[p], length |-> Length(request[p])]
    BY <2>3, <1>4, <1>5 DEF Over, Empty
  <2>. QED
    BY <2>2, <2>3, <2>4, <1>1, <1>3, NoneAssumption DEF Whole, Inv, TypeOK
<1>11. AsksForADocument'
  BY <1>1, <1>2 DEF Inv, AsksForADocument
<1>. QED
  BY <1>7, <1>8, <1>9, <1>10, <1>11 DEF Inv

LEMMA RenameInv ==
  ASSUME Inv, NEW p \in Clients, Rename(p)
  PROVE  Inv'
<1>1. /\ step[p] = "rename" /\ tmp # None
      /\ cmd' = tmp /\ tmp' = None
      /\ UNCHANGED daemon /\ Exit(p, "done") /\ Reclaim
  BY DEF Rename, Exit
<1>2. TypeOK'
  BY <1>1, ExitFacts, ReclaimKeeps DEF Inv, TypeOK, daemon
<1>3. LinksApart'
  BY <1>1 DEF LinksApart
<1>4. AloneProtocol'
  <2> SUFFICES ASSUME NEW q \in Clients \ overlapped', step'[q] \in {"write", "rename"}
               PROVE  FALSE
    BY DEF AloneProtocol
  <2>1. q # p /\ q \in Busy \ overlapped /\ p \in Busy
    BY <1>1, ExitFacts DEF Inv, TypeOK, Busy
  <2>. QED
    BY <2>1 DEF Inv, AloneAtWork
<1>. QED
  BY <1>1, <1>2, <1>3, <1>4, ExitFacts DEF Inv

LEMMA DieInv == ASSUME Inv, Die PROVE Inv'
<1>1. /\ up' = FALSE /\ deaths < MaxDeaths /\ deaths' = deaths + 1
      /\ cmd' = None /\ tmp' = None
      /\ UNCHANGED <<step, request, fd, overlapped, applied, last_cmd>>
      /\ Reclaim
  BY DEF Die, clients
<1>2. Busy' = Busy
  BY <1>1 DEF Busy
<1>3. TypeOK'
  <2>1. TypeOK
    BY DEF Inv
  <2>2. files' \in [Inodes -> [doc : Docs \cup {None}, length : 0..3]]
    BY <1>1, <2>1, ReclaimKeeps
  <2>3. deaths' \in 0..MaxDeaths
    BY <1>1, <2>1, ChannelAssumption DEF TypeOK
  <2>. QED
    BY <1>1, <1>2, <2>1, <2>2, <2>3 DEF TypeOK
<1>4. LinksApart' /\ AloneAtWork' /\ AsksForADocument'
  BY <1>1, <1>2 DEF Inv, LinksApart, AloneAtWork, AsksForADocument
<1>5. AloneProtocol'
  <2> SUFFICES ASSUME NEW q \in Clients \ overlapped, step[q] = "write"
               PROVE  fd[q] # None /\ files'[fd[q]] = Empty
    BY <1>1 DEF AloneProtocol
  <2>1. fd[q] \in Inodes /\ fd[q] # None /\ files[fd[q]] = Empty
    BY DEF Inv, TypeOK, AloneProtocol
  <2>. QED
    BY <2>1, <1>1, ReclaimKeeps DEF Inv
<1>. QED
  BY <1>3, <1>4, <1>5 DEF Inv

\* The daemon touches none of the files.
LEMMA DaemonInv ==
  ASSUME Inv, \/ ApplyCmdFile
              \/ Restart
              \/ UNCHANGED vars
  PROVE  Inv'
<1>1. UNCHANGED <<files, cmd, tmp, step, request, fd, overlapped>>
  BY DEF ApplyCmdFile, Restart, vars, clients
<1>2. Busy' = Busy
  BY <1>1 DEF Busy
<1>3. up' \in BOOLEAN /\ deaths' \in 0..MaxDeaths
  BY DEF Inv, TypeOK, ApplyCmdFile, Restart, vars, daemon
<1>4. applied' \in Docs /\ last_cmd' \in Docs \cup {None}
  <2>1. Current \in Docs \cup {None}
    BY DEF Current, Inv, TypeOK, Whole
  <2>. QED
    BY <2>1 DEF Inv, TypeOK, ApplyCmdFile, Restart, vars, daemon, Docs
<1>5. TypeOK'
  BY <1>1, <1>2, <1>3, <1>4 DEF Inv, TypeOK
<1>6. LinksApart' /\ AloneAtWork' /\ AsksForADocument'
  BY <1>1, <1>2 DEF Inv, LinksApart, AloneAtWork, AsksForADocument
<1>7. AloneProtocol'
  BY <1>1 DEF Inv, AloneProtocol, Whole
<1>. QED
  BY <1>5, <1>6, <1>7 DEF Inv

\* The invariant of the channel, whatever clients, kills and restarts do.
THEOREM Invariance == Spec => []Inv
<1>1. Inv /\ [Next]_vars => Inv'
  <2> SUFFICES ASSUME Inv, [Next]_vars PROVE Inv'
    OBVIOUS
  <2>1. ASSUME NEW p \in Clients, Client(p) PROVE Inv'
    <3>1. CASE HoldRejected(p) \/ Stops(p)
      BY <3>1, GiveUpInv DEF HoldRejected, Stops
    <3>. QED
      BY <2>1, <3>1, BeginInv, OpenInv, WriteInv, RenameInv DEF Client
  <2>. QED
    BY <2>1, DieInv, DaemonInv DEF Next
<1>. QED
  BY <1>1, InitInv, PTL DEF Spec

\* Every variable has its type, and a client holds a file open exactly while it
\* is between its open and the end of its write (cli.rs write_atomic).
THEOREM ChannelTypeOK == Spec => []TypeOK
<1>1. Inv => TypeOK
  BY DEF Inv
<1>. QED
  BY <1>1, Invariance, PTL

\* cmd.json changes only into a whole document while no two clients met
\* (cli.rs write_atomic).
THEOREM PublishingIsAtomic == Spec => AloneIsAtomic
<1> DEFINE Step == overlapped = {} /\ cmd' # None /\ (cmd' # cmd \/ files'[cmd'] # files[cmd'])
                     => Whole(files'[cmd'])
<1>1. ASSUME Inv, [Next]_vars PROVE [Step]_vars
  <2> SUFFICES ASSUME Next, overlapped = {}, cmd' # None,
                      cmd' # cmd \/ files'[cmd'] # files[cmd']
               PROVE  Whole(files'[cmd'])
    BY <1>1
  <2>1. CASE \E p \in Clients : HoldRejected(p) \/ Stops(p)
    BY <2>1, <1>1, ReclaimKeeps DEF HoldRejected, Stops, Exit, Inv, TypeOK
  <2>2. ASSUME NEW p \in Clients, Open(p) PROVE FALSE
    <3>1. TmpInode # cmd /\ TmpInode \in Inodes
      BY <2>2, <1>1, TmpInodeFacts DEF Open, Inv
    <3>. QED
      BY <3>1, <2>2, <1>1 DEF Open, Inv, TypeOK
  <2>3. ASSUME NEW p \in Clients, Write(p) PROVE FALSE
    <3>1. fd[p] # cmd
      BY <2>3, <1>1 DEF Write, Inv, AloneProtocol
    <3>. QED
      BY <3>1, <2>3, <1>1 DEF Write, Inv, TypeOK
  <2>4. ASSUME NEW p \in Clients, Rename(p) PROVE Whole(files'[cmd'])
    <3>1. Whole(files[tmp]) /\ tmp \in Inodes
      BY <2>4, <1>1 DEF Rename, Inv, AloneProtocol, TypeOK
    <3>2. files'[tmp] = files[tmp] /\ cmd' = tmp
      BY <3>1, <2>4, <1>1, ReclaimKeeps DEF Rename, Exit, Inv
    <3>. QED
      BY <3>1, <3>2
  <2>5. CASE (\E p \in Clients : Begin(p)) \/ ApplyCmdFile \/ Restart \/ Die
    BY <2>5 DEF Begin, ApplyCmdFile, Restart, Die
  <2>. QED
    BY <2>1, <2>2, <2>3, <2>4, <2>5 DEF Next, Client
<1>. QED
  BY <1>1, Invariance, PTL DEF Spec, AloneIsAtomic

\* A client that met no other one and reports success has published its own
\* document (cli.rs write_cmd).
THEOREM SuccessIsPublication == Spec => SuccessMeansPublished
<1> DEFINE Step == \A p \in Clients :
                     step[p] # "done" /\ step'[p] = "done" /\ p \notin overlapped
                       => Current' = request[p]
<1>1. ASSUME Inv, [Next]_vars PROVE [Step]_vars
  <2> SUFFICES ASSUME Next, NEW p \in Clients, step[p] # "done", step'[p] = "done",
                      p \notin overlapped
               PROVE  Current' = request[p]
    BY <1>1
  <2>1. Rename(p)
    <3>1. PICK q \in Clients : Client(q)
      BY DEF Next, ApplyCmdFile, Die, Restart, clients
    <3>. QED
      BY <3>1, <1>1 DEF Client, Begin, HoldRejected, Open, Write, Rename, Stops, Exit, Inv, TypeOK
  <2>2. /\ Whole(files[tmp]) /\ files[tmp].doc = request[p]
        /\ tmp \in Inodes /\ tmp # None
    BY <2>1, <1>1 DEF Rename, Inv, AloneProtocol, TypeOK
  <2>3. cmd' = tmp /\ files'[tmp] = files[tmp]
    BY <2>1, <2>2, <1>1, ReclaimKeeps DEF Rename, Exit, Inv
  <2>. QED
    BY <2>2, <2>3 DEF Current, Whole
<1>. QED
  BY <1>1, Invariance, PTL DEF Spec, SuccessMeansPublished
=============================================================================
