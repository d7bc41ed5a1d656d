------------------------------ MODULE FanCustody ------------------------------
(*****************************************************************************)
(* What the daemon promises about the fan, without saying how it keeps it:   *)
(* who has the fan, and which way the mode register may be moved meanwhile   *)
(* (docs/SAFETY.md: a fan that is not the firmware's always has a live       *)
(* process or a proven death path behind it).                                *)
(*                                                                           *)
(*   unattended   no process, or one that is still starting                  *)
(*   free         a process runs and does not own the fan                    *)
(*   driven       the process owns the fan                                   *)
(*   releasing    the process is trying to give the fan back                 *)
(*****************************************************************************)

VARIABLES
  register,   \* the fan mode register: "Auto" or "Manual"
  custody,
  net         \* the death path is armed

custodyVars == <<register, custody, net>>

Registers == {"Auto", "Manual"}

CustodyInit == register \in Registers /\ custody = "unattended" /\ net = FALSE

\* Starting only moves the register towards AUTO, and the net is hung only by
\* a write that was seen to restore AUTO.
Prepare ==
  /\ custody = "unattended"
  /\ custody' \in {"unattended", "free"}
  /\ register' \in {register, "Auto"}
  /\ net' = net \/ (net' = TRUE /\ register' = "Auto" /\ custody' = "unattended")

\* Manual is written only over a net, by a process that is not giving the fan
\* back; a write that fails may have taken effect.
Take ==
  /\ custody = "free" /\ net
  /\ \/ register' = "Manual" /\ custody' = "driven"
     \/ register' \in {register, "Manual"} /\ UNCHANGED custody
  /\ UNCHANGED net

Drive ==
  /\ custody = "driven"
  /\ register' \in Registers
  /\ UNCHANGED <<custody, net>>

\* Custody ends with the register in AUTO.
GiveBack ==
  /\ custody \in {"free", "driven", "releasing"}
  /\ register' = "Auto" /\ custody' = "free"
  /\ UNCHANGED net

\* An AUTO write failed: from now on it is tried again and Manual is not
\* written.
Release ==
  /\ custody \in {"free", "driven", "releasing"}
  /\ custody' = "releasing"
  /\ register' \in {register, "Auto"}
  /\ UNCHANGED net

\* Only a command takes a fan back that is being released.
Resume ==
  /\ custody = "releasing"
  /\ custody' \in {"driven", "free"}
  /\ UNCHANGED <<register, net>>

FirmwareTakes ==
  /\ register' = "Auto"
  /\ UNCHANGED <<custody, net>>

\* Death: the net, if there is one, may catch the fan.
Abandon ==
  /\ custody' = "unattended" /\ net' = FALSE
  /\ register' \in {register} \cup (IF net THEN {"Auto"} ELSE {})

CustodyNext ==
  Prepare \/ Take \/ Drive \/ GiveBack \/ Release \/ Resume \/ FirmwareTakes
  \/ Abandon

CustodySpec == CustodyInit /\ [][CustodyNext]_custodyVars
=============================================================================
