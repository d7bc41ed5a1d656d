------------------------------ MODULE SettleWrite ------------------------------
(*****************************************************************************)
(* The verified write of src/src/smc.rs: settle_write and settle, as called  *)
(* by set_mode, write_speed and (without the re-issue) probe_safe_restore.   *)
(* The value is written, the attribute is sampled over a settle window, and  *)
(* when no sample matched the write is re-issued, at most WriteRetryMax      *)
(* times.  Any failed write or read ends the call at once.                   *)
(*                                                                           *)
(* The SMC adopts a written value some time later (the comment of            *)
(* ECHO_SETTLE_MS, policy.rs), possibly after the call is over: at any step  *)
(* between two samples, or never within the window.                          *)
(*                                                                           *)
(* A definition whose comment starts with "Seeded bug" is not part of the    *)
(* specification: it is a wrong version of the definition that follows it.   *)
(*****************************************************************************)
EXTENDS Integers

CONSTANTS
  Values, Tolerance, FirmwareValues, None,
  WriteRetryMax,     \* WRITE_RETRY_MAX
  SettleSamples      \* ECHO_SETTLE_SAMPLES

ASSUME ValuesAssumption ==
  /\ Values \subseteq Nat
  /\ FirmwareValues \subseteq Values
  /\ Tolerance \in Nat
  /\ None \notin Nat

ASSUME SettleAssumption ==
  WriteRetryMax \in Nat /\ SettleSamples \in Nat \ {0}

VARIABLES
  register,          \* what a read of the attribute returns
  in_flight,         \* a value written and not adopted yet, or None
  pc,                \* "idle", "write" (about to write), "sample" (about to read)
  wanted,            \* the value of the call under way, or of the last one
  reissues_left,     \* how often this call may still write again
  sampled,           \* samples taken in this settle window
  outcome            \* how the last call ended: "none", "ok", "err"

vars == <<register, in_flight, pc, wanted, reissues_left, sampled, outcome>>

\* The sample matches: exactly, or within the echo tolerance.
Accepted(value) ==
  {v \in Values : v - value <= Tolerance /\ value - v <= Tolerance}

Init ==
  /\ register \in Values
  /\ in_flight = None /\ wanted = None
  /\ pc = "idle" /\ outcome = "none"
  /\ reissues_left = 0 /\ sampled = 0

\* set_mode and write_speed may re-issue the write, the probe may not.
Call(value) ==
  /\ pc = "idle"
  /\ pc' = "write" /\ wanted' = value /\ outcome' = "none"
  /\ reissues_left' \in {0, WriteRetryMax}
  /\ sampled' = 0
  /\ UNCHANGED <<register, in_flight>>

Return(result) ==
  pc' = "idle" /\ outcome' = result

\* Seeded bug: an attribute that already reads right is not written.
WriteUnlessThere ==
  /\ pc = "write"
  /\ in_flight' = IF register \in Accepted(wanted) THEN in_flight ELSE wanted
  /\ pc' = "sample" /\ sampled' = 0
  /\ UNCHANGED <<register, wanted, reissues_left, outcome>>

\* fs::write takes the value; what an earlier call left in flight is replaced.
Write ==
  /\ pc = "write"
  /\ in_flight' = wanted
  /\ pc' = "sample" /\ sampled' = 0
  /\ UNCHANGED <<register, wanted, reissues_left, outcome>>

\* The write or read syscall fails, or the read-back does not parse.
SyscallFails ==
  /\ pc \in {"write", "sample"}
  /\ Return("err")
  /\ UNCHANGED <<register, in_flight, wanted, reissues_left, sampled>>

SampleMatches ==
  /\ pc = "sample"
  /\ register \in Accepted(wanted)
  /\ Return("ok")
  /\ UNCHANGED <<register, in_flight, wanted, reissues_left, sampled>>

\* Seeded bug: one sample too many in the window.
SampleDiffersOnceMore ==
  /\ pc = "sample"
  /\ register \notin Accepted(wanted)
  /\ sampled + 1 <= SettleSamples
  /\ sampled' = sampled + 1
  /\ UNCHANGED <<register, in_flight, pc, wanted, reissues_left, outcome>>

SampleDiffers ==
  /\ pc = "sample"
  /\ register \notin Accepted(wanted)
  /\ sampled + 1 < SettleSamples
  /\ sampled' = sampled + 1
  /\ UNCHANGED <<register, in_flight, pc, wanted, reissues_left, outcome>>

\* Seeded bug: writes again for as long as the window expires.
WindowExpiresForEver ==
  /\ pc = "sample"
  /\ register \notin Accepted(wanted)
  /\ sampled + 1 = SettleSamples
  /\ pc' = "write"
  /\ UNCHANGED <<register, in_flight, wanted, reissues_left, sampled, outcome>>

\* Seeded bug: the re-issued write is taken for good.
WindowExpiresUnverified ==
  /\ pc = "sample"
  /\ register \notin Accepted(wanted)
  /\ sampled + 1 = SettleSamples
  /\ IF reissues_left > 0
     THEN /\ pc' = "write" /\ reissues_left' = reissues_left - 1
          /\ UNCHANGED outcome
     ELSE Return("ok") /\ UNCHANGED reissues_left
  /\ UNCHANGED <<register, in_flight, wanted, sampled>>

\* The last sample of the window differs too: write again or VerifyFailed.
WindowExpires ==
  /\ pc = "sample"
  /\ register \notin Accepted(wanted)
  /\ sampled + 1 = SettleSamples
  /\ IF reissues_left > 0
     THEN /\ pc' = "write" /\ reissues_left' = reissues_left - 1
          /\ UNCHANGED outcome
     ELSE Return("err") /\ UNCHANGED reissues_left
  /\ UNCHANGED <<register, in_flight, wanted, sampled>>

\* The SMC's own tick.
Adopt ==
  /\ in_flight # None
  /\ register' = in_flight
  /\ in_flight' = None
  /\ UNCHANGED <<pc, wanted, reissues_left, sampled, outcome>>

\* The firmware changes the register on its own (a reclaim, a new floor).
FirmwareSets ==
  /\ register' \in FirmwareValues
  /\ UNCHANGED <<in_flight, pc, wanted, reissues_left, sampled, outcome>>

Writer == Write \/ SyscallFails \/ SampleMatches \/ SampleDiffers \/ WindowExpires

Next == (\E value \in Values : Call(value)) \/ Writer \/ Adopt \/ FirmwareSets

Spec == Init /\ [][Next]_vars

\* The thread in a call goes on: sleeps end and syscalls return.
FairSpec == Spec /\ WF_vars(Writer)

-----------------------------------------------------------------------------
(* Properties *)

\* The types of the variables.
TypeOK ==
  /\ register \in Values
  /\ in_flight \in Values \cup {None}
  /\ pc \in {"idle", "write", "sample"}
  /\ wanted \in Values \cup {None}
  /\ pc # "idle" => wanted \in Values
  /\ reissues_left \in 0..WriteRetryMax
  /\ sampled \in 0..(SettleSamples - 1)
  /\ outcome \in {"none", "ok", "err"}

\* Once its value is written, a call has nothing but that value in flight, and
\* after an Ok nothing else can still land: the leftover of an earlier, failed
\* call cannot undo a verified write.
NothingElseInFlight ==
  pc = "sample" \/ outcome = "ok" => in_flight \in {None, wanted}

\* A call under way has no outcome yet.
OutcomeWhenIdle == pc # "idle" => outcome = "none"

Inv == TypeOK /\ NothingElseInFlight /\ OutcomeWhenIdle

\* A value that was verified leaves the register only by the firmware's hand,
\* until the next call.
VerifiedValueStays ==
  [][outcome = "ok" /\ register \in Accepted(wanted) /\ UNCHANGED wanted
       => register' \in Accepted(wanted) \/ register' \in FirmwareValues]_vars

\* Every call returns.
EveryCallReturns == pc # "idle" ~> pc = "idle"

\* The writes and samples a call may still make, its end counted too, ...
StepsLeft ==
  IF pc = "idle" THEN 0
  ELSE reissues_left * (SettleSamples + 1)
         + (IF pc = "write" THEN SettleSamples + 1 ELSE SettleSamples - sampled)

\* ... and how often it may still sleep: settle sleeps between two samples.
SleepsLeft ==
  IF pc = "idle" THEN 0
  ELSE reissues_left * (SettleSamples - 1)
         + (IF pc = "write" THEN SettleSamples - 1 ELSE SettleSamples - 1 - sampled)

\* settle_write: whatever the SMC and the firmware do to the register, every
\* step of a call brings its end nearer, and none of theirs puts it off.
CallsAreBounded ==
  [][/\ Writer => StepsLeft' < StepsLeft
     /\ pc # "idle" => StepsLeft' <= StepsLeft]_vars

\* settle: a call sleeps no longer than the windows of its write and of its
\* re-issues, which is what the watchdog's budget is made of.
SleepsAreBounded ==
  [][/\ SleepsLeft' \in 0..((WriteRetryMax + 1) * (SettleSamples - 1))
     /\ SampleDiffers => SleepsLeft' < SleepsLeft
     /\ pc # "idle" => SleepsLeft' <= SleepsLeft]_vars

\* settle_write keeps the promise of FanWrite.
Promise == INSTANCE FanWrite WITH busy <- (pc # "idle")

KeepsPromise == Promise!Spec
=============================================================================
