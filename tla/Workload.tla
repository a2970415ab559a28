------------------------------ MODULE Workload ------------------------------
(***************************************************************************)
(* APPLYING_WORKLOAD: ApplyingWorkloadHandler.Execute with the             *)
(* SampleAdapter (internal/workload/sample.go), command by command, inside *)
(* one guest whose image may already run another version of the artifact. *)
(*                                                                         *)
(* A worker may crash, and another may take the job over while the first   *)
(* is still at work.  Every command may fail, before or after it had its   *)
(* effect, and a file that is being written may be left torn.              *)
(***************************************************************************)
EXTENDS Naturals, FiniteSets, Sequences

CONSTANTS
  Workers,
  Wanted,     \* the version WorkloadSpec asks for
  Older,      \* the version an image may hold
  None,
  MaxFaults,  \* bound on failing commands, crashes, takeovers and dying services
  MaxTries    \* bound on how often the transition is begun

VARIABLES
  guest,    \* what the workload consists of inside the guest
  intact,   \* the artifact's content has the checksum the spec states
  adapter,  \* instance.workload_adapter
  state, mapping, address,  \* of the instance, its egress mapping and its address
  pc, step, valid, late,  \* per worker
  removal,  \* progress of the adapter's Remove
  faults, tries,
  image,      \* history: the guest as it was cloned
  verdict,    \* history: the guest when the last PASS was decided, CleanImage before
  overlapped, \* history: two workers were at it at one time
  misread,    \* history: an installed version was installed again, its marker unread
  lostVerdict,\* history: a FAIL has isolated the instance and was never saved
  unisolated, \* history: a call that isolates the instance failed
  unremoved,  \* history: Remove ignored a failing command
  wasMarked   \* history: the marker was readable when Remove was first called

worker == <<pc, step, valid, late>>
inst   == <<state, mapping, address>>
hist   == <<image, verdict, overlapped, misread, lostVerdict, unisolated, unremoved, wasMarked>>
vars   == <<guest, intact, adapter, inst, worker, removal, faults, tries, hist>>

Versions == {Wanted, Older}
Torn     == "torn"
Files    == Versions \cup {None, Torn}

(* half a file is neither a version nor nothing *)
ASSUME WorkloadAssumption ==
  /\ Wanted # Older /\ None \notin Versions /\ Torn \notin Versions \cup {None}
  /\ MaxFaults \in Nat /\ MaxTries \in Nat

Guest == [artifact : Files, exec : BOOLEAN, unit : Files, enabled : BOOLEAN,
          running : Versions \cup {None}, marker : Files]

CleanImage == [artifact |-> None, exec |-> FALSE, unit |-> None, enabled |-> FALSE,
               running |-> None, marker |-> None]
Holding(v) == [artifact |-> v, exec |-> TRUE, unit |-> v, enabled |-> TRUE,
               running |-> v, marker |-> v]

Labels == {"idle", "check", "marker", "install", "validate", "health", "suspend", "quarantine", "save"}

Working == {w \in Workers : pc[w] # "idle"}

Init ==
  /\ guest \in {CleanImage, Holding(Older)}
  /\ image = guest
  /\ intact \in BOOLEAN
  /\ adapter \in {"sample", "noop", "unregistered"}
  /\ state = "APPLYING_WORKLOAD" /\ mapping = "active" /\ address = "held"
  /\ pc = [w \in Workers |-> "idle"]
  /\ step = [w \in Workers |-> 0]
  /\ valid = [w \in Workers |-> FALSE]
  /\ late = [w \in Workers |-> FALSE]
  /\ removal = 0 /\ faults = 0 /\ tries = 0
  /\ verdict = CleanImage /\ overlapped = FALSE /\ misread = FALSE /\ lostVerdict = FALSE
  /\ unisolated = FALSE /\ unremoved = FALSE /\ wasMarked = FALSE

Fault == faults < MaxFaults /\ faults' = faults + 1
-----------------------------------------------------------------------------
(* Commands inside the guest *)

(* what systemd gets to run when it is asked to start the service *)
Startable(g) ==
  IF g.unit \in Versions /\ g.exec /\ g.artifact \in Versions THEN g.artifact ELSE None

(* faulty variant of InstallSteps: the marker is written before the service is enabled *)
InstallStepsMarkerFirst == <<"mkdir", "artifact", "chmod", "unit", "reload", "marker", "enable">>

InstallSteps == <<"mkdir", "artifact", "chmod", "unit", "reload", "enable", "marker">>

(* faulty variant of RemoveSteps: the marker goes first *)
RemoveStepsMarkerFirst == <<"rmMarker", "disable", "rmUnit", "rmArtifact", "reload">>

RemoveSteps == <<"disable", "rmUnit", "rmArtifact", "rmMarker", "reload">>

(* removal is 0 before the first call, the command that is next during one, and *)
Removed  == Len(RemoveSteps) + 1
CutShort == Len(RemoveSteps) + 2

(* `enable --now` starts what is not running and leaves alone what is *)
Done(command, g) ==
  CASE command = "artifact"   -> [g EXCEPT !.artifact = Wanted]
    [] command = "chmod"      -> [g EXCEPT !.exec = TRUE]
    [] command = "unit"       -> [g EXCEPT !.unit = Wanted]
    [] command = "enable"     -> [g EXCEPT !.enabled = TRUE,
                                           !.running = IF @ = None THEN Startable(g) ELSE @]
    [] command = "marker"     -> [g EXCEPT !.marker = Wanted]
    [] command = "disable"    -> [g EXCEPT !.enabled = FALSE, !.running = None]
    [] command = "rmUnit"     -> [g EXCEPT !.unit = None]
    [] command = "rmArtifact" -> [g EXCEPT !.artifact = None, !.exec = FALSE]
    [] command = "rmMarker"   -> [g EXCEPT !.marker = None]
    [] OTHER                  -> g

(* a command that reports a failure had no effect, all of it, or wrote half a file *)
Undone(command, g) ==
  {g, Done(command, g)} \cup
  (IF command \in {"artifact", "unit", "marker"} THEN {[g EXCEPT ![command] = Torn]} ELSE {})
-----------------------------------------------------------------------------
(* The transition, as worker w goes through it *)

Goto(w, label) == pc' = [pc EXCEPT ![w] = label]

Keep == UNCHANGED <<intact, adapter, tries, image>>
KeepHist == UNCHANGED <<verdict, overlapped, misread, lostVerdict, unisolated, unremoved, wasMarked>>

Move(w, label) ==
  /\ Goto(w, label)
  /\ UNCHANGED <<inst, step, valid, late, removal>> /\ Keep /\ KeepHist

Quiet == UNCHANGED <<guest, faults>>
Disturbed == Fault /\ UNCHANGED guest

(* the slot that has claimed the job; a second one only after a takeover *)
Begin(w) ==
  /\ pc[w] = "idle" /\ state = "APPLYING_WORKLOAD" /\ tries < MaxTries
  /\ adapter \in {"sample", "noop"}   \* else Execute returns an error at once
  /\ IF Working = {} THEN UNCHANGED <<faults, overlapped>> ELSE Fault /\ overlapped' = TRUE
  /\ Goto(w, IF adapter = "noop" THEN "save" ELSE "check")
  /\ step' = [step EXCEPT ![w] = 1]
  /\ valid' = [valid EXCEPT ![w] = adapter = "noop"]
  /\ late' = [late EXCEPT ![w] = FALSE]
  /\ tries' = tries + 1
  /\ UNCHANGED <<guest, intact, adapter, inst, removal, image, verdict, misread, lostVerdict,
                 unisolated, unremoved, wasMarked>>

ChecksumHolds == intact

(* the artifact is checked before the guest is touched *)
CheckArtifact(w) ==
  /\ pc[w] = "check"
  /\ Move(w, IF ChecksumHolds THEN "marker" ELSE "suspend")
  /\ Quiet

(* readMarker: the command may fail, and half a file is not JSON *)
ReadMarker(marker) ==
  \/ marker = (IF guest.marker \in Versions THEN guest.marker ELSE None) /\ Quiet
  \/ marker = None /\ Disturbed

IsInstalled(marker) == marker = Wanted

FindMarker(w) ==
  LET Found(marker) == Move(w, IF IsInstalled(marker) THEN "validate" ELSE "install")
      NotFound == /\ misread' = (misread \/ guest.marker = Wanted)
                  /\ Goto(w, "install")
                  /\ UNCHANGED <<inst, step, valid, late, removal, verdict, overlapped, lostVerdict,
                                 unisolated, unremoved, wasMarked>> /\ Keep
  IN /\ pc[w] = "marker"
     /\ \E marker \in Versions \cup {None} :
          ReadMarker(marker) /\ IF marker = None THEN NotFound ELSE Found(marker)

(* faulty variant of IsLast: one command too many *)
IsLastOffByOne(w) == step[w] > Len(InstallSteps)

IsLast(w) == step[w] = Len(InstallSteps)

Install(w) ==
  /\ pc[w] = "install"
  /\ guest' = Done(InstallSteps[step[w]], guest)
  /\ step' = [step EXCEPT ![w] = @ + 1]
  /\ Goto(w, IF IsLast(w) THEN "validate" ELSE "install")
  /\ UNCHANGED <<inst, valid, late, removal, faults>> /\ Keep /\ KeepHist

(* an install error is a FAIL, not an error of the step *)
InstallFails(w) ==
  /\ pc[w] = "install"
  /\ Fault
  /\ guest' \in Undone(InstallSteps[step[w]], guest)
  /\ Move(w, "suspend")

(* the marker must be there and readable; the verdict waits for the health *)
Validate(w) ==
  /\ pc[w] = "validate"
  /\ \E marker \in Versions \cup {None} :
       ReadMarker(marker) /\ valid' = [valid EXCEPT ![w] = marker # None]
  /\ Goto(w, "health")
  /\ UNCHANGED <<inst, step, late, removal>> /\ Keep /\ KeepHist

DeadlinePasses(w) ==
  /\ pc[w] = "health" /\ ~late[w]
  /\ late' = [late EXCEPT ![w] = TRUE]
  /\ UNCHANGED <<guest, inst, pc, step, valid, removal, faults>> /\ Keep /\ KeepHist

IsActive == guest.running # None

(* faulty variant of GivesUp: health is asked for until it is good *)
GivesUpNever(w) == FALSE

(* asked after the answer: a late service still passes if it is up by then *)
GivesUp(w) == late[w]

PollHealthy(w) ==
  LET Pass == /\ verdict' = guest
              /\ Goto(w, "save")
              /\ UNCHANGED <<inst, step, valid, late, removal, overlapped, misread, lostVerdict,
                             unisolated, unremoved, wasMarked>> /\ Keep
  IN /\ pc[w] = "health"
     /\ guest.marker \in Versions /\ IsActive
     /\ IF valid[w] THEN Pass ELSE Move(w, "suspend")
     /\ Quiet

(* the service is down, or its status cannot be had *)
PollUnhealthy(w) ==
  /\ pc[w] = "health"
  /\ \/ (guest.marker \notin Versions \/ ~IsActive) /\ Quiet
     \/ Disturbed
  /\ GivesUp(w) /\ Move(w, "suspend")

(* FAIL: both calls may fail, and their errors are dropped *)
Isolating(w, label, effect) ==
  /\ Goto(w, label)
  /\ valid' = [valid EXCEPT ![w] = FALSE]
  /\ \/ effect /\ UNCHANGED <<faults, unisolated>>
     \/ UNCHANGED inst /\ Fault /\ unisolated' = TRUE
  /\ UNCHANGED <<guest, step, late, removal, verdict, overlapped, misread, lostVerdict, unremoved,
                 wasMarked>> /\ Keep

SuspendMapping(w) ==
  /\ pc[w] = "suspend"
  /\ Isolating(w, "quarantine", mapping' = "suspended" /\ UNCHANGED <<state, address>>)

MarkQuarantined(w) ==
  /\ pc[w] = "quarantine"
  /\ Isolating(w, "save", address' = "quarantined" /\ UNCHANGED <<state, mapping>>)

(* faulty variant of Verdict: a service that is up outweighs an install that failed *)
VerdictOfHealth(w) == IF valid[w] \/ guest.running # None THEN "READY" ELSE "QUARANTINED"

Verdict(w) == IF valid[w] THEN "READY" ELSE "QUARANTINED"

(* the validation run and the new state are one transaction, whatever the state is by then *)
Save(w) ==
  /\ pc[w] = "save"
  /\ state' = Verdict(w)
  /\ Goto(w, "idle")
  /\ UNCHANGED <<guest, mapping, address, step, valid, late, removal, faults>> /\ Keep /\ KeepHist

(* the transaction fails, or the worker dies at any time: the job is claimed again *)
Abandon(w) ==
  /\ pc[w] # "idle"
  /\ Fault
  /\ Goto(w, "idle")
  /\ lostVerdict' = (lostVerdict \/ mapping = "suspended" \/ address = "quarantined")
  /\ UNCHANGED <<guest, inst, step, valid, late, removal, verdict, overlapped, misread, unisolated,
                 unremoved, wasMarked>> /\ Keep
-----------------------------------------------------------------------------
(* The guest on its own, and Remove *)

(* Restart=on-failure may bring the service back, as what is on the disk now *)
ServiceDies ==
  /\ guest.running # None
  /\ Fault
  /\ guest' \in {[guest EXCEPT !.running = r] : r \in {None, Startable(guest)}}
  /\ UNCHANGED <<inst, worker, removal>> /\ Keep /\ KeepHist

Settled == state # "APPLYING_WORKLOAD" /\ Working = {}

Removing(r, effect) ==
  /\ removal' = r
  /\ effect
  /\ UNCHANGED <<inst, worker, verdict, overlapped, misread, lostVerdict, unisolated>> /\ Keep

(* without a readable marker there is nothing to remove *)
BeginRemove ==
  LET Found    == Removing(1, wasMarked' = (wasMarked \/ removal = 0) /\ UNCHANGED unremoved)
      NotFound == Removing(Removed, UNCHANGED <<wasMarked, unremoved>>)
  IN /\ Settled /\ adapter = "sample" /\ removal \in {0, CutShort}
     /\ \E marker \in Versions \cup {None} :
          ReadMarker(marker) /\ IF marker = None THEN NotFound ELSE Found

(* every error but the last command's is ignored *)
Remove ==
  /\ removal \in DOMAIN RemoveSteps
  /\ \/ /\ guest' = Done(RemoveSteps[removal], guest)
        /\ Removing(removal + 1, UNCHANGED <<faults, wasMarked, unremoved>>)
     \/ /\ Fault /\ removal < Len(RemoveSteps)
        /\ guest' \in Undone(RemoveSteps[removal], guest)
        /\ Removing(removal + 1, unremoved' = TRUE /\ UNCHANGED wasMarked)

(* the caller dies, or the last command fails: Remove is called again *)
RemoveCutShort ==
  /\ removal \in DOMAIN RemoveSteps
  /\ Fault /\ UNCHANGED guest
  /\ Removing(CutShort, UNCHANGED <<wasMarked, unremoved>>)

WorkerStep(w) ==
  \/ Begin(w) \/ CheckArtifact(w) \/ FindMarker(w) \/ Install(w) \/ InstallFails(w)
  \/ Validate(w) \/ DeadlinePasses(w) \/ PollHealthy(w) \/ PollUnhealthy(w)
  \/ SuspendMapping(w) \/ MarkQuarantined(w) \/ Save(w) \/ Abandon(w)

Next ==
  \/ \E w \in Workers : WorkerStep(w)
  \/ ServiceDies \/ BeginRemove \/ Remove \/ RemoveCutShort

(* A worker goes on, its deadline passes, and a call that can end does. *)
Fairness ==
  \A w \in Workers : /\ WF_vars(pc[w] # "idle" /\ WorkerStep(w))
                     /\ WF_vars(DeadlinePasses(w))

Spec == Init /\ [][Next]_vars /\ Fairness
-----------------------------------------------------------------------------
(* Well typed. *)
TypeOK ==
  /\ guest \in Guest /\ image \in Guest /\ verdict \in Guest
  /\ intact \in BOOLEAN /\ adapter \in {"sample", "noop", "unregistered"}
  /\ state \in {"APPLYING_WORKLOAD", "READY", "QUARANTINED"}
  /\ mapping \in {"active", "suspended"} /\ address \in {"held", "quarantined"}
  /\ pc \in [Workers -> Labels]
  /\ step \in [Workers -> Nat]
  /\ \A w \in Workers : pc[w] = "install" => step[w] \in DOMAIN InstallSteps
  /\ valid \in [Workers -> BOOLEAN] /\ late \in [Workers -> BOOLEAN]
  /\ removal \in 0..CutShort
  /\ faults \in 0..MaxFaults /\ tries \in 0..MaxTries
  /\ {overlapped, misread, lostVerdict, unisolated, unremoved, wasMarked} \subseteq BOOLEAN

Installed(g) == g.artifact = Wanted /\ g.exec /\ g.unit = Wanted /\ g.enabled

(* A marker with the wanted checksum, which makes Install skip everything (sample.go:87), stands   *)
(* for a complete installation, whatever failed or died before, unless two workers installed at    *)
(* once, a marker that was there could not be read, or a removal has begun.  A PASS is decided     *)
(* only on such a guest, with the service up; only if the image came with an older version can     *)
(* that one be what runs (handlers_workload.go:89: three looks at a changing guest).  Of an        *)
(* artifact with a wrong checksum nothing is ever installed (WRK-001, sample.go:80).               *)
InstalledAsClaimed ==
  /\ ~overlapped /\ ~misread =>
       /\ guest.marker = Wanted /\ removal = 0 => Installed(guest)
       /\ verdict # CleanImage =>
            /\ Installed(verdict) /\ verdict.marker = Wanted
            /\ verdict.running \in {Wanted, image.running} \ {None}
  /\ ~intact /\ removal = 0 => [guest EXCEPT !.running = image.running] = image

(* READY with a suspended mapping or a quarantined address needs a FAIL whose transaction was lost *)
(* after its calls, or a second worker; a QUARANTINED instance is cut off unless one of these      *)
(* calls failed (handlers_workload.go:115: the calls come before the state is saved).              *)
VerdictMatchesIsolation ==
  /\ state = "READY" /\ ~overlapped /\ ~lostVerdict => mapping = "active" /\ address = "held"
  /\ state = "QUARANTINED" /\ ~unisolated => mapping = "suspended" /\ address = "quarantined"

(* Once Remove has seen a marker it can be called again until nothing is left: a removal that was   *)
(* cut short keeps its marker as long as it leaves anything else (sample.go:230).  Commands whose   *)
(* failure was ignored are the exception.                                                          *)
RemoveCanBeRepeated ==
  wasMarked /\ ~unremoved =>
    guest.marker # None \/ (guest.artifact = None /\ guest.unit = None /\ guest.running = None)

(* Every application of a workload ends: pollHealth gives up at its deadline *)
(* (handlers_workload.go:151).                                              *)
EveryApplyEnds == \A w \in Workers : pc[w] # "idle" ~> pc[w] = "idle"
=============================================================================
