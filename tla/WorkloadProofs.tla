--------------------------- MODULE WorkloadProofs ---------------------------
(***************************************************************************)
(* Proofs about Workload for every number of workers, faults and tries.    *)
(***************************************************************************)
EXTENDS Workload, TLAPS

(* Without a takeover there is one worker at most, and none once the        *)
(* verdict is saved.                                                        *)
SoleInv ==
  ~overlapped =>
    /\ \A v, w \in Workers : pc[v] # "idle" /\ pc[w] # "idle" => v = w
    /\ state # "APPLYING_WORKLOAD" => Working = {}

(* A mapping that is suspended stays suspended, and an address quarantined: *)
(* who has to have made the calls, and who made them.                       *)
Isolated == mapping = "suspended" /\ address = "quarantined"

IsolationInv ==
  /\ ~unisolated =>
       /\ state = "QUARANTINED" => Isolated
       /\ \A w \in Workers : /\ pc[w] = "quarantine" => mapping = "suspended"
                             /\ pc[w] = "save" /\ ~valid[w] => Isolated
  /\ ~overlapped /\ ~lostVerdict =>
       \/ mapping = "active" /\ address = "held"
       \/ state = "QUARANTINED"
       \/ \E w \in Workers : pc[w] = "quarantine" \/ (pc[w] = "save" /\ ~valid[w])

(* What a worker that is alone has done to the guest when it is here *)
Progress(w) ==
  /\ pc[w] = "install" =>
       /\ guest.marker # Wanted
       /\ step[w] > 2 => guest.artifact = Wanted
       /\ step[w] > 3 => guest.exec
       /\ step[w] > 4 => guest.unit = Wanted
       /\ step[w] > 6 => guest.enabled
  /\ pc[w] \in {"validate", "health"} => guest.marker = Wanted

(* What runs is what the image came with, or the version asked for; nothing *)
(* is installed of an artifact with a wrong checksum.                       *)
GuestInv ==
  /\ image \in {CleanImage, Holding(Older)}
  /\ guest.artifact \in Versions => guest.artifact \in {Wanted, image.running}
  /\ guest.running \in {None, Wanted, image.running}
  /\ \A w \in Workers : pc[w] \in {"check", "marker"} => step[w] = 1
  /\ ~intact => \A w \in Workers : pc[w] \notin {"marker", "install", "validate", "health"}
  /\ ~overlapped /\ ~misread => \A w \in Workers : Progress(w)

(* A removal takes place in a settled guest; the marker goes after what it  *)
(* stands for.                                                              *)
RemovalInv ==
  /\ removal = 0 => ~wasMarked
  /\ removal # 0 => Settled
  /\ ~unremoved /\ removal \in DOMAIN RemoveSteps =>
       /\ removal > 1 => guest.running = None
       /\ removal > 2 => guest.unit = None
       /\ removal > 3 => guest.artifact = None

(* The inductive invariant. *)
WorkloadInv ==
  TypeOK /\ SoleInv /\ IsolationInv /\ GuestInv /\ RemovalInv /\ InstalledAsClaimed /\ RemoveCanBeRepeated

USE WorkloadAssumption
    DEF Keep, KeepHist, Goto, Move, Quiet, Disturbed, Fault, inst, worker, hist

(* The commands of Install, one by one: each changes the part of the guest  *)
(* it is about, and the last writes the marker.                             *)
LEMMA InstallEffect ==
  ASSUME NEW g \in Guest, NEW n \in DOMAIN InstallSteps, NEW h, h = Done(InstallSteps[n], g)
  PROVE  /\ h \in Guest
         /\ h.artifact = IF n = 2 THEN Wanted ELSE g.artifact
         /\ n = 3 \/ g.exec => h.exec
         /\ h.unit     = IF n = 4 THEN Wanted ELSE g.unit
         /\ n = 6 \/ g.enabled => h.enabled
         /\ h.running  = IF n = 6 /\ g.running = None THEN Startable(g) ELSE g.running
         /\ h.marker   = IF n = 7 THEN Wanted ELSE g.marker
<1>1. n \in {1, 2, 3, 4, 5, 6, 7}
  BY DEF InstallSteps
<1>2. CASE n \in {1, 5}
  <2>1. h = g
    BY <1>2 DEF InstallSteps, Done
  <2> QED
    BY <1>2, <2>1 DEF Guest
<1>3. CASE n = 2
  <2>1. h = [g EXCEPT !.artifact = Wanted]
    BY <1>3 DEF InstallSteps, Done
  <2> QED
    BY <1>3, <2>1 DEF Guest, Files, Versions
<1>4. CASE n = 3
  <2>1. h = [g EXCEPT !.exec = TRUE]
    BY <1>4 DEF InstallSteps, Done
  <2>2. h \in Guest
    BY <2>1 DEF Guest
  <2> QED
    BY <1>4, <2>1, <2>2 DEF Guest
<1>5. CASE n = 4
  <2>1. h = [g EXCEPT !.unit = Wanted]
    BY <1>5 DEF InstallSteps, Done
  <2> QED
    BY <1>5, <2>1 DEF Guest, Files, Versions
<1>6. CASE n = 6
  <2> DEFINE r == IF g.running = None THEN Startable(g) ELSE g.running
  <2>1. r \in Versions \cup {None}
    BY DEF Guest, Startable
  <2>2. h = [g EXCEPT !.enabled = TRUE, !.running = r]
    BY <1>6 DEF InstallSteps, Done
  <2>3. h \in Guest
    BY <2>1, <2>2 DEF Guest
  <2>4. h.artifact = g.artifact /\ h.unit = g.unit /\ h.enabled /\ h.running = r /\ h.marker = g.marker
    BY <2>2 DEF Guest
  <2>5. g.exec => h.exec
    BY <2>2 DEF Guest
  <2> QED
    BY <1>6, <2>3, <2>4, <2>5
<1>7. CASE n = 7
  <2>1. h = [g EXCEPT !.marker = Wanted]
    BY <1>7 DEF InstallSteps, Done
  <2> QED
    BY <1>7, <2>1 DEF Guest, Files, Versions
<1> QED
  BY <1>1, <1>2, <1>3, <1>4, <1>5, <1>6, <1>7

(* A command of Install that fails may leave its file torn. *)
LEMMA InstallUndone ==
  ASSUME NEW g \in Guest, NEW n \in DOMAIN InstallSteps, NEW h \in Undone(InstallSteps[n], g)
  PROVE  /\ h \in Guest
         /\ h.artifact \in {g.artifact} \cup (IF n = 2 THEN {Wanted, Torn} ELSE {})
         /\ g.exec => h.exec
         /\ h.unit     \in {g.unit} \cup (IF n = 4 THEN {Wanted, Torn} ELSE {})
         /\ g.enabled => h.enabled
         /\ h.running  \in {g.running} \cup (IF n = 6 /\ g.running = None THEN {Startable(g)} ELSE {})
         /\ h.marker   \in {g.marker} \cup (IF n = 7 THEN {Wanted, Torn} ELSE {})
<1>1. CASE h = g
  BY <1>1
<1>2. CASE h = Done(InstallSteps[n], g)
  BY <1>2, InstallEffect
<1>3. CASE n = 2 /\ h = [g EXCEPT !.artifact = Torn]
  BY <1>3 DEF Guest, Files
<1>4. CASE n = 4 /\ h = [g EXCEPT !.unit = Torn]
  BY <1>4 DEF Guest, Files
<1>5. CASE n = 7 /\ h = [g EXCEPT !.marker = Torn]
  BY <1>5 DEF Guest, Files
<1>6. \/ h \in {g, Done(InstallSteps[n], g)}
      \/ n = 2 /\ h = [g EXCEPT !.artifact = Torn]
      \/ n = 4 /\ h = [g EXCEPT !.unit = Torn]
      \/ n = 7 /\ h = [g EXCEPT !.marker = Torn]
  BY DEF Undone, InstallSteps
<1> QED
  BY <1>1, <1>2, <1>3, <1>4, <1>5, <1>6

(* The commands of Remove, which only take away. *)
LEMMA RemoveEffect ==
  ASSUME NEW g \in Guest, NEW n \in DOMAIN RemoveSteps, NEW h, h = Done(RemoveSteps[n], g)
  PROVE  /\ h \in Guest
         /\ h.running  = IF n = 1 THEN None ELSE g.running
         /\ h.unit     = IF n = 2 THEN None ELSE g.unit
         /\ h.artifact = IF n = 3 THEN None ELSE g.artifact
         /\ h.marker   = IF n = 4 THEN None ELSE g.marker
<1>1. n \in {1, 2, 3, 4, 5}
  BY DEF RemoveSteps
<1>2. CASE n = 1
  <2>1. h = [g EXCEPT !.enabled = FALSE, !.running = None]
    BY <1>2 DEF RemoveSteps, Done
  <2>2. h \in Guest
    BY <2>1 DEF Guest
  <2>3. h.running = None /\ h.unit = g.unit /\ h.artifact = g.artifact /\ h.marker = g.marker
    BY <2>1 DEF Guest
  <2> QED
    BY <1>2, <2>2, <2>3
<1>3. CASE n = 2
  <2>1. h = [g EXCEPT !.unit = None]
    BY <1>3 DEF RemoveSteps, Done
  <2> QED
    BY <1>3, <2>1 DEF Guest, Files
<1>4. CASE n = 3
  <2>1. h = [g EXCEPT !.artifact = None, !.exec = FALSE]
    BY <1>4 DEF RemoveSteps, Done
  <2>2. h \in Guest
    BY <2>1 DEF Guest, Files
  <2>3. h.running = g.running /\ h.unit = g.unit /\ h.artifact = None /\ h.marker = g.marker
    BY <2>1 DEF Guest
  <2> QED
    BY <1>4, <2>2, <2>3
<1>5. CASE n = 4
  <2>1. h = [g EXCEPT !.marker = None]
    BY <1>5 DEF RemoveSteps, Done
  <2> QED
    BY <1>5, <2>1 DEF Guest, Files
<1>6. CASE n = 5
  <2>1. h = g
    BY <1>6 DEF RemoveSteps, Done
  <2> QED
    BY <1>6, <2>1
<1> QED
  BY <1>1, <1>2, <1>3, <1>4, <1>5, <1>6

(* They write no file, so that none is torn. *)
LEMMA RemoveUndone ==
  ASSUME NEW g \in Guest, NEW n \in DOMAIN RemoveSteps, NEW h \in Undone(RemoveSteps[n], g)
  PROVE  h \in {g, Done(RemoveSteps[n], g)}
BY DEF RemoveSteps, Undone
-----------------------------------------------------------------------------
(* The worker *)

(* Nobody removes a workload while a worker is at it, so that a step of one *)
(* that does not settle the instance is about the guest and the verdict     *)
(* only.                                                                    *)
LEMMA WorkerKeeps ==
  ASSUME WorkloadInv, NEW w \in Workers, pc[w] # "idle", NEW l, Goto(w, l),
         UNCHANGED <<state, overlapped, removal, wasMarked>>
  PROVE  removal = 0 /\ SoleInv' /\ RemovalInv' /\ RemoveCanBeRepeated'
<1> USE DEF WorkloadInv
<1>1. removal = 0 /\ ~wasMarked
  BY DEF RemovalInv, Settled, Working
<1>2. SoleInv'
  BY DEF TypeOK, SoleInv, Working
<1>3. RemovalInv' /\ RemoveCanBeRepeated'
  BY <1>1 DEF RemovalInv, RemoveCanBeRepeated, RemoveSteps
<1> QED
  BY <1>1, <1>2, <1>3

(* A job is begun by a slot of its own, or taken over. *)
LEMMA BeginStep ==
  ASSUME WorkloadInv, NEW w \in Workers, Begin(w)
  PROVE  WorkloadInv'
<1> USE DEF WorkloadInv, Begin
<1>1. TypeOK'
  <2>1. valid' \in [Workers -> BOOLEAN] /\ overlapped' \in BOOLEAN
    BY DEF TypeOK
  <2>2. faults' \in 0..MaxFaults /\ tries' \in 0..MaxTries
    BY DEF TypeOK
  <2> QED
    BY <2>1, <2>2 DEF TypeOK, Labels, InstallSteps
<1>2. SoleInv'
  BY DEF TypeOK, SoleInv, Working
<1>3. IsolationInv'
  BY DEF TypeOK, Working, IsolationInv, Isolated
<1>4. GuestInv'
  BY DEF TypeOK, Working, GuestInv, Progress
<1>5. RemovalInv' /\ RemoveCanBeRepeated'
  BY DEF RemovalInv, Settled, RemoveCanBeRepeated, RemoveSteps
<1>6. InstalledAsClaimed'
  BY DEF InstalledAsClaimed, Installed
<1> QED
  BY <1>1, <1>2, <1>3, <1>4, <1>5, <1>6

(* The artifact is checked before anything is installed. *)
LEMMA CheckArtifactStep ==
  ASSUME WorkloadInv, NEW w \in Workers, CheckArtifact(w)
  PROVE  WorkloadInv'
<1> USE DEF WorkloadInv, CheckArtifact
<1>1. TypeOK'
  BY DEF TypeOK, Labels
<1>2. IsolationInv'
  BY DEF TypeOK, IsolationInv, Isolated
<1>3. GuestInv'
  BY DEF TypeOK, GuestInv, Progress, ChecksumHolds
<1>4. InstalledAsClaimed'
  BY DEF InstalledAsClaimed, Installed
<1> QED
  BY <1>1, <1>2, <1>3, <1>4, WorkerKeeps

(* The marker decides whether anything is installed; one that says so is    *)
(* believed, one that cannot be read is not there.                          *)
LEMMA FindMarkerStep ==
  ASSUME WorkloadInv, NEW w \in Workers, FindMarker(w)
  PROVE  WorkloadInv'
<1> USE DEF WorkloadInv, FindMarker, ReadMarker, IsInstalled
<1>1. TypeOK'
  <2>1. misread' \in BOOLEAN
    <3>1. misread' = misread \/ misread' = (misread \/ guest.marker = Wanted)
      OBVIOUS
    <3> QED
      BY <3>1 DEF TypeOK
  <2>2. pc' \in [Workers -> Labels]
    BY DEF TypeOK, Labels
  <2>3. step[w] = 1
    BY DEF GuestInv
  <2>4. /\ UNCHANGED <<guest, image, verdict, intact, adapter, inst, step, valid, late, removal, tries>>
        /\ UNCHANGED <<overlapped, lostVerdict, unisolated, unremoved, wasMarked>>
        /\ \A v \in Workers : v # w => pc'[v] = pc[v]
    BY DEF TypeOK
  <2>5. faults' \in 0..MaxFaults
    BY DEF TypeOK
  <2> QED
    BY <2>1, <2>2, <2>3, <2>4, <2>5 DEF TypeOK, InstallSteps
<1>2. IsolationInv'
  BY DEF TypeOK, IsolationInv, Isolated
<1>3. GuestInv'
  BY DEF TypeOK, GuestInv, Progress, Versions
<1>4. InstalledAsClaimed'
  BY DEF InstalledAsClaimed, Installed
<1> QED
  BY <1>1, <1>2, <1>3, <1>4, WorkerKeeps

(* What a worker that is alone finds when it installs: the marker is the    *)
(* last it writes, and until then everything before is there.               *)
LEMMA InstallStep ==
  ASSUME WorkloadInv, NEW w \in Workers, Install(w)
  PROVE  WorkloadInv'
<1> USE DEF WorkloadInv, Install
<1> DEFINE n == step[w]
<1>1. /\ n \in DOMAIN InstallSteps /\ n \in 1..7 /\ guest \in Guest /\ guest' = Done(InstallSteps[n], guest)
      /\ (IsLast(w) <=> n = 7)
  BY DEF TypeOK, IsLast, InstallSteps
<1>2. /\ guest' \in Guest
      /\ guest'.artifact = IF n = 2 THEN Wanted ELSE guest.artifact
      /\ n = 3 \/ guest.exec => guest'.exec
      /\ guest'.unit     = IF n = 4 THEN Wanted ELSE guest.unit
      /\ n = 6 \/ guest.enabled => guest'.enabled
      /\ guest'.running  = IF n = 6 /\ guest.running = None THEN Startable(guest) ELSE guest.running
      /\ guest'.marker   = IF n = 7 THEN Wanted ELSE guest.marker
  BY <1>1, InstallEffect
<1>3. TypeOK'
  BY <1>1, <1>2 DEF TypeOK, Labels, InstallSteps
<1>4. IsolationInv'
  BY DEF TypeOK, IsolationInv, Isolated
<1>5. GuestInv'
  <2>1. guest'.artifact \in Versions => guest'.artifact \in {Wanted, image.running}
    BY <1>2 DEF GuestInv
  <2>2. guest'.running \in {None, Wanted, image.running}
    BY <1>2 DEF GuestInv, Startable
  <2>3. ASSUME ~overlapped, ~misread, NEW v \in Workers
        PROVE  Progress(v)'
    BY <1>1, <1>2, <2>3 DEF TypeOK, SoleInv, GuestInv, Progress
  <2> QED
    BY <1>1, <2>1, <2>2, <2>3 DEF TypeOK, GuestInv
<1>6. InstalledAsClaimed'
  <2>1. ~overlapped /\ ~misread /\ guest'.marker = Wanted => Installed(guest)'
    BY <1>1, <1>2 DEF GuestInv, Progress, Installed, InstalledAsClaimed
  <2>2. intact
    BY DEF GuestInv
  <2> QED
    BY <2>1, <2>2 DEF InstalledAsClaimed
<1> QED
  BY <1>3, <1>4, <1>5, <1>6, WorkerKeeps

(* An install that fails writes the marker at its last command only. *)
LEMMA InstallFailsStep ==
  ASSUME WorkloadInv, NEW w \in Workers, InstallFails(w)
  PROVE  WorkloadInv'
<1> USE DEF WorkloadInv, InstallFails
<1> DEFINE n == step[w]
<1>1. n \in DOMAIN InstallSteps /\ n \in 1..7 /\ guest \in Guest /\ guest' \in Undone(InstallSteps[n], guest)
  BY DEF TypeOK, InstallSteps
<1>2. /\ guest' \in Guest
      /\ guest'.artifact \in {guest.artifact} \cup (IF n = 2 THEN {Wanted, Torn} ELSE {})
      /\ guest.exec => guest'.exec
      /\ guest'.unit     \in {guest.unit} \cup (IF n = 4 THEN {Wanted, Torn} ELSE {})
      /\ guest.enabled => guest'.enabled
      /\ guest'.running  \in {guest.running} \cup (IF n = 6 /\ guest.running = None THEN {Startable(guest)} ELSE {})
      /\ guest'.marker   \in {guest.marker} \cup (IF n = 7 THEN {Wanted, Torn} ELSE {})
  BY <1>1, InstallUndone
<1>3. TypeOK'
  BY <1>2 DEF TypeOK, Labels
<1>4. IsolationInv'
  BY DEF TypeOK, IsolationInv, Isolated
<1>5. GuestInv'
  <2>1. guest'.artifact \in Versions => guest'.artifact \in {Wanted, image.running}
    BY <1>2 DEF GuestInv
  <2>2. guest'.running \in {None, Wanted, image.running}
    BY <1>2 DEF GuestInv, Startable
  <2>3. ASSUME ~overlapped, ~misread, NEW v \in Workers
        PROVE  Progress(v)'
    BY <1>1, <1>2, <2>3 DEF TypeOK, SoleInv, GuestInv, Progress
  <2> QED
    BY <1>1, <2>1, <2>2, <2>3 DEF TypeOK, GuestInv
<1>6. InstalledAsClaimed'
  <2>1. ~overlapped /\ ~misread /\ guest'.marker = Wanted => Installed(guest)'
    BY <1>1, <1>2 DEF GuestInv, Progress, Installed, InstalledAsClaimed
  <2>2. intact
    BY DEF GuestInv
  <2> QED
    BY <2>1, <2>2 DEF InstalledAsClaimed
<1> QED
  BY <1>3, <1>4, <1>5, <1>6, WorkerKeeps

(* Validate reads the marker again. *)
LEMMA ValidateStep ==
  ASSUME WorkloadInv, NEW w \in Workers, Validate(w)
  PROVE  WorkloadInv'
<1> USE DEF WorkloadInv, Validate, ReadMarker
<1>1. TypeOK'
  <2>1. valid' \in [Workers -> BOOLEAN] /\ faults' \in 0..MaxFaults /\ pc' \in [Workers -> Labels]
    BY DEF TypeOK, Labels
  <2> QED
    BY <2>1 DEF TypeOK
<1>2. IsolationInv'
  BY DEF TypeOK, IsolationInv, Isolated
<1>3. GuestInv'
  BY DEF TypeOK, GuestInv, Progress
<1>4. InstalledAsClaimed'
  BY DEF InstalledAsClaimed, Installed
<1> QED
  BY <1>1, <1>2, <1>3, <1>4, WorkerKeeps

(* Time passes. *)
LEMMA DeadlinePassesStep ==
  ASSUME WorkloadInv, NEW w \in Workers, DeadlinePasses(w)
  PROVE  WorkloadInv'
BY DEF DeadlinePasses, WorkloadInv, TypeOK, SoleInv, Working, IsolationInv, Isolated, GuestInv, Progress,
   RemovalInv, Settled, InstalledAsClaimed, Installed, RemoveCanBeRepeated

(* A PASS is decided on a guest whose marker stands for an installation. *)
LEMMA PollHealthyStep ==
  ASSUME WorkloadInv, NEW w \in Workers, PollHealthy(w)
  PROVE  WorkloadInv'
<1> USE DEF WorkloadInv, PollHealthy
<1>1. TypeOK'
  BY DEF TypeOK, Labels
<1>2. IsolationInv'
  BY DEF TypeOK, IsolationInv, Isolated
<1>3. GuestInv'
  BY DEF TypeOK, GuestInv, Progress
<1>4. removal = 0
  BY WorkerKeeps DEF RemovalInv, Settled, Working
<1>5. InstalledAsClaimed'
  BY <1>4 DEF InstalledAsClaimed, Installed, GuestInv, Progress, IsActive
<1> QED
  BY <1>1, <1>2, <1>3, <1>5, WorkerKeeps

(* Without health in time the instance is isolated. *)
LEMMA PollUnhealthyStep ==
  ASSUME WorkloadInv, NEW w \in Workers, PollUnhealthy(w)
  PROVE  WorkloadInv'
<1> USE DEF WorkloadInv, PollUnhealthy
<1>1. TypeOK'
  BY DEF TypeOK, Labels
<1>2. IsolationInv'
  BY DEF TypeOK, IsolationInv, Isolated
<1>3. GuestInv'
  BY DEF TypeOK, GuestInv, Progress
<1>4. InstalledAsClaimed'
  BY DEF InstalledAsClaimed, Installed
<1> QED
  BY <1>1, <1>2, <1>3, <1>4, WorkerKeeps

(* Each of the two calls is made, or it is remembered that one failed. *)
LEMMA IsolatingStep ==
  ASSUME WorkloadInv, NEW w \in Workers, SuspendMapping(w) \/ MarkQuarantined(w)
  PROVE  WorkloadInv'
<1> USE DEF WorkloadInv, SuspendMapping, MarkQuarantined, Isolating
<1>1. TypeOK'
  <2>1. faults' \in 0..MaxFaults
    BY DEF TypeOK
  <2>2. mapping' \in {"active", "suspended"} /\ address' \in {"held", "quarantined"} /\ state' = state
    BY DEF TypeOK
  <2>3. unisolated' \in BOOLEAN
    BY DEF TypeOK
  <2>4. pc' \in [Workers -> Labels]
    BY DEF TypeOK, Labels
  <2> QED
    BY <2>1, <2>2, <2>3, <2>4 DEF TypeOK
<1>2. IsolationInv'
  BY DEF TypeOK, SoleInv, IsolationInv, Isolated
<1>3. GuestInv'
  BY DEF TypeOK, GuestInv, Progress
<1>4. InstalledAsClaimed'
  BY DEF InstalledAsClaimed, Installed
<1>5. state' = state
  OBVIOUS
<1> QED
  BY <1>1, <1>2, <1>3, <1>4, <1>5, WorkerKeeps

(* The verdict is saved when everything it stands for has been done. *)
LEMMA SaveStep ==
  ASSUME WorkloadInv, NEW w \in Workers, Save(w)
  PROVE  WorkloadInv'
<1> USE DEF WorkloadInv, Save, Verdict
<1>1. TypeOK'
  BY DEF TypeOK, Labels
<1>2. SoleInv'
  BY DEF TypeOK, SoleInv, Working
<1>3. IsolationInv'
  BY DEF TypeOK, SoleInv, Working, IsolationInv, Isolated
<1>4. GuestInv'
  BY DEF TypeOK, GuestInv, Progress
<1>5. RemovalInv' /\ RemoveCanBeRepeated'
  BY DEF RemovalInv, Settled, Working, RemoveCanBeRepeated, RemoveSteps
<1>6. InstalledAsClaimed'
  BY DEF InstalledAsClaimed, Installed
<1> QED
  BY <1>1, <1>2, <1>3, <1>4, <1>5, <1>6

(* A worker that gives up may leave an isolated instance behind. *)
LEMMA AbandonStep ==
  ASSUME WorkloadInv, NEW w \in Workers, Abandon(w)
  PROVE  WorkloadInv'
<1> USE DEF WorkloadInv, Abandon
<1>1. TypeOK'
  BY DEF TypeOK, Labels
<1>2. IsolationInv'
  BY DEF TypeOK, IsolationInv, Isolated
<1>3. GuestInv'
  BY DEF TypeOK, GuestInv, Progress
<1>4. InstalledAsClaimed'
  BY DEF InstalledAsClaimed, Installed
<1> QED
  BY <1>1, <1>2, <1>3, <1>4, WorkerKeeps
-----------------------------------------------------------------------------
(* The guest on its own, and Remove *)

(* A service that dies may come back as what is on the disk, which is what  *)
(* the image came with or the version asked for.                            *)
LEMMA ServiceDiesStep ==
  ASSUME WorkloadInv, ServiceDies
  PROVE  WorkloadInv'
<1> USE DEF WorkloadInv, ServiceDies
<1>1. PICK r \in {None, Startable(guest)} : guest' = [guest EXCEPT !.running = r]
  OBVIOUS
<1>2. guest \in Guest /\ r \in Versions \cup {None}
  BY DEF TypeOK, Guest, Startable
<1>3. guest' \in Guest
  BY <1>1, <1>2 DEF Guest
<1>4. /\ guest'.artifact = guest.artifact /\ guest'.unit = guest.unit /\ guest'.marker = guest.marker
      /\ guest'.running = r
  BY <1>1, <1>2 DEF Guest
<1>5. guest.exec => guest'.exec
  BY <1>1, <1>2 DEF Guest
<1>6. guest.enabled => guest'.enabled
  BY <1>1, <1>2 DEF Guest
<1>7. TypeOK'
  BY <1>3 DEF TypeOK
<1>8. SoleInv' /\ IsolationInv'
  BY DEF SoleInv, Working, IsolationInv, Isolated
<1>9. GuestInv'
  <2>1. guest'.running \in {None, Wanted, image.running}
    BY <1>4 DEF GuestInv, Startable
  <2>2. ASSUME NEW w \in Workers, Progress(w)
        PROVE  Progress(w)'
    BY <1>4, <1>5, <1>6, <2>2 DEF Progress
  <2> QED
    BY <1>4, <2>1, <2>2 DEF GuestInv
<1>10. RemovalInv' /\ RemoveCanBeRepeated'
  BY <1>4 DEF RemovalInv, Settled, Working, RemoveCanBeRepeated
<1>11. InstalledAsClaimed'
  <2>1. Installed(guest) => Installed(guest)'
    BY <1>4, <1>5, <1>6 DEF Installed
  <2>2. [guest' EXCEPT !.running = image.running] = [guest EXCEPT !.running = image.running]
    BY <1>1, <1>2 DEF Guest
  <2> QED
    BY <1>4, <2>1, <2>2 DEF InstalledAsClaimed
<1> QED
  BY <1>7, <1>8, <1>9, <1>10, <1>11

(* Nobody works in a guest that is settled, and what Remove does to it is   *)
(* to take away.                                                            *)
LEMMA RemovalSteps ==
  ASSUME WorkloadInv, Settled, UNCHANGED <<inst, worker>>, Keep, TypeOK', removal' # 0,
         UNCHANGED <<verdict, overlapped, misread, lostVerdict, unisolated>>,
         guest'.artifact \in {guest.artifact, None}, guest'.running \in {guest.running, None}
  PROVE  SoleInv' /\ IsolationInv' /\ GuestInv' /\ InstalledAsClaimed' /\ Settled'
<1> USE DEF WorkloadInv
<1>1. \A w \in Workers : pc[w] = "idle"
  BY DEF Settled, Working
<1>2. SoleInv' /\ IsolationInv' /\ Settled'
  BY <1>1 DEF SoleInv, Settled, Working, IsolationInv, Isolated
<1>3. GuestInv'
  BY <1>1 DEF GuestInv, Progress, Versions
<1>4. InstalledAsClaimed'
  BY DEF InstalledAsClaimed, Installed
<1> QED
  BY <1>2, <1>3, <1>4

(* Remove is called, for the first time or again. *)
LEMMA BeginRemoveStep ==
  ASSUME WorkloadInv, BeginRemove
  PROVE  WorkloadInv'
<1> USE DEF WorkloadInv, BeginRemove, ReadMarker, Removing
<1>1. /\ UNCHANGED <<inst, worker, verdict, overlapped, misread, lostVerdict, unisolated, unremoved, guest>>
      /\ Keep /\ Settled /\ removal' \in {1, Removed} /\ faults' \in 0..MaxFaults
  BY DEF TypeOK
<1>2. /\ wasMarked' \in BOOLEAN
      /\ wasMarked' /\ ~wasMarked => guest.marker # None
  BY DEF TypeOK, Versions
<1>3. TypeOK'
  BY <1>1, <1>2 DEF TypeOK, Removed, CutShort, RemoveSteps
<1>4. removal' # 0
  BY <1>1 DEF Removed, RemoveSteps
<1>5. RemovalInv'
  BY <1>1, <1>4, <1>3, RemovalSteps DEF RemovalInv, Removed, RemoveSteps
<1>6. RemoveCanBeRepeated'
  BY <1>1, <1>2 DEF RemoveCanBeRepeated
<1> QED
  BY <1>1, <1>3, <1>4, <1>5, <1>6, RemovalSteps

(* A command of Remove, whether its failure is ignored or not *)
LEMMA RemoveStep ==
  ASSUME WorkloadInv, Remove
  PROVE  WorkloadInv'
<1> USE DEF WorkloadInv, Remove, Removing
<1> DEFINE n == removal
<1>1. n \in DOMAIN RemoveSteps /\ n \in 1..5 /\ guest \in Guest /\ Settled
  BY DEF TypeOK, RemovalInv, RemoveSteps
<1>2. /\ UNCHANGED <<inst, worker, verdict, overlapped, misread, lostVerdict, unisolated, wasMarked>>
      /\ Keep /\ removal' = n + 1 /\ faults' \in 0..MaxFaults
  BY DEF TypeOK
<1>3. guest' = guest \/ guest' = Done(RemoveSteps[n], guest)
  BY <1>1, RemoveUndone
<1>4. /\ unremoved' \in BOOLEAN
      /\ ~unremoved' => ~unremoved /\ guest' = Done(RemoveSteps[n], guest)
  <2>1. unremoved \in BOOLEAN
    BY DEF TypeOK
  <2>2. CASE unremoved' = unremoved /\ guest' = Done(RemoveSteps[n], guest)
    <3> HIDE DEF WorkloadInv, Remove, Removing
    <3> QED
      BY <2>1, <2>2
  <2>3. CASE unremoved' = TRUE
    <3> HIDE DEF WorkloadInv, Remove, Removing
    <3> QED
      BY <2>3
  <2> QED
    BY <2>2, <2>3
<1>5. /\ guest' \in Guest
      /\ guest'.running \in {guest.running, None} /\ guest'.artifact \in {guest.artifact, None}
  BY <1>1, <1>3, RemoveEffect
<1>6. ~unremoved' =>
        /\ guest'.running  = IF n = 1 THEN None ELSE guest.running
        /\ guest'.unit     = IF n = 2 THEN None ELSE guest.unit
        /\ guest'.artifact = IF n = 3 THEN None ELSE guest.artifact
        /\ guest'.marker   = IF n = 4 THEN None ELSE guest.marker
  BY <1>1, <1>4, RemoveEffect
<1>7. TypeOK'
  BY <1>1, <1>2, <1>4, <1>5 DEF TypeOK, CutShort, RemoveSteps
<1>8. SoleInv' /\ IsolationInv' /\ GuestInv' /\ InstalledAsClaimed' /\ Settled'
  BY <1>1, <1>2, <1>5, <1>7, RemovalSteps
<1>9. RemovalInv'
  BY <1>1, <1>2, <1>4, <1>6, <1>8 DEF RemovalInv, RemoveSteps
<1>10. RemoveCanBeRepeated'
  BY <1>1, <1>2, <1>4, <1>6 DEF RemoveCanBeRepeated, RemovalInv
<1> QED
  BY <1>7, <1>8, <1>9, <1>10

(* A removal that is cut short leaves the guest as it is. *)
LEMMA RemoveCutShortStep ==
  ASSUME WorkloadInv, RemoveCutShort
  PROVE  WorkloadInv'
<1> USE DEF WorkloadInv, RemoveCutShort, Removing
<1>1. Settled /\ removal' \in 0..CutShort /\ removal' = 7 /\ faults' \in 0..MaxFaults
  BY DEF TypeOK, RemovalInv, CutShort, RemoveSteps
<1>2. TypeOK'
  BY <1>1 DEF TypeOK
<1>3. RemovalInv' /\ RemoveCanBeRepeated'
  BY <1>1, <1>2, RemovalSteps DEF RemovalInv, RemoveSteps, RemoveCanBeRepeated
<1> QED
  BY <1>1, <1>2, <1>3, RemovalSteps
-----------------------------------------------------------------------------
(* The invariant holds of a guest as it was cloned. *)
LEMMA InitInv == Init => WorkloadInv
<1> SUFFICES ASSUME Init PROVE WorkloadInv
  OBVIOUS
<1>1. CleanImage \in Guest /\ Holding(Older) \in Guest
  BY DEF CleanImage, Holding, Guest, Files, Versions
<1>2. TypeOK
  <2>1. /\ guest \in Guest /\ image \in Guest /\ verdict \in Guest /\ pc \in [Workers -> Labels]
        /\ step \in [Workers -> Nat] /\ \A w \in Workers : pc[w] # "install"
    BY <1>1 DEF Init, Labels
  <2>2. removal \in 0..CutShort /\ faults \in 0..MaxFaults /\ tries \in 0..MaxTries
    BY DEF Init, CutShort, RemoveSteps
  <2>3. /\ intact \in BOOLEAN /\ valid \in [Workers -> BOOLEAN] /\ late \in [Workers -> BOOLEAN]
        /\ {overlapped, misread, lostVerdict, unisolated, unremoved, wasMarked} \subseteq BOOLEAN
    BY DEF Init
  <2> QED
    BY <2>1, <2>2, <2>3 DEF Init, TypeOK
<1>3. SoleInv /\ IsolationInv /\ RemovalInv /\ RemoveCanBeRepeated
  BY DEF Init, SoleInv, IsolationInv, RemovalInv, RemoveCanBeRepeated
<1>4. GuestInv
  BY DEF Init, GuestInv, Progress, CleanImage, Holding
<1>5. InstalledAsClaimed
  <2>1. CleanImage.marker # Wanted /\ Holding(Older).marker # Wanted /\ guest \in {CleanImage, Holding(Older)}
    BY DEF Init, CleanImage, Holding, Versions
  <2>2. [guest EXCEPT !.running = image.running] = image
    BY <1>1 DEF Init, Guest
  <2> QED
    BY <2>1, <2>2 DEF Init, InstalledAsClaimed
<1> QED
  BY <1>2, <1>3, <1>4, <1>5 DEF WorkloadInv

(* Every step keeps it. *)
LEMMA InvariantStep == WorkloadInv /\ [Next]_vars => WorkloadInv'
<1> SUFFICES ASSUME WorkloadInv, [Next]_vars PROVE WorkloadInv'
  OBVIOUS
<1>1. CASE UNCHANGED vars
  BY <1>1 DEF vars, WorkloadInv, TypeOK, SoleInv, Working, IsolationInv, Isolated, GuestInv, Progress,
     RemovalInv, Settled, InstalledAsClaimed, Installed, RemoveCanBeRepeated
<1>2. ASSUME NEW w \in Workers, WorkerStep(w)
      PROVE  WorkloadInv'
  BY <1>2, BeginStep, CheckArtifactStep, FindMarkerStep, InstallStep, InstallFailsStep, ValidateStep,
     DeadlinePassesStep, PollHealthyStep, PollUnhealthyStep, IsolatingStep, SaveStep, AbandonStep
     DEF WorkerStep
<1> QED
  BY <1>1, <1>2, ServiceDiesStep, BeginRemoveStep, RemoveStep, RemoveCutShortStep DEF Next
-----------------------------------------------------------------------------
(* The invariant holds of every state workers, services and removals reach. *)
THEOREM WorkloadInvariant == Spec => []WorkloadInv
BY InitInv, InvariantStep, PTL DEF Spec

(* Types hold; a worker that installs has a command left to give. *)
THEOREM WorkloadTypeCorrect == Spec => []TypeOK
<1>1. WorkloadInv => TypeOK
  BY DEF WorkloadInv
<1> QED
  BY <1>1, WorkloadInvariant, PTL

(* The marker, which makes Install skip everything, stands for a complete   *)
(* installation, a PASS for one that runs, and nothing is installed of an   *)
(* artifact with a wrong checksum (sample.go), unless two workers installed *)
(* at once or a marker could not be read.                                   *)
THEOREM MarkersAreEarned == Spec => []InstalledAsClaimed
<1>1. WorkloadInv => InstalledAsClaimed
  BY DEF WorkloadInv
<1> QED
  BY <1>1, WorkloadInvariant, PTL

(* What was isolated is not READY, and what is QUARANTINED is isolated      *)
(* (handlers_workload.go), but for a verdict that was lost, a second worker *)
(* or a call that failed.                                                   *)
THEOREM VerdictsMatchIsolation == Spec => []VerdictMatchesIsolation
<1>1. WorkloadInv => VerdictMatchesIsolation
  BY DEF WorkloadInv, IsolationInv, Isolated, SoleInv, Working, VerdictMatchesIsolation
<1> QED
  BY <1>1, WorkloadInvariant, PTL

(* A removal that was cut short keeps the marker as long as it leaves       *)
(* anything else (sample.go), so that it can be called again.               *)
THEOREM RemovalsCanBeRepeated == Spec => []RemoveCanBeRepeated
<1>1. WorkloadInv => RemoveCanBeRepeated
  BY DEF WorkloadInv
<1> QED
  BY <1>1, WorkloadInvariant, PTL
=============================================================================
