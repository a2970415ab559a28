---------------------------- MODULE TemplateApi ----------------------------
(***************************************************************************)
(* POST /v1/templates/{id}/promote: concurrent requests that run through   *)
(* RunIdempotent (internal/httpapi/idempotency.go, internal/storage) and   *)
(* whose work is a promotion (internal/template/repository.go).            *)
(*                                                                         *)
(* PostgreSQL runs at READ COMMITTED: a statement sees what was committed  *)
(* when it started, waits for the row locks of others, and then looks at   *)
(* the row again.  A transaction's own writes take effect at its commit;   *)
(* until then its row locks keep others away.  All templates are of one    *)
(* family.                                                                 *)
(***************************************************************************)
EXTENDS Naturals, FiniteSets

CONSTANTS Templates, Keys, Requests, None

VARIABLES
  tstate,    \* vm_templates.state
  rowLock,   \* rowLock[t]: the request whose transaction has locked row t
  record,    \* record[k]: the body stored for key k, here the template's id
  expired,   \* the keys whose record has expired
  keyLock,   \* keyLock[k]: the request that has inserted or locked key k's row
  (* a request *)
  pc, key, body,
  target,    \* the state to promote to
  todo,      \* rows the demoting UPDATE still has to visit
  demoted,   \* rows it has demoted
  outcome,
  overlapped \* history: two promotions to ACTIVE ran at the same time

tables  == <<tstate, record, expired>>
locks   == <<rowLock, keyLock>>
request == <<pc, key, body, target, todo, demoted, outcome>>
vars    == <<tables, locks, request, overlapped>>

TemplateStates == {"DRAFT", "CANDIDATE", "ACTIVE", "DEPRECATED"}
Outcomes == {"accepted", "replayed", "conflict", "rejected", "error"}

ASSUME TemplatesAssumption == IsFiniteSet(Templates)
ASSUME NoneAssumption == None \notin Templates \cup Requests \cup Outcomes

(* forwardPromotion *)
Forward(s) ==
  CASE s = "DRAFT"     -> "CANDIDATE"
    [] s = "CANDIDATE" -> "ACTIVE"
    [] s = "ACTIVE"    -> "DEPRECATED"

(* validTransitions; the API never asks for REVOKED *)
IsValidTransition(from, to) ==
  <<from, to>> \in {<<"DRAFT", "CANDIDATE">>, <<"CANDIDATE", "ACTIVE">>,
                    <<"ACTIVE", "DEPRECATED">>, <<"DEPRECATED", "ACTIVE">>}

Active == {t \in Templates : tstate[t] = "ACTIVE"}

Init ==
  /\ tstate \in {f \in [Templates -> TemplateStates] :
                   Cardinality({t \in Templates : f[t] = "ACTIVE"}) <= 1}
  /\ rowLock = [t \in Templates |-> None]
  /\ record = [k \in Keys |-> None]
  /\ expired = {}
  /\ keyLock = [k \in Keys |-> None]
  /\ pc = [r \in Requests |-> "new"]
  /\ key \in [Requests -> Keys]
  /\ body \in [Requests -> Templates]
  /\ target = [r \in Requests |-> "DRAFT"]
  /\ todo = [r \in Requests |-> {}] /\ demoted = [r \in Requests |-> {}]
  /\ outcome = [r \in Requests |-> None]
  /\ overlapped = FALSE

Goto(r, label) == pc' = [pc EXCEPT ![r] = label]

(* the request is answered and its transaction, if any, is over *)
Answer(r, o) ==
  /\ Goto(r, "done")
  /\ outcome' = [outcome EXCEPT ![r] = o]
  /\ todo' = [todo EXCEPT ![r] = {}] /\ demoted' = [demoted EXCEPT ![r] = {}]
  /\ rowLock' = [t \in Templates |-> IF rowLock[t] = r THEN None ELSE rowLock[t]]
  /\ keyLock' = [k \in Keys |-> IF keyLock[k] = r THEN None ELSE keyLock[k]]
  /\ UNCHANGED <<key, body, target, overlapped>>

Abort(r, o) == Answer(r, o) /\ UNCHANGED tables
-----------------------------------------------------------------------------
(* RunIdempotent *)

(* Get: a record that is there and has not expired *)
Live(k) == record[k] # None /\ k \notin expired

(* idem.Get, on a connection of its own *)
LookUp(r) ==
  LET k == key[r] IN
  /\ pc[r] = "new"
  /\ \/ ~Live(k) /\ Goto(r, "read")
        /\ UNCHANGED <<tables, locks, key, body, target, todo, demoted, outcome, overlapped>>
     \/ Live(k) /\ Abort(r, IF record[k] = body[r] THEN "replayed" ELSE "conflict")

(* the transaction has begun; Templates.Get still reads outside of it *)
ReadTemplate(r) ==
  LET s == tstate[body[r]] IN
  /\ pc[r] = "read"
  /\ \/ /\ s # "DEPRECATED"
        /\ target' = [target EXCEPT ![r] = Forward(s)]
        /\ Goto(r, "promote")
        /\ UNCHANGED <<tables, locks, key, body, todo, demoted, outcome, overlapped>>
     \/ s = "DEPRECATED" /\ Abort(r, "rejected")

(* faulty variant of MayPromote: the state is not checked again under the lock *)
MayPromoteUnchecked(r) == TRUE

MayPromote(r) == IsValidTransition(tstate[body[r]], target[r])

(* SELECT ... FOR UPDATE and the check of the transition *)
LockTemplate(r) ==
  LET t == body[r] IN
  /\ pc[r] = "promote" /\ rowLock[t] = None
  /\ \/ /\ MayPromote(r)
        /\ rowLock' = [rowLock EXCEPT ![t] = r]
        /\ Goto(r, IF target[r] = "ACTIVE" THEN "demote" ELSE "store")
        /\ UNCHANGED <<tables, keyLock, key, body, target, todo, demoted, outcome, overlapped>>
     \/ ~MayPromote(r) /\ Abort(r, "rejected")

(* requests between their demoting UPDATE and their commit *)
Activating(r) == pc[r] \in {"demoting", "store", "commit"} /\ target[r] = "ACTIVE"

(* faulty variant of Others: the family's ACTIVE version is not looked up *)
OthersForgotten(t) == {}

(* family = $1 AND state = 'ACTIVE' AND id != $2 *)
Others(t) == Active \ {t}

(* the UPDATE that demotes starts: its snapshot is taken *)
StartDemoting(r) ==
  /\ pc[r] = "demote"
  /\ todo' = [todo EXCEPT ![r] = Others(body[r])]
  /\ Goto(r, "demoting")
  /\ overlapped' = (overlapped \/ \E q \in Requests \ {r} : Activating(q))
  /\ UNCHANGED <<tables, locks, key, body, target, demoted, outcome>>

(* faulty variant of StillActive: a row is not looked at again after a wait *)
ActiveInSnapshot(t) == TRUE

StillActive(t) == tstate[t] = "ACTIVE"

Demote(r, t) ==
  /\ pc[r] = "demoting" /\ t \in todo[r] /\ rowLock[t] = None
  /\ todo' = [todo EXCEPT ![r] = @ \ {t}]
  /\ \/ /\ StillActive(t)
        /\ rowLock' = [rowLock EXCEPT ![t] = r]
        /\ demoted' = [demoted EXCEPT ![r] = @ \cup {t}]
     \/ ~StillActive(t) /\ UNCHANGED <<rowLock, demoted>>
  /\ UNCHANGED <<tables, keyLock, pc, key, body, target, outcome, overlapped>>

DemotingDone(r) ==
  /\ pc[r] = "demoting" /\ todo[r] = {}
  /\ Goto(r, "store")
  /\ UNCHANGED <<tables, locks, key, body, target, todo, demoted, outcome, overlapped>>

(* faulty variant of Stored: the record is not read back after the insert *)
StoredWithoutReadBack(r) == TRUE

(* the record that is there after the insert, read back, is the request's *)
Stored(r) == record[key[r]] = None \/ (record[key[r]] = body[r] /\ key[r] \notin expired)

(* INSERT ... ON CONFLICT waits for a transaction that holds the key; then *)
(* the row is inserted, or locked if its hash matches, and read back       *)
Store(r) ==
  LET k == key[r] IN
  /\ pc[r] = "store" /\ keyLock[k] = None
  /\ \/ /\ Stored(r)
        /\ keyLock' = [keyLock EXCEPT ![k] = r]
        /\ Goto(r, "commit")
        /\ UNCHANGED <<tables, rowLock, key, body, target, todo, demoted, outcome, overlapped>>
     \/ ~Stored(r) /\ Abort(r, IF k \in expired THEN "error" ELSE "conflict")

Commit(r) ==
  LET k == key[r] IN
  /\ pc[r] = "commit"
  /\ tstate' = [t \in Templates |->
       CASE t = body[r]      -> target[r]
         [] t \in demoted[r] -> "DEPRECATED"
         [] OTHER            -> tstate[t]]
  /\ record' = [record EXCEPT ![k] = IF @ = None THEN body[r] ELSE @]
  /\ \E o \in {"accepted", "error"} : Answer(r, o)   \* the reply may be lost
  /\ UNCHANGED expired

(* a database error, a cancelled request, a victim of deadlock detection *)
Fail(r) == pc[r] # "done" /\ Abort(r, "error")

(* expires_at passes; nothing ever deletes the row *)
Expire(k) ==
  /\ Live(k)
  /\ expired' = expired \cup {k}
  /\ UNCHANGED <<tstate, record, locks, request, overlapped>>
-----------------------------------------------------------------------------
Next ==
  \/ \E r \in Requests :
       \/ LookUp(r) \/ ReadTemplate(r) \/ LockTemplate(r) \/ StartDemoting(r)
       \/ (\E t \in Templates : Demote(r, t)) \/ DemotingDone(r)
       \/ Store(r) \/ Commit(r) \/ Fail(r)
  \/ \E k \in Keys : Expire(k)

Spec == Init /\ [][Next]_vars
-----------------------------------------------------------------------------
(* Types; and the rows a transaction has demoted are locked by it and still *)
(* ACTIVE, whatever it waited for before it reached them.                   *)
TypeOK ==
  /\ tstate \in [Templates -> TemplateStates]
  /\ rowLock \in [Templates -> Requests \cup {None}]
  /\ record \in [Keys -> Templates \cup {None}]
  /\ expired \subseteq {k \in Keys : record[k] # None}
  /\ keyLock \in [Keys -> Requests \cup {None}]
  /\ pc \in [Requests -> {"new", "read", "promote", "demote", "demoting", "store", "commit", "done"}]
  /\ key \in [Requests -> Keys] /\ body \in [Requests -> Templates]
  /\ target \in [Requests -> TemplateStates]
  /\ todo \in [Requests -> SUBSET Templates] /\ demoted \in [Requests -> SUBSET Templates]
  /\ \A r \in Requests :
       demoted[r] \subseteq {t \in Templates \ {body[r]} : rowLock[t] = r /\ tstate[t] = "ACTIVE"}
  /\ outcome \in [Requests -> Outcomes \cup {None}]
  /\ overlapped \in BOOLEAN
  /\ \A r \in Requests : pc[r] = "done" <=> outcome[r] # None

(* A record is not changed as long as it lives, and a request is answered  *)
(* with success only when the record of its key is of its own body: those  *)
(* that raced past the lookup are stopped by the read back in Store.       *)
(* Expired keys may be given to another body.                              *)
OneBodyPerLiveKey ==
  [][/\ \A k \in Keys : Live(k) => record'[k] = record[k]
     /\ \A r \in Requests :
          outcome'[r] # outcome[r] /\ outcome'[r] \in {"accepted", "replayed"}
          => record'[key[r]] = body[r]]_vars

(* However stale the state a request promotes from, a commit moves a       *)
(* template along validTransitions only (repository.go).                   *)
OnlyValidTransitions ==
  [][\A t \in Templates : tstate'[t] # tstate[t] => IsValidTransition(tstate[t], tstate'[t])]_vars

(* While no two promotions to ACTIVE run at the same time, a family has    *)
(* one ACTIVE version at most.                                             *)
OneActiveUnlessOverlapped == Cardinality(Active) > 1 => overlapped

(* A family has one ACTIVE version at most (the comment on PromoteTx).     *)
OneActivePerFamily == Cardinality(Active) <= 1

(* The work of a key and body is done once (the comment on RunIdempotent). *)
OncePerKey ==
  \A q, r \in Requests :
    q # r /\ outcome[q] = "accepted" /\ outcome[r] = "accepted" => key[q] # key[r] \/ body[q] # body[r]

(* A key whose record has expired may be used again (the comment on        *)
(* IdempotencyTTL): a request that has done its work under it can store    *)
(* the answer.                                                             *)
ExpiredKeyReusable == \A r \in Requests : pc[r] = "store" /\ key[r] \in expired => Stored(r)
=============================================================================
