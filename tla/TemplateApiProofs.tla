-------------------------- MODULE TemplateApiProofs --------------------------
(***************************************************************************)
(* Proofs about TemplateApi for every number of templates, keys and        *)
(* concurrent requests.                                                    *)
(***************************************************************************)
EXTENDS TemplateApi, FiniteSetTheorems, TLAPS

(* Where a request has locked the row it promotes. *)
Locking == {"demote", "demoting", "store", "commit"}

(* A request past the check of its transition holds the row it checked, and *)
(* the transition is still valid: nobody else moves that row.               *)
RowInv ==
  \A r \in Requests :
    /\ pc[r] \in Locking =>
         rowLock[body[r]] = r /\ IsValidTransition(tstate[body[r]], target[r])
    /\ pc[r] \in {"demote", "demoting"} => target[r] = "ACTIVE"
    /\ pc[r] \notin {"demoting", "store", "commit"} => demoted[r] = {}
    /\ pc[r] # "demoting" => todo[r] = {}

(* A request about to commit has the key to itself, and an accepted one has *)
(* left its body there for good.                                            *)
KeyInv ==
  \A r \in Requests :
    /\ pc[r] = "commit" =>
         keyLock[key[r]] = r /\ record[key[r]] \in {None, body[r]}
    /\ outcome[r] = "accepted" => record[key[r]] = body[r]

(* At most one template is ACTIVE, said without counting. *)
OneActive == \A s, t \in Active : s = t

(* While promotions to ACTIVE take turns, the one at work has demoted, or   *)
(* will still visit, every ACTIVE template but its own.                     *)
TurnInv ==
  ~overlapped =>
    /\ OneActive
    /\ \A q, r \in Requests : Activating(q) /\ Activating(r) => q = r
    /\ \A r \in Requests : Activating(r) => Others(body[r]) \subseteq todo[r] \cup demoted[r]

(* The inductive invariant. *)
ApiInv == TypeOK /\ RowInv /\ KeyInv /\ TurnInv

USE NoneAssumption DEF tables, locks, request, TemplateStates, Outcomes
-----------------------------------------------------------------------------
(* A transaction that ends without a commit frees its locks and leaves the  *)
(* tables as they were.                                                     *)
LEMMA AbortStep ==
  ASSUME ApiInv, NEW r \in Requests, NEW o \in Outcomes \ {"accepted"}, pc[r] # "done", Abort(r, o)
  PROVE  ApiInv'
<1> USE DEF ApiInv, Abort, Answer, Goto
<1>1. TypeOK'
  BY DEF TypeOK
<1>2. RowInv'
  BY DEF TypeOK, RowInv, Locking
<1>3. KeyInv'
  BY DEF TypeOK, KeyInv
<1>4. TurnInv'
  BY DEF TypeOK, TurnInv, OneActive, Active, Activating, Others
<1> QED
  BY <1>1, <1>2, <1>3, <1>4

(* idem.Get has no transaction: it only ends the request or lets it go on. *)
LEMMA LookUpStep ==
  ASSUME ApiInv, NEW r \in Requests, LookUp(r)
  PROVE  ApiInv'
<1>1. CASE ~Live(key[r]) /\ Goto(r, "read")
           /\ UNCHANGED <<tables, locks, key, body, target, todo, demoted, outcome, overlapped>>
  <2> USE <1>1 DEF ApiInv, LookUp, Goto
  <2>1. TypeOK'
    BY DEF TypeOK
  <2>2. RowInv'
    BY DEF TypeOK, RowInv, Locking
  <2>3. KeyInv'
    BY DEF TypeOK, KeyInv
  <2>4. TurnInv'
    BY DEF TypeOK, TurnInv, OneActive, Active, Activating, Others
  <2> QED
    BY <2>1, <2>2, <2>3, <2>4
<1>2. CASE Live(key[r]) /\ Abort(r, IF record[key[r]] = body[r] THEN "replayed" ELSE "conflict")
  BY <1>2, AbortStep DEF LookUp
<1> QED
  BY <1>1, <1>2 DEF LookUp

(* Templates.Get reads the row before any lock is taken. *)
LEMMA ReadTemplateStep ==
  ASSUME ApiInv, NEW r \in Requests, ReadTemplate(r)
  PROVE  ApiInv'
<1>1. CASE /\ tstate[body[r]] # "DEPRECATED"
           /\ target' = [target EXCEPT ![r] = Forward(tstate[body[r]])]
           /\ Goto(r, "promote")
           /\ UNCHANGED <<tables, locks, key, body, todo, demoted, outcome, overlapped>>
  <2> USE <1>1 DEF ApiInv, ReadTemplate, Goto
  <2>1. TypeOK'
    BY DEF TypeOK, Forward
  <2>2. RowInv'
    BY DEF TypeOK, RowInv, Locking
  <2>3. KeyInv'
    BY DEF TypeOK, KeyInv
  <2>4. TurnInv'
    BY DEF TypeOK, TurnInv, OneActive, Active, Activating, Others
  <2> QED
    BY <2>1, <2>2, <2>3, <2>4
<1>2. CASE tstate[body[r]] = "DEPRECATED" /\ Abort(r, "rejected")
  BY <1>2, AbortStep DEF ReadTemplate
<1> QED
  BY <1>1, <1>2 DEF ReadTemplate

(* The state is checked again once the row is locked. *)
LEMMA LockTemplateStep ==
  ASSUME ApiInv, NEW r \in Requests, LockTemplate(r)
  PROVE  ApiInv'
<1>1. CASE /\ MayPromote(r)
           /\ rowLock' = [rowLock EXCEPT ![body[r]] = r]
           /\ Goto(r, IF target[r] = "ACTIVE" THEN "demote" ELSE "store")
           /\ UNCHANGED <<tables, keyLock, key, body, target, todo, demoted, outcome, overlapped>>
  <2> USE <1>1 DEF ApiInv, LockTemplate, Goto
  <2>1. TypeOK'
    BY DEF TypeOK
  <2>2. RowInv'
    BY DEF TypeOK, RowInv, Locking, MayPromote
  <2>3. KeyInv'
    BY DEF TypeOK, KeyInv
  <2>4. TurnInv'
    BY DEF TypeOK, TurnInv, OneActive, Active, Activating, Others
  <2> QED
    BY <2>1, <2>2, <2>3, <2>4
<1>2. CASE ~MayPromote(r) /\ Abort(r, "rejected")
  BY <1>2, AbortStep DEF LockTemplate
<1> QED
  BY <1>1, <1>2 DEF LockTemplate

(* The demoting UPDATE takes its snapshot of the ACTIVE rows. *)
LEMMA StartDemotingStep ==
  ASSUME ApiInv, NEW r \in Requests, StartDemoting(r)
  PROVE  ApiInv'
<1> USE DEF ApiInv, StartDemoting, Goto
<1>1. TypeOK'
  BY DEF TypeOK, Others, Active
<1>2. RowInv'
  BY DEF TypeOK, RowInv, Locking
<1>3. KeyInv'
  BY DEF TypeOK, KeyInv
<1>4. ASSUME ~overlapped'
      PROVE  /\ OneActive'
             /\ \A q \in Requests : Activating(q)' => q = r
             /\ Others(body[r])' \subseteq todo'[r]
  <2>1. ~overlapped /\ \A q \in Requests \ {r} : ~Activating(q)
    BY <1>4 DEF TypeOK
  <2>2. \A q \in Requests \ {r} : ~Activating(q)'
    BY <2>1 DEF TypeOK, Activating
  <2>3. todo'[r] = Others(body[r]) /\ Others(body[r])' = Others(body[r])
    BY DEF TypeOK, Others, Active
  <2>4. OneActive'
    BY <2>1 DEF TurnInv, OneActive, Active
  <2> QED
    BY <2>2, <2>3, <2>4
<1>5. TurnInv'
  BY <1>4 DEF TurnInv
<1> QED
  BY <1>1, <1>2, <1>3, <1>5

(* A row of the snapshot is demoted if it is still ACTIVE. *)
LEMMA DemoteStep ==
  ASSUME ApiInv, NEW r \in Requests, NEW t \in Templates, Demote(r, t)
  PROVE  ApiInv'
<1> USE DEF ApiInv, Demote, StillActive
<1>1. TypeOK'
  BY DEF TypeOK, RowInv, Locking
<1>2. RowInv'
  BY DEF TypeOK, RowInv, Locking
<1>3. KeyInv'
  BY DEF TypeOK, KeyInv
<1>4. TurnInv'
  BY DEF TypeOK, TurnInv, OneActive, Active, Activating, Others
<1> QED
  BY <1>1, <1>2, <1>3, <1>4

(* Every row of the snapshot has been visited. *)
LEMMA DemotingDoneStep ==
  ASSUME ApiInv, NEW r \in Requests, DemotingDone(r)
  PROVE  ApiInv'
<1> USE DEF ApiInv, DemotingDone, Goto
<1>1. TypeOK'
  BY DEF TypeOK
<1>2. RowInv'
  BY DEF TypeOK, RowInv, Locking
<1>3. KeyInv'
  BY DEF TypeOK, KeyInv
<1>4. TurnInv'
  BY DEF TypeOK, RowInv, TurnInv, OneActive, Active, Activating, Others
<1> QED
  BY <1>1, <1>2, <1>3, <1>4

(* The key is inserted or locked, and the record read back. *)
LEMMA StoreStep ==
  ASSUME ApiInv, NEW r \in Requests, Store(r)
  PROVE  ApiInv'
<1>1. CASE /\ Stored(r)
           /\ keyLock' = [keyLock EXCEPT ![key[r]] = r]
           /\ Goto(r, "commit")
           /\ UNCHANGED <<tables, rowLock, key, body, target, todo, demoted, outcome, overlapped>>
  <2> USE <1>1 DEF ApiInv, Store, Goto
  <2>1. TypeOK'
    BY DEF TypeOK
  <2>2. RowInv'
    BY DEF TypeOK, RowInv, Locking
  <2>3. KeyInv'
    BY DEF TypeOK, KeyInv, Stored
  <2>4. TurnInv'
    BY DEF TypeOK, TurnInv, OneActive, Active, Activating, Others
  <2> QED
    BY <2>1, <2>2, <2>3, <2>4
<1>2. CASE ~Stored(r) /\ Abort(r, IF key[r] \in expired THEN "error" ELSE "conflict")
  BY <1>2, AbortStep DEF Store
<1> QED
  BY <1>1, <1>2 DEF Store

(* What a commit writes: one valid transition of its own row, the demotion  *)
(* of rows that were ACTIVE, and its body where no other body is.           *)
LEMMA CommitWrites ==
  ASSUME ApiInv, NEW r \in Requests, Commit(r)
  PROVE  /\ rowLock[body[r]] = r /\ IsValidTransition(tstate[body[r]], target[r])
         /\ tstate'[body[r]] = target[r]
         /\ \A t \in demoted[r] : rowLock[t] = r /\ tstate[t] = "ACTIVE" /\ tstate'[t] = "DEPRECATED"
         /\ \A t \in Templates : tstate'[t] # tstate[t] => t = body[r] \/ t \in demoted[r]
         /\ \A t \in Templates : rowLock[t] # r => tstate'[t] = tstate[t]
         /\ record'[key[r]] = body[r]
         /\ \A k \in Keys : k # key[r] => record'[k] = record[k]
BY DEF ApiInv, TypeOK, RowInv, KeyInv, Locking, Commit

(* The commit makes all of it visible and frees the locks. *)
LEMMA CommitStep ==
  ASSUME ApiInv, NEW r \in Requests, Commit(r)
  PROVE  ApiInv'
<1> USE CommitWrites DEF ApiInv, Goto, Answer
<1>1. /\ rowLock' \in [Templates -> Requests \cup {None}]
      /\ \A q \in Requests, t \in Templates : rowLock'[t] = q <=> rowLock[t] = q /\ q # r
  BY DEF TypeOK, Commit
<1>2. tstate' \in [Templates -> TemplateStates]
  BY DEF TypeOK, Commit
<1>3. ASSUME NEW q \in Requests
      PROVE  demoted'[q] \subseteq
               {t \in Templates \ {body'[q]} : rowLock'[t] = q /\ tstate'[t] = "ACTIVE"}
  <2>1. CASE q = r
    BY <2>1 DEF TypeOK, Commit
  <2>2. CASE q # r
    <3>1. demoted'[q] = demoted[q] /\ body' = body
      BY <2>2 DEF TypeOK, Commit
    <3>2. \A t \in demoted[q] : t \in Templates \ {body[q]} /\ rowLock[t] = q /\ tstate[t] = "ACTIVE"
      BY DEF TypeOK
    <3> QED
      BY <2>2, <3>1, <3>2, <1>1
  <2> QED
    BY <2>1, <2>2
<1> DEFINE Rest ==
     /\ record \in [Keys -> Templates \cup {None}]
     /\ expired \subseteq {k \in Keys : record[k] # None}
     /\ keyLock \in [Keys -> Requests \cup {None}]
     /\ pc \in [Requests -> {"new", "read", "promote", "demote", "demoting", "store", "commit", "done"}]
     /\ key \in [Requests -> Keys] /\ body \in [Requests -> Templates]
     /\ target \in [Requests -> TemplateStates]
     /\ todo \in [Requests -> SUBSET Templates] /\ demoted \in [Requests -> SUBSET Templates]
     /\ outcome \in [Requests -> Outcomes \cup {None}]
     /\ overlapped \in BOOLEAN
     /\ \A q \in Requests : pc[q] = "done" <=> outcome[q] # None
<1>4. TypeOK <=> /\ tstate \in [Templates -> TemplateStates]
                 /\ rowLock \in [Templates -> Requests \cup {None}]
                 /\ \A q \in Requests :
                      demoted[q] \subseteq
                        {t \in Templates \ {body[q]} : rowLock[t] = q /\ tstate[t] = "ACTIVE"}
                 /\ Rest
  BY DEF TypeOK
<1>5. Rest'
  BY <1>4 DEF Commit
<1>6. TypeOK'
  BY <1>1, <1>2, <1>3, <1>5 DEF TypeOK
<1>7. RowInv'
  BY DEF TypeOK, RowInv, Locking, Commit
<1>8. KeyInv'
  BY DEF TypeOK, KeyInv, Commit
<1>9. TurnInv'
  BY DEF TypeOK, RowInv, TurnInv, OneActive, Active, Activating, Others, Commit
<1> QED
  BY <1>6, <1>7, <1>8, <1>9

(* Expiry changes no record, it only stops counting. *)
LEMMA ExpireStep ==
  ASSUME ApiInv, NEW k \in Keys, Expire(k)
  PROVE  ApiInv'
<1> USE DEF ApiInv, Expire, Live
<1>1. TypeOK'
  BY DEF TypeOK
<1>2. RowInv'
  BY DEF TypeOK, RowInv
<1>3. KeyInv'
  BY DEF TypeOK, KeyInv
<1>4. TurnInv'
  BY DEF TypeOK, TurnInv, OneActive, Active, Activating, Others
<1> QED
  BY <1>1, <1>2, <1>3, <1>4
-----------------------------------------------------------------------------
(* Counting, where it is needed: a finite set has at most one element       *)
(* exactly if any two are the same.                                         *)
LEMMA AtMostOne ==
  ASSUME NEW S, IsFiniteSet(S)
  PROVE  Cardinality(S) <= 1 <=> \A x, y \in S : x = y
<1>1. Cardinality(S) \in Nat
  BY FS_CardinalityType
<1>2. Cardinality(S) <= 1 <=> Cardinality(S) = 0 \/ Cardinality(S) = 1
  BY <1>1
<1>3. Cardinality(S) = 0 <=> S = {}
  BY FS_EmptySet
<1>4. Cardinality(S) = 1 <=> \E x : S = {x}
  BY FS_Singleton
<1>5. (S = {} \/ \E x : S = {x}) <=> \A x, y \in S : x = y
  BY Zenon
<1> QED
  BY <1>2, <1>3, <1>4, <1>5

(* The family's ACTIVE versions are among its templates. *)
LEMMA ActiveFinite == IsFiniteSet(Active)
BY TemplatesAssumption, FS_Subset DEF Active

(* The invariant holds before any request. *)
LEMMA InitInv == Init => ApiInv
<1> SUFFICES ASSUME Init PROVE ApiInv
  OBVIOUS
<1>1. TypeOK /\ RowInv /\ KeyInv
  BY DEF Init, TypeOK, RowInv, KeyInv, Locking
<1>2. Cardinality(Active) <= 1
  BY DEF Init, Active
<1>3. OneActive
  BY <1>2, ActiveFinite, AtMostOne DEF OneActive
<1>4. TurnInv
  BY <1>3 DEF Init, TurnInv, Activating
<1> QED
  BY <1>1, <1>4 DEF ApiInv

(* Every step keeps the invariant. *)
LEMMA InvariantStep == ApiInv /\ [Next]_vars => ApiInv'
<1> SUFFICES ASSUME ApiInv, [Next]_vars PROVE ApiInv'
  OBVIOUS
<1>1. CASE UNCHANGED vars
  BY <1>1 DEF vars, ApiInv, TypeOK, RowInv, KeyInv, Locking, TurnInv, OneActive, Active, Activating, Others
<1>2. ASSUME NEW r \in Requests, Fail(r)
      PROVE  ApiInv'
  BY <1>2, AbortStep DEF Fail
<1> QED
  BY <1>1, <1>2, LookUpStep, ReadTemplateStep, LockTemplateStep, StartDemotingStep, DemoteStep,
     DemotingDoneStep, StoreStep, CommitStep, ExpireStep DEF Next
-----------------------------------------------------------------------------
(* The invariant holds of every state the requests can reach. *)
THEOREM ApiInvariant == Spec => []ApiInv
BY InitInv, InvariantStep, PTL DEF Spec

(* Types hold, and a row a transaction has demoted (PromoteTx) is locked    *)
(* by it and still ACTIVE, however long it waited for other rows.           *)
THEOREM ApiTypeCorrect == Spec => []TypeOK
<1>1. ApiInv => TypeOK
  BY DEF ApiInv
<1> QED
  BY <1>1, ApiInvariant, PTL

(* A live record keeps its body, and whoever is answered with success has   *)
(* that body: RunIdempotent's read back stops every request that raced past *)
(* the lookup with another one.                                             *)
THEOREM LiveKeyHasOneBody == Spec => OneBodyPerLiveKey
<1> DEFINE Kept == \A k \in Keys : Live(k) => record'[k] = record[k]
           Answered == \A r \in Requests :
             outcome'[r] # outcome[r] /\ outcome'[r] \in {"accepted", "replayed"} => record'[key[r]] = body[r]
<1>1. ASSUME ApiInv, NEW r \in Requests, Commit(r)
      PROVE  Kept /\ Answered
  <2>1. record[key[r]] \in {None, body[r]}
    BY <1>1 DEF ApiInv, KeyInv, Commit
  <2>2. Kept
    BY <1>1, <2>1, CommitWrites DEF Live
  <2>3. \A q \in Requests : outcome'[q] # outcome[q] => q = r
    BY <1>1 DEF ApiInv, TypeOK, Commit, Answer
  <2> QED
    BY <1>1, <2>2, <2>3, CommitWrites
<1>2. ASSUME ApiInv, NEW r \in Requests, LookUp(r)
      PROVE  Kept /\ Answered
  BY <1>2, NoneAssumption DEF ApiInv, TypeOK, LookUp, Abort, Answer, tables, Live
<1>3. ASSUME ApiInv, NEW r \in Requests, NEW o \in {"error", "conflict", "rejected"}, Abort(r, o)
      PROVE  Kept /\ Answered
  BY <1>3 DEF ApiInv, TypeOK, Abort, Answer, tables
<1>4. ASSUME UNCHANGED <<record, outcome>>
      PROVE  Kept /\ Answered
  BY <1>4
<1>5. ASSUME ApiInv, Next
      PROVE  Kept /\ Answered
  <2>1. CASE \E k \in Keys : Expire(k)
    BY <2>1, <1>4 DEF Expire, request
  <2>2. ASSUME NEW r \in Requests, ReadTemplate(r) \/ LockTemplate(r) \/ Store(r) \/ Fail(r)
        PROVE  UNCHANGED <<record, outcome>> \/ \E o \in {"error", "conflict", "rejected"} : Abort(r, o)
    <3>1. CASE ReadTemplate(r)
      BY <3>1 DEF ReadTemplate, tables
    <3>2. CASE LockTemplate(r)
      BY <3>2 DEF LockTemplate, tables
    <3>3. CASE Store(r)
      BY <3>3 DEF Store, tables
    <3>4. CASE Fail(r)
      BY <3>4 DEF Fail
    <3> QED
      BY <2>2, <3>1, <3>2, <3>3, <3>4
  <2>3. ASSUME NEW r \in Requests,
               StartDemoting(r) \/ (\E t \in Templates : Demote(r, t)) \/ DemotingDone(r)
        PROVE  UNCHANGED <<record, outcome>>
    BY <2>3 DEF StartDemoting, Demote, DemotingDone, tables
  <2> HIDE DEF Kept, Answered
  <2>4. CASE \E r \in Requests : ReadTemplate(r) \/ LockTemplate(r) \/ Store(r) \/ Fail(r)
    BY <2>4, <2>2, <1>3, <1>4, <1>5
  <2>5. CASE \E r \in Requests : StartDemoting(r) \/ (\E t \in Templates : Demote(r, t)) \/ DemotingDone(r)
    BY <2>5, <2>3, <1>4
  <2> QED
    BY <1>1, <1>2, <1>5, <2>1, <2>4, <2>5 DEF Next
<1>6. ApiInv /\ [Next]_vars => [Kept /\ Answered]_vars
  BY <1>5
<1> QED
  BY <1>6, ApiInvariant, PTL DEF Spec, OneBodyPerLiveKey

(* While promotions to ACTIVE do not overlap, PromoteTx leaves one ACTIVE   *)
(* version in a family at most.                                             *)
THEOREM TurnsKeepOneActive == Spec => []OneActiveUnlessOverlapped
<1>1. ApiInv => OneActiveUnlessOverlapped
  <2> SUFFICES ASSUME ApiInv, ~overlapped PROVE ~(Cardinality(Active) > 1)
    BY DEF OneActiveUnlessOverlapped
  <2>1. Cardinality(Active) <= 1
    BY ActiveFinite, AtMostOne DEF ApiInv, TurnInv, OneActive
  <2>2. Cardinality(Active) \in Nat
    BY ActiveFinite, FS_CardinalityType
  <2> QED
    BY <2>1, <2>2
<1> QED
  BY <1>1, ApiInvariant, PTL

(* Whatever a commit writes is a valid transition of every row it writes,   *)
(* although the target was computed from a read outside the transaction.    *)
THEOREM TransitionsAreValid == Spec => OnlyValidTransitions
<1>1. ASSUME ApiInv, Next, NEW t \in Templates, tstate'[t] # tstate[t]
      PROVE  IsValidTransition(tstate[t], tstate'[t])
  <2>1. PICK r \in Requests : Commit(r)
    BY <1>1 DEF Next, LookUp, ReadTemplate, LockTemplate, StartDemoting, Demote, DemotingDone, Store,
             Fail, Expire, Abort
  <2>2. CASE t = body[r]
    BY <2>1, <2>2, <1>1, CommitWrites
  <2>3. CASE t \in demoted[r]
    BY <2>1, <2>3, <1>1, CommitWrites DEF IsValidTransition
  <2> QED
    BY <2>1, <2>2, <2>3, <1>1, CommitWrites
<1>2. ApiInv /\ [Next]_vars
        => [\A t \in Templates : tstate'[t] # tstate[t] => IsValidTransition(tstate[t], tstate'[t])]_vars
  BY <1>1
<1> QED
  BY <1>2, ApiInvariant, PTL DEF Spec, OnlyValidTransitions
=============================================================================
