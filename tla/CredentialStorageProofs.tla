----------------------- MODULE CredentialStorageProofs -----------------------
(* Proofs about CredentialStorage, for any number of profiles and references. *)
EXTENDS CredentialStorage, TLAPS

-----------------------------------------------------------------------------
(* The inductive invariant                                                 *)

\* The steps up to the binding of a reserved reference
Pre == {"reserved", "fallback", "opened", "stored"}

\* A resolve excludes every other operation of the manager.
ReadsAlone == plan # {} => step = "free"

\* A reference that was not drawn is nowhere.
FreshIsUnknown ==
  \A r \in fresh : /\ r \notin queue /\ r \notin listed
                   /\ r \notin vault /\ file[r] = "none"
                   /\ \A o \in Owners : bound[o] # r

\* What is stored twice was recorded.
TwiceIsDoubled == \A r \in vault : file[r] # "none" => r \in doubled

\* The reference being saved is nobody's yet and is known to be cleaned up, or
\* its row went with all others.
SavedIsReserved ==
  step \in Pre =>
    /\ ref \notin fresh
    /\ ref \in queue \/ ref \in missed
    /\ \A o \in Owners : bound[o] # ref
    /\ wipe = "deleted" => ref \notin listed
    /\ step \in {"reserved", "fallback"} => file[ref] = "none"
    /\ step = "opened" => file[ref] = "torn"
    /\ step = "stored" => Readable(ref)

\* Nothing of r is stored, except perhaps its second copy.
Gone(r) == r \in doubled \/ (r \notin vault /\ file[r] = "none")

\* What is cleaned up is not bound, and is gone before its row is.
CleanedIsUnbound ==
  /\ step \in {"cleaning", "cleaned"} => \A r \in todo : \A o \in Owners : bound[o] # r
  /\ step \in {"undo", "undone", "cleaned"} => \A o \in Owners : bound[o] # ref
  /\ step \in {"undone", "cleaned"} => ref \in Refs /\ Gone(ref)

\* The secrets that were listed are deleted one after the other.
WipedIsGone ==
  /\ wipe = "deleting" <=> step = "wiping"
  /\ step = "wiping" => \A r \in listed : r \in todo \/ Gone(r)
  /\ wipe = "deleted" => \A r \in listed : Gone(r)

Inv ==
  /\ TypeOK
  /\ BoundIsStored
  /\ NoSecretLeaks
  /\ PlanIsReadable
  /\ ReadsAlone
  /\ FreshIsUnknown
  /\ TwiceIsDoubled
  /\ SavedIsReserved
  /\ CleanedIsUnbound
  /\ WipedIsGone

-----------------------------------------------------------------------------
(* The invariant holds at first and is kept by every step                   *)

LEMMA InitInv == Init => Inv
BY NothingAssumption, MaxVersionAssumption
   DEF Init, Inv, TypeOK, Steps, Saving, BoundIsStored, NoSecretLeaks, Stored, PlanIsReadable,
       ReadsAlone, FreshIsUnknown, TwiceIsDoubled, SavedIsReserved, Pre, CleanedIsUnbound,
       WipedIsGone

\* The steps of saving a secret: the reference is in the queue from before its
\* secret is stored until it is bound.
LEMMA SavingStep ==
  ASSUME Inv,
         \/ \E o \in Owners, r \in Refs : Reserve(o, r)
         \/ CreateItem \/ OpenFile \/ WriteFile \/ Commit
  PROVE  Inv'
<1>. USE NothingAssumption, MaxVersionAssumption
     DEF Inv, TypeOK, Steps, Saving, BoundIsStored, Readable, NoSecretLeaks, Stored, Bound,
         PlanIsReadable, ReadsAlone, FreshIsUnknown, TwiceIsDoubled, SavedIsReserved, Pre,
         CleanedIsUnbound, WipedIsGone, Gone, jobVars, wipeVars, historyVars
<1>1. ASSUME NEW o \in Owners, NEW r \in Refs, Reserve(o, r) PROVE Inv'
  BY <1>1 DEF Reserve, Reserved, LockFree, storeVars
<1>2. ASSUME CreateItem PROVE Inv'
  BY <1>2 DEF CreateItem, Ends, GoesTo, rowVars
<1>3. ASSUME OpenFile PROVE Inv'
  BY <1>3 DEF OpenFile, Ends, GoesTo, rowVars
<1>4. ASSUME WriteFile PROVE Inv'
  BY <1>4 DEF WriteFile, Ends, GoesTo, rowVars
<1>5. ASSUME Commit PROVE Inv'
  BY <1>5 DEF Commit, MayCommit, QueueAfterCommit, GoesTo, rowVars, storeVars
<1>. QED BY <1>1, <1>2, <1>3, <1>4, <1>5

\* The steps of cleaning up: what is deleted is not bound, and what leaves the
\* queue is gone.
LEMMA CleanupStep ==
  ASSUME Inv,
         \/ CheckFailed \/ Undo \/ CompleteUndo
         \/ BeginBatch \/ CleanUp \/ CompleteCleanup \/ CleanUpOwed
  PROVE  Inv'
<1>. USE NothingAssumption, MaxVersionAssumption
     DEF Inv, TypeOK, Steps, Saving, BoundIsStored, Readable, NoSecretLeaks, Stored, Bound,
         PlanIsReadable, ReadsAlone, FreshIsUnknown, TwiceIsDoubled, SavedIsReserved, Pre,
         CleanedIsUnbound, WipedIsGone, Gone, jobVars, wipeVars, historyVars, GoesTo
<1>1. ASSUME CheckFailed PROVE Inv'
  BY <1>1 DEF CheckFailed, rowVars, storeVars
<1>2. ASSUME Undo PROVE Inv'
  BY <1>2 DEF Undo, Delete, rowVars, storeVars
<1>3. ASSUME CompleteUndo PROVE Inv'
  BY <1>3 DEF CompleteUndo, storeVars
<1>4. ASSUME BeginBatch PROVE Inv'
  BY <1>4 DEF BeginBatch, Ends, rowVars, storeVars
<1>5. ASSUME CleanUp PROVE Inv'
  BY <1>5 DEF CleanUp, Delete, Ends, rowVars, storeVars
<1>6. ASSUME CompleteCleanup PROVE Inv'
  BY <1>6 DEF CompleteCleanup, Ends, storeVars
<1>7. ASSUME CleanUpOwed PROVE Inv'
  BY <1>7 DEF CleanUpOwed, LockFree, rowVars, storeVars
<1>. QED BY <1>1, <1>2, <1>3, <1>4, <1>5, <1>6, <1>7

\* Clearing, reading, and what runs beside the lock.
LEMMA OtherStep ==
  ASSUME Inv,
         \/ Plan \/ Read
         \/ \E o \in Owners : Clear(o) \/ Update(o) \/ DeleteProfile(o)
         \/ Crash
  PROVE  Inv'
<1>. USE NothingAssumption, MaxVersionAssumption
     DEF Inv, TypeOK, Steps, Saving, BoundIsStored, Readable, NoSecretLeaks, Stored, Bound,
         PlanIsReadable, ReadsAlone, FreshIsUnknown, TwiceIsDoubled, SavedIsReserved, Pre,
         CleanedIsUnbound, WipedIsGone, Gone, storeVars, historyVars
<1>1. ASSUME Plan PROVE Inv'
  BY <1>1 DEF Plan, LockFree, rowVars, jobVars, wipeVars
<1>2. ASSUME Read PROVE Inv'
  BY <1>2 DEF Read, rowVars, jobVars, wipeVars
<1>3. ASSUME NEW o \in Owners, Clear(o) PROVE Inv'
  BY <1>3 DEF Clear, Unbound, LockFree, GoesTo, wipeVars
<1>4. ASSUME NEW o \in Owners, Update(o) PROVE Inv'
  BY <1>4 DEF Update, jobVars, wipeVars
<1>5. ASSUME NEW o \in Owners, DeleteProfile(o) PROVE Inv'
  BY <1>5 DEF DeleteProfile, Unbound, jobVars, wipeVars
<1>6. ASSUME Crash PROVE Inv'
  BY <1>6 DEF Crash, Ends, GoesTo, rowVars
<1>. QED BY <1>1, <1>2, <1>3, <1>4, <1>5, <1>6

\* Clearing all data: the references it has listed are gone when the rows go.
LEMMA WipeStep ==
  ASSUME Inv, ListBindings \/ BeginWipe \/ WipeSecret \/ WipeRows
  PROVE  Inv'
<1>. USE NothingAssumption, MaxVersionAssumption
     DEF Inv, TypeOK, Steps, Saving, BoundIsStored, Readable, NoSecretLeaks, Stored, Bound,
         PlanIsReadable, ReadsAlone, FreshIsUnknown, TwiceIsDoubled, SavedIsReserved, Pre,
         CleanedIsUnbound, WipedIsGone, Gone, storeVars
<1>1. ASSUME ListBindings PROVE Inv'
  BY <1>1 DEF ListBindings, rowVars, jobVars, historyVars
<1>2. ASSUME BeginWipe PROVE Inv'
  BY <1>2 DEF BeginWipe, LockFree, GoesTo, rowVars, historyVars
<1>3. ASSUME WipeSecret PROVE Inv'
  BY <1>3 DEF WipeSecret, Delete, Ends, GoesTo, rowVars, wipeVars
<1>4. ASSUME WipeRows PROVE Inv'
  BY <1>4 DEF WipeRows, rowVars, jobVars
<1>. QED BY <1>1, <1>2, <1>3, <1>4

LEMMA StutterInv == ASSUME Inv, UNCHANGED vars PROVE Inv'
BY DEF vars, rowVars, storeVars, jobVars, wipeVars, historyVars, Inv, TypeOK, BoundIsStored,
       Readable, NoSecretLeaks, Stored, Bound, PlanIsReadable, ReadsAlone, FreshIsUnknown,
       TwiceIsDoubled, SavedIsReserved, CleanedIsUnbound, WipedIsGone, Gone

\* The inductive invariant holds in every reachable state.
THEOREM Invariance == Spec => []Inv
<1>1. Inv /\ [Next]_vars => Inv'
  BY SavingStep, CleanupStep, OtherStep, WipeStep, StutterInv DEF Next
<1>. QED BY <1>1, InitInv, PTL DEF Spec

-----------------------------------------------------------------------------
(* What it shows                                                           *)

\* Every variable keeps its type (credential_service.rs, repository.rs and the
\* stores).
THEOREM TypeCorrect == Spec => []TypeOK
<1>1. Inv => TypeOK
  BY DEF Inv
<1>. QED BY <1>1, Invariance, PTL

\* The reference of a profile can be read and is never queued for cleanup,
\* however saves, cleanups, deletions and crashes are interleaved
\* (commit_server_credential, cleanup_one).
THEOREM BoundCredentials == Spec => []BoundIsStored
<1>1. Inv => BoundIsStored
  BY DEF Inv
<1>. QED BY <1>1, Invariance, PTL

\* No crash, error or lost answer leaves a secret that no row and no queue entry
\* knows of, except one stored in both places and one saved while all data was
\* cleared (create_reserved_credential, cleanup_one, clear_all_local_data).
THEOREM NoLeaks == Spec => []NoSecretLeaks
<1>1. Inv => NoSecretLeaks
  BY DEF Inv
<1>. QED BY <1>1, Invariance, PTL

\* The secrets of a plan stay until they were read (resolve_server_connection).
THEOREM PlansAreReadable == Spec => []PlanIsReadable
<1>1. Inv => PlanIsReadable
  BY DEF Inv
<1>. QED BY <1>1, Invariance, PTL
=============================================================================
