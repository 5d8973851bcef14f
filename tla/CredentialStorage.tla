-------------------------- MODULE CredentialStorage --------------------------
(* Saving, replacing, clearing, reading and deleting the secrets of servers   *)
(* and proxies.  The profile rows, the references bound to them and the queue *)
(* of references to clean up are in SQLite, where every transaction is        *)
(* atomic; the secrets are in the Secret Service or, when it is unavailable   *)
(* and the user agreed, in plaintext files.  No transaction spans both, so    *)
(* CredentialManager reserves a reference in the queue before it stores the   *)
(* secret and deletes a secret before it removes the reference from the       *)
(* queue.                                                                     *)
(*                                                                            *)
(* The manager's operations exclude each other by a lock; changes and         *)
(* deletions of profiles and the clearing of all local data run beside them.  *)
(* The application may crash between two steps.                               *)
EXTENDS Naturals

CONSTANTS
  Owners,       \* servers and proxies, one secret each
  Refs,         \* CredentialReference: random, never used twice
  Nothing,
  MaxVersion    \* the last version of a profile

ASSUME NothingAssumption == Nothing \notin Refs /\ Nothing \notin Owners
ASSUME MaxVersionAssumption == MaxVersion \in Nat \ {0}

VARIABLES
  version,      \* servers.version, proxies.version; 0 when the row is deleted
  bound,        \* the credential reference of the row
  queue,        \* credential_cleanup_queue
  vault,        \* references with an item of the Secret Service
  file,         \* the plaintext file of a reference
  fresh,        \* references not drawn yet
  step,         \* what the holder of operation_lock does next
  owner,        \* whose secret is being saved
  expected,     \* the version the save expects
  ref,          \* the reference being saved or cleaned up
  todo,         \* references still to be cleaned up or deleted
  plan,         \* references a connection is being resolved from, under the lock
  owed,         \* deletions of profiles that wait for the lock to clean up
  wipe,         \* clear_all_local_data
  listed,       \* the bindings it has read
  doubled,      \* history: stored in both places
  missed,       \* history: known when all rows were deleted, but not listed
  wiped         \* history: deleted by clear_all_local_data

rowVars == <<version, bound, queue>>
storeVars == <<vault, file>>
jobVars == <<owner, expected, ref, todo>>
wipeVars == <<wipe, listed>>
historyVars == <<doubled, missed, wiped>>
vars == <<rowVars, storeVars, fresh, step, jobVars, plan, owed, wipeVars, historyVars>>

\* References bound to a row
Bound == {r \in Refs : \E o \in Owners : bound[o] = r}

\* References of which something is stored, a torn file included
Stored == {r \in Refs : r \in vault \/ file[r] # "none"}

\* A read of the reference finds its secret.
Readable(r) == r \in vault \/ file[r] = "whole"

Init ==
  /\ version = [o \in Owners |-> 1]
  /\ bound = [o \in Owners |-> Nothing]
  /\ queue = {}
  /\ vault = {}
  /\ file = [r \in Refs |-> "none"]
  /\ fresh = Refs
  /\ step = "free"
  /\ owner = Nothing /\ expected = 0 /\ ref = Nothing /\ todo = {}
  /\ plan = {}
  /\ owed = 0
  /\ wipe = "idle" /\ listed = {}
  /\ doubled = {} /\ missed = {} /\ wiped = {}

\* Mutant of LockFree: connections are resolved without the lock.
LockFreeOfWrites == step = "free"

\* operation_lock can be taken.
LockFree == step = "free" /\ plan = {}

\* The operation goes on to s with nothing but t to do.
GoesTo(s, t) ==
  /\ step' = s
  /\ owner' = Nothing /\ expected' = 0 /\ ref' = Nothing /\ todo' = t

\* The operation returns and releases the lock.
Ends == GoesTo("free", {})

-----------------------------------------------------------------------------
(* The stores                                                              *)

\* One delete of PreferredCredentialStore: the item is deleted; or there is no
\* item or no service, and the file is; or there is neither.  A service that
\* goes away may have deleted the item before.  An error may come before or
\* after the deletion, and a torn file is never deleted.
Delete(r, ok) ==
  \/ /\ ok /\ r \in vault
     /\ vault' = vault \ {r}
     /\ UNCHANGED file
  \/ /\ ok /\ file[r] = "whole"
     /\ vault' \in {vault, vault \ {r}}
     /\ file' = [file EXCEPT ![r] = "none"]
  \/ /\ ok /\ r \notin vault /\ file[r] = "none"
     /\ UNCHANGED storeVars
  \/ /\ ~ok
     /\ vault' \in {vault, vault \ {r}}
     /\ file' \in {file} \cup
          (IF file[r] = "whole" THEN {[file EXCEPT ![r] = "none"]} ELSE {})

-----------------------------------------------------------------------------
(* Saving a secret                                                         *)

\* Mutant of Reserved: the reference is not put into the queue.
ReservedNowhere(r) == queue

\* The queue after r was reserved
Reserved(r) == queue \cup {r}

\* set_server_credential, set_proxy_credential: the reference is in the queue
\* before its secret is stored, so that a crash leaves it to be cleaned up.
Reserve(o, r) ==
  /\ LockFree /\ version[o] > 0 /\ r \in fresh
  /\ queue' = Reserved(r)
  /\ fresh' = fresh \ {r}
  /\ step' = "reserved"
  /\ owner' = o /\ expected' = version[o] /\ ref' = r
  /\ UNCHANGED <<version, bound, storeVars, todo, plan, owed, wipeVars, historyVars>>

\* The Secret Service stores the item, is not available, or refuses.  An answer
\* that is lost, a service that goes away or an operation that times out may
\* have stored the item.
CreateItem ==
  /\ step = "reserved"
  /\ \/ /\ vault' = vault \cup {ref}
        /\ step' = "stored"
        /\ UNCHANGED jobVars
     \/ /\ vault' \in {vault, vault \cup {ref}}
        /\ step' = "fallback"
        /\ UNCHANGED jobVars
     \/ /\ vault' \in {vault, vault \cup {ref}}
        /\ Ends
  /\ UNCHANGED <<rowVars, file, fresh, plan, owed, wipeVars, historyVars>>

\* The file is created, and is empty until it is written.
OpenFile ==
  /\ step = "fallback"
  /\ \/ /\ file[ref] = "none"
        /\ file' = [file EXCEPT ![ref] = "torn"]
        /\ doubled' = doubled \cup (vault \cap {ref})
        /\ step' = "opened"
        /\ UNCHANGED jobVars
     \/ Ends /\ UNCHANGED <<file, doubled>>
  /\ UNCHANGED <<rowVars, vault, fresh, plan, owed, wipeVars, missed, wiped>>

\* The file is written and synced.  A file that cannot be written is removed,
\* which may fail too; when only the directory cannot be synced it stays.
WriteFile ==
  /\ step = "opened"
  /\ \/ /\ file' = [file EXCEPT ![ref] = "whole"]
        /\ step' = "stored"
        /\ UNCHANGED jobVars
     \/ /\ \E left \in {"none", "torn", "whole"} : file' = [file EXCEPT ![ref] = left]
        /\ Ends
  /\ UNCHANGED <<rowVars, vault, fresh, plan, owed, wipeVars, historyVars>>

\* Mutant of QueueAfterCommit: the reservation stays.
QueueAfterCommitKept == queue \cup ({bound[owner]} \ {Nothing})

\* Mutant of QueueAfterCommit: the replaced secret is forgotten.
QueueAfterCommitForgets == queue \ {ref}

\* The reservation ends and the replaced secret is to be cleaned up.
QueueAfterCommit == (queue \ {ref}) \cup ({bound[owner]} \ {Nothing})

\* The profile is what the user saw, and the reference is still reserved.
MayCommit == version[owner] = expected /\ expected < MaxVersion /\ ref \in queue

\* commit_server_credential, commit_proxy_credential; an error may hide that
\* the transaction took place.
Commit ==
  /\ step = "stored"
  /\ \/ /\ MayCommit
        /\ bound' = [bound EXCEPT ![owner] = ref]
        /\ version' = [version EXCEPT ![owner] = @ + 1]
        /\ queue' = QueueAfterCommit
        /\ \/ GoesTo("batch", {})
           \/ step' = "failed" /\ UNCHANGED jobVars
     \/ /\ step' = "failed"
        /\ UNCHANGED <<rowVars, jobVars>>
  /\ UNCHANGED <<storeVars, fresh, plan, owed, wipeVars, historyVars>>

\* cleanup_failed_commit_locked looks for the reservation.
CheckFailed ==
  /\ step = "failed"
  /\ \/ /\ ref \in queue /\ ref \notin Bound
        /\ step' = "undo"
        /\ UNCHANGED jobVars
     \/ GoesTo("batch", {})
  /\ UNCHANGED <<rowVars, storeVars, fresh, plan, owed, wipeVars, historyVars>>

\* cleanup_one of the reference that was not bound
Undo ==
  /\ step = "undo"
  /\ \/ Delete(ref, TRUE) /\ step' = "undone" /\ UNCHANGED jobVars
     \/ Delete(ref, FALSE) /\ GoesTo("batch", {})
  /\ UNCHANGED <<rowVars, fresh, plan, owed, wipeVars, historyVars>>

CompleteUndo ==
  /\ step = "undone"
  /\ \/ ref \notin Bound /\ queue' = queue \ {ref}
     \/ UNCHANGED queue
  /\ GoesTo("batch", {})
  /\ UNCHANGED <<version, bound, storeVars, fresh, plan, owed, wipeVars, historyVars>>

-----------------------------------------------------------------------------
(* Cleaning up                                                             *)

\* pending_credential_cleanup: at most 64 references, the oldest by the clock.
BeginBatch ==
  /\ step = "batch"
  /\ \/ queue \cap Bound = {} /\ \E batch \in SUBSET queue : GoesTo("cleaning", batch)
     \/ Ends
  /\ UNCHANGED <<rowVars, storeVars, fresh, plan, owed, wipeVars, historyVars>>

\* cleanup_one: the first error ends the batch, and so does its timeout.
CleanUp ==
  /\ step = "cleaning"
  /\ \/ \E r \in todo :
          \/ /\ Delete(r, TRUE)
             /\ step' = "cleaned" /\ ref' = r
             /\ UNCHANGED <<owner, expected, todo>>
          \/ Delete(r, FALSE) /\ Ends
     \/ Ends /\ UNCHANGED storeVars
  /\ UNCHANGED <<rowVars, fresh, plan, owed, wipeVars, historyVars>>

\* complete_credential_cleanup
CompleteCleanup ==
  /\ step = "cleaned"
  /\ \/ /\ ref \notin Bound
        /\ queue' = queue \ {ref}
        /\ GoesTo("cleaning", todo \ {ref})
     \/ Ends /\ UNCHANGED queue
  /\ UNCHANGED <<version, bound, storeVars, fresh, plan, owed, wipeVars, historyVars>>

\* cleanup_pending after a profile was deleted
CleanUpOwed ==
  /\ LockFree /\ owed > 0
  /\ owed' = owed - 1
  /\ GoesTo("batch", {})
  /\ UNCHANGED <<rowVars, storeVars, fresh, plan, wipeVars, historyVars>>

-----------------------------------------------------------------------------
(* Clearing and reading                                                    *)

\* The queue after the secret of o was unbound
Unbound(o) == queue \cup ({bound[o]} \ {Nothing})

\* clear_server_credential, clear_proxy_credential; without a secret nothing
\* changes.
Clear(o) ==
  /\ LockFree /\ version[o] > 0 /\ version[o] < MaxVersion
  /\ version' = [version EXCEPT ![o] = IF bound[o] = Nothing THEN @ ELSE @ + 1]
  /\ queue' = Unbound(o)
  /\ bound' = [bound EXCEPT ![o] = Nothing]
  /\ GoesTo("batch", {})
  /\ UNCHANGED <<storeVars, fresh, plan, owed, wipeVars, historyVars>>

\* resolve_server_connection and the connection tests take the references from
\* one transaction and read the secrets afterwards.
Plan ==
  /\ LockFree
  /\ plan' \in (SUBSET Bound) \ {{}}
  /\ UNCHANGED <<rowVars, storeVars, fresh, step, jobVars, owed, wipeVars, historyVars>>

\* A secret is read; the first error ends the operation.
Read ==
  /\ plan # {}
  /\ \/ \E r \in plan : Readable(r) /\ plan' = plan \ {r}
     \/ plan' = {}
  /\ UNCHANGED <<rowVars, storeVars, fresh, step, jobVars, owed, wipeVars, historyVars>>

-----------------------------------------------------------------------------
(* Beside the lock                                                         *)

\* update_server, update_proxy; a change that would give the secret to another
\* endpoint is refused.
Update(o) ==
  /\ version[o] > 0 /\ version[o] < MaxVersion
  /\ version' = [version EXCEPT ![o] = @ + 1]
  /\ UNCHANGED <<bound, queue, storeVars, fresh, step, jobVars, plan, owed, wipeVars, historyVars>>

\* delete_server, delete_proxy
DeleteProfile(o) ==
  /\ version[o] > 0
  /\ version' = [version EXCEPT ![o] = 0]
  /\ queue' = Unbound(o)
  /\ bound' = [bound EXCEPT ![o] = Nothing]
  /\ owed' = owed + 1
  /\ UNCHANGED <<storeVars, fresh, step, jobVars, plan, wipeVars, historyVars>>

\* clear_all_local_data reads the bindings,
ListBindings ==
  /\ wipe = "idle"
  /\ wipe' = "listed"
  /\ listed' = Bound \cup queue
  /\ UNCHANGED <<rowVars, storeVars, fresh, step, jobVars, plan, owed, historyVars>>

\* deletes their secrets under the lock
BeginWipe ==
  /\ LockFree /\ wipe = "listed"
  /\ wipe' = "deleting"
  /\ GoesTo("wiping", listed)
  /\ UNCHANGED <<rowVars, storeVars, fresh, plan, owed, listed, historyVars>>

\* up to the first error,
WipeSecret ==
  /\ step = "wiping"
  /\ \/ \E r \in todo :
          /\ wiped' = wiped \cup {r}
          /\ \/ Delete(r, TRUE) /\ GoesTo("wiping", todo \ {r}) /\ UNCHANGED wipeVars
             \/ Delete(r, FALSE) /\ Ends /\ wipe' = "idle" /\ listed' = {}
     \/ /\ todo = {}
        /\ wipe' = "deleted"
        /\ Ends
        /\ UNCHANGED <<storeVars, listed, wiped>>
  /\ UNCHANGED <<rowVars, fresh, plan, owed, doubled, missed>>

\* and deletes all rows, unless clearing the files failed.
WipeRows ==
  /\ wipe = "deleted"
  /\ wipe' = "idle" /\ listed' = {}
  /\ \/ /\ version' = [o \in Owners |-> 0]
        /\ bound' = [o \in Owners |-> Nothing]
        /\ queue' = {}
        /\ missed' = missed \cup ((Bound \cup queue) \ listed)
     \/ UNCHANGED <<rowVars, missed>>
  /\ UNCHANGED <<storeVars, fresh, step, jobVars, plan, owed, doubled, wiped>>

\* The application ends and starts again; what is stored stays.
Crash ==
  /\ ~LockFree \/ owed > 0 \/ wipe # "idle"
  /\ Ends
  /\ plan' = {}
  /\ owed' = 0
  /\ wipe' = "idle" /\ listed' = {}
  /\ UNCHANGED <<rowVars, storeVars, fresh, historyVars>>

-----------------------------------------------------------------------------

Next ==
  \/ \E o \in Owners, r \in Refs : Reserve(o, r)
  \/ CreateItem \/ OpenFile \/ WriteFile \/ Commit
  \/ CheckFailed \/ Undo \/ CompleteUndo
  \/ BeginBatch \/ CleanUp \/ CompleteCleanup \/ CleanUpOwed
  \/ Plan \/ Read
  \/ \E o \in Owners : Clear(o) \/ Update(o) \/ DeleteProfile(o)
  \/ ListBindings \/ BeginWipe \/ WipeSecret \/ WipeRows
  \/ Crash

Spec == Init /\ [][Next]_vars

-----------------------------------------------------------------------------
(* Safety                                                                  *)

Saving == {"reserved", "fallback", "opened", "stored", "failed", "undo", "undone"}
Steps == Saving \cup {"free", "batch", "cleaning", "cleaned", "wiping"}

\* Types of the rows, the stores and the operation under way.
TypeOK ==
  /\ version \in [Owners -> 0..MaxVersion]
  /\ bound \in [Owners -> Refs \cup {Nothing}]
  /\ queue \in SUBSET Refs
  /\ vault \in SUBSET Refs
  /\ file \in [Refs -> {"none", "torn", "whole"}]
  /\ fresh \in SUBSET Refs
  /\ step \in Steps
  /\ owner \in Owners \cup {Nothing} /\ expected \in 0..MaxVersion
  /\ ref \in Refs \cup {Nothing} /\ todo \in SUBSET Refs
  /\ step \in Saving => owner \in Owners /\ ref \in Refs /\ expected > 0
  /\ plan \in SUBSET Refs
  /\ owed \in Nat
  /\ wipe \in {"idle", "listed", "deleting", "deleted"} /\ listed \in SUBSET Refs
  /\ doubled \in SUBSET Refs /\ missed \in SUBSET Refs /\ wiped \in SUBSET Refs

\* A reference that a row is bound to can be read, belongs to that row alone and
\* is not in the queue, whatever was saved, replaced or deleted beside it and
\* wherever the application crashed.  Only the clearing of all data deletes
\* bound secrets.
BoundIsStored ==
  \A o \in Owners : bound[o] # Nothing =>
    /\ Readable(bound[o]) \/ bound[o] \in wiped
    /\ bound[o] \notin queue
    /\ \A p \in Owners : bound[p] = bound[o] => p = o

\* Nothing is stored that nobody knows of: each stored secret is bound or waits
\* to be cleaned up, after every failure and crash.  The exceptions are a secret
\* that got into both stores and one that was saved while all data was cleared.
NoSecretLeaks == Stored \subseteq Bound \cup queue \cup doubled \cup missed

\* The secrets of a connection that is being resolved are not cleaned up under
\* it, even when its profile is deleted meanwhile.
PlanIsReadable ==
  \A r \in plan : Readable(r) \/ r \in wiped

\* Clearing all local data deletes the secrets, those too that are saved
\* meanwhile.
WipeLeavesNothing == LockFree => Stored \cap missed = {}
=============================================================================
