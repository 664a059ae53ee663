---------------------------- MODULE AccountDeletion ----------------------------
(***************************************************************************)
(* Deleting an account: the request that deactivates it, the workers of    *)
(* several API processes that carry it out under a lease, and the uploads  *)
(* and removals of listing images that are under way meanwhile.            *)
(*                                                                         *)
(* The work spans the image storage, PostgreSQL and the authentication     *)
(* service.  A worker takes one statement, transaction or call per step    *)
(* and marks what is done, so that another can go on from there.  It takes *)
(* requests one at a time; those of a larger batch that wait are held      *)
(* between Claim and the first step.                                       *)
(***************************************************************************)
EXTENDS Integers, FiniteSets

CONSTANTS
    Users,
    Images,
    OwnerOf,     \* of each image
    Workers,
    MaxAttempts, \* accountDeletionMaxAttempts
    MaxFaults,   \* bound: deaths of processes, leases outlived, cleanups that fail
    NoUser

ASSUME DeletionAssumption ==
    /\ OwnerOf \in [Images -> Users]
    /\ MaxAttempts \in Nat \ { 0 } /\ MaxFaults \in Nat
    /\ NoUser \notin Users

VARIABLES
    status,     \* of each user's deletion request; NONE before there is one
    attempts,   \* claims of it
    lease,      \* lockedAt: FREE (null), HELD, or STALE (too long ago)
    due,        \* nextAttemptAt has come
    mediaDone, dataDone, authDone, \* its checkpoints
    account,    \* accountStatus
    identity,   \* users whose authentication identity exists
    objects,    \* images in the storage
    recorded,   \* images with a row
    upload,     \* of each image: NONE, CHECKED, STORED, RECORDED, DONE
    removal,    \* of each image by its owner: NONE, ASKED, or UNNAMED (the row is gone)
    step,       \* where each worker is
    on,         \* the user whose request it processes
    tries,      \* the attempts it read when it claimed the request
    keys,       \* images it read to remove, then images whose rows it removed
    loose,      \* images nothing will remove: see OnlyLooseMediaStay
    faults

requestVars == <<status, attempts, lease, due>>
doneVars == <<mediaDone, dataDone, authDone>>
accountVars == <<account, identity>>
imageVars == <<objects, recorded, upload, removal, loose>>
workerVars == <<step, on, tries, keys>>
vars == <<status, attempts, lease, due, mediaDone, dataDone, authDone, account, identity,
          objects, recorded, upload, removal, step, on, tries, keys, loose, faults>>

RequestStatus == { "NONE", "REQUESTED", "PROCESSING", "RETRY", "COMPLETED", "FAILED" }
Steps ==
    { "IDLE", "READ", "REMOVE", "MARK_MEDIA", "WIPE", "COMMIT", "DELETE", "MARK_AUTH", "COMPLETE", "CAUGHT" }

ImagesOf(u) == { i \in Images : OwnerOf[i] = u }

Fault == faults < MaxFaults /\ faults' = faults + 1

-----------------------------------------------------------------------------
(* The user: images, and the request.                                      *)

\* An upload passes the guards and finds the listing its user's.
BeginUpload(i) ==
    /\ account[OwnerOf[i]] = "ACTIVE" /\ upload[i] = "NONE"
    /\ upload' = [upload EXCEPT ![i] = "CHECKED"]
    /\ UNCHANGED <<requestVars, doneVars, accountVars, objects, recorded, removal, loose, workerVars, faults>>

Store(i) ==
    /\ upload[i] = "CHECKED"
    /\ upload' = [upload EXCEPT ![i] = "STORED"]
    /\ objects' = objects \cup { i }
    /\ UNCHANGED <<requestVars, doneVars, accountVars, recorded, removal, loose, workerVars, faults>>

\* The row is inserted while the listing can be edited, which those of the
\* anonymised account cannot.
Record(i) ==
    /\ upload[i] = "STORED" /\ ~ dataDone[OwnerOf[i]]
    /\ upload' = [upload EXCEPT ![i] = "RECORDED"]
    /\ recorded' = recorded \cup { i }
    /\ UNCHANGED <<requestVars, doneVars, accountVars, objects, removal, loose, workerVars, faults>>

\* The listing is presented.  When that fails the object is removed again, or
\* that fails too; the row stays.
Present(i) ==
    /\ upload[i] = "RECORDED"
    /\ upload' = [upload EXCEPT ![i] = "DONE"]
    /\ objects' \in { objects, objects \ { i } }
    /\ UNCHANGED <<requestVars, doneVars, accountVars, recorded, removal, loose, workerVars, faults>>

\* The row is refused, for its listing's status or another reason, and the
\* object removed again.
GiveUp(i) ==
    /\ upload[i] = "STORED"
    /\ upload' = [upload EXCEPT ![i] = "DONE"]
    /\ \/ objects' = objects \ { i } /\ UNCHANGED <<loose, faults>>
       \/ Fault /\ loose' = loose \cup { i } /\ UNCHANGED objects
    /\ UNCHANGED <<requestVars, doneVars, accountVars, recorded, removal, workerVars>>

\* The user asks for an image's removal, and passes the guards.
BeginRemove(i) ==
    /\ account[OwnerOf[i]] = "ACTIVE" /\ i \in recorded /\ removal[i] = "NONE"
    /\ removal' = [removal EXCEPT ![i] = "ASKED"]
    /\ UNCHANGED <<requestVars, doneVars, accountVars, objects, recorded, upload, loose, workerVars, faults>>

\* The row is deleted while the listing can be edited; it is waited for while
\* a worker's open transaction deletes it.
RemoveRow(i) ==
    /\ removal[i] = "ASKED" /\ i \in recorded /\ ~ dataDone[OwnerOf[i]]
    /\ \A w \in Workers : i \in keys[w] => step[w] # "COMMIT"
    /\ recorded' = recorded \ { i }
    /\ removal' = [removal EXCEPT ![i] = "UNNAMED"]
    /\ UNCHANGED <<requestVars, doneVars, accountVars, objects, upload, loose, workerVars, faults>>

\* The row is gone, its listing is not to be edited, or the database fails.
RefuseRemove(i) ==
    /\ removal[i] = "ASKED"
    /\ removal' = [removal EXCEPT ![i] = "NONE"]
    /\ UNCHANGED <<requestVars, doneVars, accountVars, objects, recorded, upload, loose, workerVars, faults>>

\* The object of the deleted row goes, or stays when the storage fails or the
\* process dies: no row names it any more.
RemoveObject(i) ==
    /\ removal[i] = "UNNAMED"
    /\ removal' = [removal EXCEPT ![i] = "NONE"]
    /\ \/ objects' = objects \ { i } /\ UNCHANGED <<loose, faults>>
       \/ Fault /\ loose' = loose \cup { i } /\ UNCHANGED objects
    /\ UNCHANGED <<requestVars, doneVars, accountVars, recorded, upload, workerVars>>

\* The request and the deactivation commit together.  What commerce and
\* disputes refuse is outside.
Request(u) ==
    /\ account[u] = "ACTIVE" /\ status[u] = "NONE"
    /\ status' = [status EXCEPT ![u] = "REQUESTED"]
    /\ due' = [due EXCEPT ![u] = TRUE]
    /\ account' = [account EXCEPT ![u] = "DEACTIVATED"]
    /\ loose' = loose \cup { i \in ImagesOf(u) : upload[i] \in { "CHECKED", "STORED" } }
    /\ UNCHANGED <<attempts, lease, doneVars, identity, objects, recorded, upload, removal, workerVars, faults>>

-----------------------------------------------------------------------------
(* The worker.                                                             *)

At(w, s) == step[w] = s /\ on[w] # NoUser

GoTo(w, s) == step' = [step EXCEPT ![w] = s] /\ UNCHANGED <<on, tries>>

\* Mutant: the worker that ends still names its request.
LeaveOn(w) ==
    /\ step' = [step EXCEPT ![w] = "IDLE"]
    /\ keys' = [keys EXCEPT ![w] = {}]
    /\ UNCHANGED <<on, tries>>

Leave(w) ==
    /\ step' = [step EXCEPT ![w] = "IDLE"]
    /\ on' = [on EXCEPT ![w] = NoUser]
    /\ keys' = [keys EXCEPT ![w] = {}]
    /\ UNCHANGED tries

\* Mutant: a request whose worker died is not taken over.
ClaimableWaiting(u) == status[u] \in { "REQUESTED", "RETRY" } /\ due[u]

\* Mutant: a request is claimed although another worker's lease on it lasts.
ClaimableLeased(u) == status[u] \in { "REQUESTED", "RETRY", "PROCESSING" } /\ due[u]

Claimable(u) ==
    \/ status[u] \in { "REQUESTED", "RETRY" } /\ due[u]
    \/ status[u] = "PROCESSING" /\ lease[u] = "STALE"

\* The first step whose checkpoint the claimed row lacks.
FirstStep(u) ==
    CASE ~ mediaDone[u] -> "READ"
      [] mediaDone[u] /\ ~ dataDone[u] -> "WIPE"
      [] mediaDone[u] /\ dataDone[u] /\ ~ authDone[u] -> "DELETE"
      [] OTHER -> "COMPLETE"

Claim(w, u) ==
    /\ step[w] = "IDLE" /\ Claimable(u)
    /\ status' = [status EXCEPT ![u] = "PROCESSING"]
    /\ attempts' = [attempts EXCEPT ![u] = @ + 1]
    /\ lease' = [lease EXCEPT ![u] = "HELD"]
    /\ step' = [step EXCEPT ![w] = FirstStep(u)]
    /\ on' = [on EXCEPT ![w] = u]
    /\ tries' = [tries EXCEPT ![w] = attempts[u] + 1]
    /\ UNCHANGED <<due, doneVars, accountVars, imageVars, keys, faults>>

\* Mutant: only the first of the images is looked up.
NamedFirst(u) ==
    LET all == { i \in recorded : OwnerOf[i] = u } IN
    IF all = {} THEN {} ELSE { CHOOSE i \in all : TRUE }

\* The images of which the rows tell.
Named(u) == { i \in recorded : OwnerOf[i] = u }

ReadMedia(w) ==
    /\ At(w, "READ")
    /\ keys' = [keys EXCEPT ![w] = Named(on[w])]
    /\ GoTo(w, "REMOVE")
    /\ UNCHANGED <<requestVars, doneVars, accountVars, imageVars, faults>>

\* Objects are removed in several calls, of which one may fail.
RemoveMedia(w) ==
    /\ At(w, "REMOVE")
    /\ \/ objects' = objects \ keys[w] /\ GoTo(w, "MARK_MEDIA")
       \/ \E some \in SUBSET keys[w] : objects' = objects \ some /\ GoTo(w, "CAUGHT")
    /\ keys' = [keys EXCEPT ![w] = {}]
    /\ UNCHANGED <<requestVars, doneVars, accountVars, recorded, upload, removal, loose, faults>>

MarkMedia(w) ==
    /\ At(w, "MARK_MEDIA")
    /\ mediaDone' = [mediaDone EXCEPT ![on[w]] = TRUE]
    /\ GoTo(w, "WIPE")
    /\ UNCHANGED <<requestVars, dataDone, authDone, accountVars, imageVars, keys, faults>>

\* Mutant: the request is completed and the identity forgotten.
AfterWipeComplete == "COMPLETE"

AfterWipe == "DELETE"

\* anonymizeApplicationData, as far as the statement that deletes the image
\* rows; the listings are archived and the profile deleted after it.
\* Whoever finds the data anonymised does nothing.
BeginWipe(w) ==
    LET u == on[w] IN
    /\ At(w, "WIPE")
    /\ keys' = [keys EXCEPT ![w] = IF dataDone[u] THEN {} ELSE Named(u)]
    /\ GoTo(w, IF dataDone[u] THEN AfterWipe ELSE "COMMIT")
    /\ UNCHANGED <<requestVars, doneVars, accountVars, imageVars, faults>>

CommitWipe(w) ==
    /\ At(w, "COMMIT")
    /\ recorded' = recorded \ keys[w]
    /\ dataDone' = [dataDone EXCEPT ![on[w]] = TRUE]
    /\ keys' = [keys EXCEPT ![w] = {}]
    /\ GoTo(w, AfterWipe)
    /\ UNCHANGED <<requestVars, mediaDone, authDone, accountVars, objects, upload, removal, loose, faults>>

\* An identity that is missing counts as deleted.
DeleteIdentity(w) ==
    /\ At(w, "DELETE")
    /\ identity' = identity \ { on[w] }
    /\ GoTo(w, "MARK_AUTH")
    /\ UNCHANGED <<requestVars, doneVars, account, imageVars, keys, faults>>

MarkAuth(w) ==
    /\ At(w, "MARK_AUTH")
    /\ authDone' = [authDone EXCEPT ![on[w]] = TRUE]
    /\ GoTo(w, "COMPLETE")
    /\ UNCHANGED <<requestVars, mediaDone, dataDone, accountVars, imageVars, keys, faults>>

Complete(w) ==
    /\ At(w, "COMPLETE")
    /\ status' = [status EXCEPT ![on[w]] = "COMPLETED"]
    /\ lease' = [lease EXCEPT ![on[w]] = "FREE"]
    /\ Leave(w)
    /\ UNCHANGED <<attempts, due, doneVars, accountVars, imageVars, faults>>

\* A call or a statement fails.
StepFails(w) ==
    /\ step[w] \notin { "IDLE", "REMOVE", "CAUGHT" }
    /\ keys' = [keys EXCEPT ![w] = {}]
    /\ GoTo(w, "CAUGHT")
    /\ UNCHANGED <<requestVars, doneVars, accountVars, imageVars, faults>>

\* Mutant: the last attempt is one too many.
ExhaustedEarly(w) == tries[w] + 1 >= MaxAttempts

Exhausted(w) == tries[w] >= MaxAttempts

\* fail writes by id, whatever has become of the request.
RecordFailure(w) ==
    /\ At(w, "CAUGHT")
    /\ status' = [status EXCEPT ![on[w]] = IF Exhausted(w) THEN "FAILED" ELSE "RETRY"]
    /\ due' = [due EXCEPT ![on[w]] = FALSE]
    /\ lease' = [lease EXCEPT ![on[w]] = "FREE"]
    /\ Leave(w)
    /\ UNCHANGED <<attempts, doneVars, accountVars, imageVars, faults>>

-----------------------------------------------------------------------------
(* Time and crashes.                                                       *)

BackoffEnds(u) ==
    /\ status[u] # "NONE" /\ ~ due[u]
    /\ due' = [due EXCEPT ![u] = TRUE]
    /\ UNCHANGED <<status, attempts, lease, doneVars, accountVars, imageVars, workerVars, faults>>

\* The lock is old.  Whoever still works on the request does not notice.
LeaseEnds(u) ==
    /\ lease[u] = "HELD"
    /\ IF \E w \in Workers : on[w] = u THEN Fault ELSE UNCHANGED faults
    /\ lease' = [lease EXCEPT ![u] = "STALE"]
    /\ UNCHANGED <<status, attempts, due, doneVars, accountVars, imageVars, workerVars>>

\* The worker's process dies, or the write of RecordFailure fails.
Crash(w) ==
    /\ step[w] # "IDLE" /\ Fault
    /\ Leave(w)
    /\ UNCHANGED <<requestVars, doneVars, accountVars, imageVars>>

\* The process that serves an upload dies.
CrashUpload(i) ==
    /\ upload[i] \in { "CHECKED", "STORED" } /\ Fault
    /\ upload' = [upload EXCEPT ![i] = "DONE"]
    /\ loose' = loose \cup ({ i } \cap objects)
    /\ UNCHANGED <<requestVars, doneVars, accountVars, objects, recorded, removal, workerVars>>

-----------------------------------------------------------------------------
Init ==
    /\ status = [u \in Users |-> "NONE"]
    /\ attempts = [u \in Users |-> 0]
    /\ lease = [u \in Users |-> "FREE"]
    /\ due = [u \in Users |-> FALSE]
    /\ mediaDone = [u \in Users |-> FALSE]
    /\ dataDone = [u \in Users |-> FALSE]
    /\ authDone = [u \in Users |-> FALSE]
    /\ account = [u \in Users |-> "ACTIVE"]
    /\ identity = Users
    /\ objects = {} /\ recorded = {} /\ loose = {}
    /\ upload = [i \in Images |-> "NONE"]
    /\ removal = [i \in Images |-> "NONE"]
    /\ step = [w \in Workers |-> "IDLE"]
    /\ on = [w \in Workers |-> NoUser]
    /\ tries = [w \in Workers |-> 0]
    /\ keys = [w \in Workers |-> {}]
    /\ faults = 0

Upload(i) == BeginUpload(i) \/ Store(i) \/ Record(i) \/ Present(i) \/ GiveUp(i) \/ CrashUpload(i)

RemoveImage(i) == BeginRemove(i) \/ RemoveRow(i) \/ RefuseRemove(i) \/ RemoveObject(i)

ImageStep(i) == Upload(i) \/ RemoveImage(i)

Remove(w) == ReadMedia(w) \/ RemoveMedia(w) \/ MarkMedia(w)

Wipe(w) == BeginWipe(w) \/ CommitWipe(w)

Finish(w) == DeleteIdentity(w) \/ MarkAuth(w) \/ Complete(w)

Work(w) ==
    \/ \E u \in Users : Claim(w, u)
    \/ Remove(w) \/ Wipe(w) \/ Finish(w)
    \/ StepFails(w) \/ RecordFailure(w)

Time(u) == BackoffEnds(u) \/ LeaseEnds(u)

Next ==
    \/ \E i \in Images : ImageStep(i)
    \/ \E u \in Users : Request(u) \/ Time(u)
    \/ \E w \in Workers : Work(w) \/ Crash(w)

Spec == Init /\ [][Next]_vars

\* Timers poll for ever, time passes, and a worker that lives goes on.
Fairness ==
    /\ \A w \in Workers : WF_vars(Work(w))
    /\ \A u \in Users : WF_vars(Time(u))

FairSpec == Spec /\ Fairness

-----------------------------------------------------------------------------
(* Properties.                                                             *)

\* Every column holds a value its table allows, and a worker names a user
\* exactly while it works.
TypeOK ==
    /\ status \in [Users -> RequestStatus]
    /\ attempts \in [Users -> Nat]
    /\ lease \in [Users -> { "FREE", "HELD", "STALE" }]
    /\ due \in [Users -> BOOLEAN]
    /\ mediaDone \in [Users -> BOOLEAN]
    /\ dataDone \in [Users -> BOOLEAN]
    /\ authDone \in [Users -> BOOLEAN]
    /\ account \in [Users -> { "ACTIVE", "DEACTIVATED" }]
    /\ identity \subseteq Users
    /\ objects \subseteq Images /\ recorded \subseteq Images /\ loose \subseteq Images
    /\ upload \in [Images -> { "NONE", "CHECKED", "STORED", "RECORDED", "DONE" }]
    /\ removal \in [Images -> { "NONE", "ASKED", "UNNAMED" }]
    /\ step \in [Workers -> Steps]
    /\ on \in [Workers -> Users \cup { NoUser }]
    /\ tries \in [Workers -> Nat]
    /\ keys \in [Workers -> SUBSET Images]
    /\ faults \in Nat
    /\ \A w \in Workers : on[w] = NoUser <=> step[w] = "IDLE"

\* Whichever workers did which steps: the identity is deleted last, after
\* the data, after the media, and a completed request has it all behind it.
StepsAreInOrder ==
    \A u \in Users :
        /\ status[u] # "NONE" <=> account[u] = "DEACTIVATED"
        /\ mediaDone[u] => status[u] # "NONE"
        /\ dataDone[u] => mediaDone[u]
        /\ u \notin identity => dataDone[u]
        /\ authDone[u] => u \notin identity
        /\ status[u] = "COMPLETED" => authDone[u]

\* What the checkpoints say is gone is gone, but for the images no row told
\* of: those whose upload overlapped the request, those whose own cleanup or
\* removal failed, and those whose removal has still to reach the storage.
OnlyLooseMediaStay ==
    \A i \in Images :
        /\ i \in objects /\ mediaDone[OwnerOf[i]] => i \in loose \/ removal[i] = "UNNAMED"
        /\ i \in recorded /\ dataDone[OwnerOf[i]] => i \in loose

\* A request is given up after MaxAttempts claims, not before, and only a
\* fault makes one more claim.
AttemptsAreUsed ==
    \A u \in Users :
        /\ attempts[u] <= MaxAttempts + faults
        /\ status[u] = "FAILED" => attempts[u] >= MaxAttempts

\* Every request ends, COMPLETED or visibly FAILED, although workers die and
\* leases run out.
EveryRequestEnds ==
    \A u \in Users : status[u] = "REQUESTED" ~> status[u] \in { "COMPLETED", "FAILED" }

\* A completed deletion has left no stored image, but for uploads and removals
\* that have not ended.  The code does not keep this promise: an upload that was let in
\* before the request may insert its row between the removal of the objects
\* and the deletion of the rows (see the README).
MediaAreRemoved ==
    \A i \in Images :
        status[OwnerOf[i]] = "COMPLETED" /\ upload[i] = "DONE" /\ removal[i] = "NONE" => i \notin objects

-----------------------------------------------------------------------------
(* The contract the workers keep.                                          *)

QueueState(u) ==
    CASE status[u] = "NONE" -> "NEW"
      [] status[u] \in { "REQUESTED", "RETRY" } -> "WAITING"
      [] status[u] = "PROCESSING" /\ lease[u] = "HELD" -> "TAKEN"
      [] status[u] = "PROCESSING" /\ lease[u] # "HELD" -> "STALE"
      [] status[u] = "COMPLETED" -> "DONE"
      [] status[u] = "FAILED" -> "FAILED"

\* A worker works under the claim whose number it read.
QueueRow(u) ==
    [state |-> QueueState(u),
     claims |-> attempts[u],
     holds |-> [w \in Workers |-> IF on[w] = u THEN tries[w] ELSE 0],
     faults |-> faults]

Queue == INSTANCE LeasedQueue WITH
    Rows <- Users, Limit <- MaxAttempts, queue <- [u \in Users |-> QueueRow(u)]

\* Whatever the workers interleave, each deletion request is claimed, worked
\* on, put back and given up as LeasedQueue says: only while it waits or its
\* lease is old, and again only as often as its attempts allow.
KeepsQueue == Queue!Spec
=============================================================================
