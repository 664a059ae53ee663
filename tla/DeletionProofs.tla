---------------------------- MODULE DeletionProofs ----------------------------
(***************************************************************************)
(* Proofs about AccountDeletion for any users, images and workers.         *)
(***************************************************************************)
EXTENDS AccountDeletion, TLAPS

\* What a worker has behind it at each of its steps, and only the requests
\* of deactivated accounts are processed.
WorkersAreInOrder ==
    \A w \in Workers : step[w] # "IDLE" =>
        /\ account[on[w]] = "DEACTIVATED"
        /\ step[w] \in { "WIPE", "COMMIT", "DELETE", "MARK_AUTH", "COMPLETE" } => mediaDone[on[w]]
        /\ step[w] \in { "DELETE", "MARK_AUTH", "COMPLETE" } => dataDone[on[w]]
        /\ step[w] \in { "MARK_AUTH", "COMPLETE" } => on[w] \notin identity
        /\ step[w] = "COMPLETE" => authDone[on[w]]

\* An object has a row, or its upload has not ended, or its removal has not,
\* or nothing knows of it; the uploads that outlast the request are among the
\* last.
LooseWhenUnnamed ==
    \A i \in Images :
        /\ i \in objects =>
               i \in recorded \/ upload[i] = "STORED" \/ removal[i] = "UNNAMED" \/ i \in loose
        /\ upload[i] \in { "CHECKED", "STORED" } /\ account[OwnerOf[i]] = "DEACTIVATED" => i \in loose

\* What a worker has read, or removed, is all there was but for those.
RemovalIsWhole ==
    \A w \in Workers, i \in Images : step[w] # "IDLE" /\ OwnerOf[i] = on[w] =>
        /\ step[w] = "REMOVE" /\ i \in objects => i \in keys[w] \/ i \in loose \/ removal[i] = "UNNAMED"
        /\ step[w] = "MARK_MEDIA" /\ i \in objects => i \in loose \/ removal[i] = "UNNAMED"
        /\ step[w] = "COMMIT" /\ i \in recorded => i \in keys[w] \/ i \in loose

\* What it has read is its user's.
KeysAreOwn ==
    \A w \in Workers : \A i \in keys[w] : step[w] # "IDLE" /\ OwnerOf[i] = on[w]

\* The inductive invariant.
Inv ==
    /\ TypeOK
    /\ WorkersAreInOrder /\ StepsAreInOrder
    /\ LooseWhenUnnamed /\ KeysAreOwn /\ RemovalIsWhole /\ OnlyLooseMediaStay

LEMMA InitInv == Init => Inv
BY DeletionAssumption
   DEF Init, Inv, TypeOK, RequestStatus, Steps, WorkersAreInOrder, StepsAreInOrder, LooseWhenUnnamed,
       KeysAreOwn, RemovalIsWhole, OnlyLooseMediaStay

\* A worker that works has a user.
LEMMA OnUser ==
    ASSUME TypeOK, NEW w \in Workers, step[w] # "IDLE"
    PROVE  on[w] \in Users /\ on[w] # NoUser
BY DeletionAssumption DEF TypeOK

-----------------------------------------------------------------------------
LEMMA TypeStep == TypeOK /\ [Next]_vars => TypeOK'
<1> SUFFICES ASSUME TypeOK, [Next]_vars PROVE TypeOK'
  OBVIOUS
<1> USE DEF TypeOK, RequestStatus, Steps
<1>1. ASSUME NEW i \in Images, BeginUpload(i)
      PROVE  TypeOK'
  BY <1>1, OnUser, DeletionAssumption DEF BeginUpload, requestVars, doneVars, accountVars, workerVars
<1>2. ASSUME NEW i \in Images, Store(i)
      PROVE  TypeOK'
  BY <1>2, OnUser, DeletionAssumption DEF Store, requestVars, doneVars, accountVars, workerVars
<1>3. ASSUME NEW i \in Images, Record(i)
      PROVE  TypeOK'
  BY <1>3, OnUser, DeletionAssumption DEF Record, requestVars, doneVars, accountVars, workerVars
<1>4. ASSUME NEW i \in Images, Present(i)
      PROVE  TypeOK'
  BY <1>4, OnUser, DeletionAssumption DEF Present, requestVars, doneVars, accountVars, workerVars
<1>5. ASSUME NEW i \in Images, GiveUp(i)
      PROVE  TypeOK'
  BY <1>5, OnUser, DeletionAssumption DEF GiveUp, requestVars, doneVars, accountVars, workerVars, Fault
<1>6. ASSUME NEW i \in Images, BeginRemove(i)
      PROVE  TypeOK'
  BY <1>6, OnUser, DeletionAssumption DEF BeginRemove, requestVars, doneVars, accountVars, workerVars
<1>7. ASSUME NEW i \in Images, RemoveRow(i)
      PROVE  TypeOK'
  BY <1>7, OnUser, DeletionAssumption DEF RemoveRow, requestVars, doneVars, accountVars, workerVars
<1>8. ASSUME NEW i \in Images, RefuseRemove(i)
      PROVE  TypeOK'
  BY <1>8, OnUser, DeletionAssumption DEF RefuseRemove, requestVars, doneVars, accountVars, workerVars
<1>9. ASSUME NEW i \in Images, RemoveObject(i)
      PROVE  TypeOK'
  BY <1>9, OnUser, DeletionAssumption DEF RemoveObject, requestVars, doneVars, accountVars, workerVars, Fault
<1>10. ASSUME NEW i \in Images, CrashUpload(i)
      PROVE  TypeOK'
  BY <1>10, OnUser, DeletionAssumption DEF CrashUpload, requestVars, doneVars, accountVars, workerVars, Fault
<1>11. ASSUME NEW u \in Users, Request(u)
      PROVE  TypeOK'
  BY <1>11, OnUser, DeletionAssumption DEF Request, doneVars, workerVars, ImagesOf
<1>12. ASSUME NEW u \in Users, BackoffEnds(u)
      PROVE  TypeOK'
  BY <1>12, OnUser, DeletionAssumption DEF BackoffEnds, doneVars, accountVars, imageVars, workerVars
<1>13. ASSUME NEW u \in Users, LeaseEnds(u)
      PROVE  TypeOK'
  BY <1>13, OnUser, DeletionAssumption DEF LeaseEnds, doneVars, accountVars, imageVars, workerVars, Fault
<1>14. ASSUME NEW w \in Workers, NEW u \in Users, Claim(w, u)
      PROVE  TypeOK'
  BY <1>14, OnUser, DeletionAssumption DEF Claim, doneVars, accountVars, imageVars, FirstStep, Claimable
<1>15. ASSUME NEW w \in Workers, ReadMedia(w)
      PROVE  TypeOK'
  BY <1>15, OnUser, DeletionAssumption
     DEF ReadMedia, requestVars, doneVars, accountVars, imageVars, At, GoTo, Named
<1>16. ASSUME NEW w \in Workers, RemoveMedia(w)
      PROVE  TypeOK'
  BY <1>16, OnUser, DeletionAssumption DEF RemoveMedia, requestVars, doneVars, accountVars, At, GoTo
<1>17. ASSUME NEW w \in Workers, MarkMedia(w)
      PROVE  TypeOK'
  BY <1>17, OnUser, DeletionAssumption DEF MarkMedia, requestVars, accountVars, imageVars, At, GoTo
<1>18. ASSUME NEW w \in Workers, BeginWipe(w)
      PROVE  TypeOK'
  BY <1>18, OnUser, DeletionAssumption
     DEF BeginWipe, requestVars, doneVars, accountVars, imageVars, At, GoTo, AfterWipe, Named
<1>19. ASSUME NEW w \in Workers, CommitWipe(w)
      PROVE  TypeOK'
  BY <1>19, OnUser, DeletionAssumption DEF CommitWipe, requestVars, accountVars, At, GoTo, AfterWipe
<1>20. ASSUME NEW w \in Workers, DeleteIdentity(w)
      PROVE  TypeOK'
  BY <1>20, OnUser, DeletionAssumption DEF DeleteIdentity, requestVars, doneVars, imageVars, At, GoTo
<1>21. ASSUME NEW w \in Workers, MarkAuth(w)
      PROVE  TypeOK'
  BY <1>21, OnUser, DeletionAssumption DEF MarkAuth, requestVars, accountVars, imageVars, At, GoTo
<1>22. ASSUME NEW w \in Workers, Complete(w)
      PROVE  TypeOK'
  BY <1>22, OnUser, DeletionAssumption DEF Complete, doneVars, accountVars, imageVars, At, Leave
<1>23. ASSUME NEW w \in Workers, StepFails(w)
      PROVE  TypeOK'
  BY <1>23, OnUser, DeletionAssumption DEF StepFails, requestVars, doneVars, accountVars, imageVars, GoTo
<1>24. ASSUME NEW w \in Workers, RecordFailure(w)
      PROVE  TypeOK'
  BY <1>24, OnUser, DeletionAssumption
     DEF RecordFailure, doneVars, accountVars, imageVars, At, Leave, Exhausted
<1>25. ASSUME NEW w \in Workers, Crash(w)
      PROVE  TypeOK'
  BY <1>25, OnUser, DeletionAssumption DEF Crash, requestVars, doneVars, accountVars, imageVars, Fault, Leave
<1>26. CASE UNCHANGED vars
  BY <1>26 DEF vars, requestVars, doneVars, accountVars, imageVars, workerVars
<1> QED
  BY <1>1, <1>2, <1>3, <1>4, <1>5, <1>6, <1>7, <1>8, <1>9, <1>10, <1>11,
     <1>12, <1>13, <1>14, <1>15, <1>16, <1>17, <1>18, <1>19, <1>20, <1>21, <1>22, <1>23, <1>24, <1>25, <1>26
     DEF Next, ImageStep, Upload, RemoveImage, Time, Work, Remove, Wipe, Finish

LEMMA OrderStep == Inv /\ [Next]_vars => (WorkersAreInOrder /\ StepsAreInOrder)'
<1> SUFFICES ASSUME Inv, [Next]_vars PROVE (WorkersAreInOrder /\ StepsAreInOrder)'
  OBVIOUS
<1> USE DEF Inv, TypeOK, RequestStatus, Steps, WorkersAreInOrder, StepsAreInOrder
<1>1. ASSUME NEW i \in Images, BeginUpload(i)
      PROVE  (WorkersAreInOrder /\ StepsAreInOrder)'
  BY <1>1, OnUser, DeletionAssumption DEF BeginUpload, requestVars, doneVars, accountVars, workerVars
<1>2. ASSUME NEW i \in Images, Store(i)
      PROVE  (WorkersAreInOrder /\ StepsAreInOrder)'
  BY <1>2, OnUser, DeletionAssumption DEF Store, requestVars, doneVars, accountVars, workerVars
<1>3. ASSUME NEW i \in Images, Record(i)
      PROVE  (WorkersAreInOrder /\ StepsAreInOrder)'
  BY <1>3, OnUser, DeletionAssumption DEF Record, requestVars, doneVars, accountVars, workerVars
<1>4. ASSUME NEW i \in Images, Present(i)
      PROVE  (WorkersAreInOrder /\ StepsAreInOrder)'
  BY <1>4, OnUser, DeletionAssumption DEF Present, requestVars, doneVars, accountVars, workerVars
<1>5. ASSUME NEW i \in Images, GiveUp(i)
      PROVE  (WorkersAreInOrder /\ StepsAreInOrder)'
  BY <1>5, OnUser, DeletionAssumption DEF GiveUp, requestVars, doneVars, accountVars, workerVars, Fault
<1>6. ASSUME NEW i \in Images, BeginRemove(i)
      PROVE  (WorkersAreInOrder /\ StepsAreInOrder)'
  BY <1>6, OnUser, DeletionAssumption DEF BeginRemove, requestVars, doneVars, accountVars, workerVars
<1>7. ASSUME NEW i \in Images, RemoveRow(i)
      PROVE  (WorkersAreInOrder /\ StepsAreInOrder)'
  BY <1>7, OnUser, DeletionAssumption DEF RemoveRow, requestVars, doneVars, accountVars, workerVars
<1>8. ASSUME NEW i \in Images, RefuseRemove(i)
      PROVE  (WorkersAreInOrder /\ StepsAreInOrder)'
  BY <1>8, OnUser, DeletionAssumption DEF RefuseRemove, requestVars, doneVars, accountVars, workerVars
<1>9. ASSUME NEW i \in Images, RemoveObject(i)
      PROVE  (WorkersAreInOrder /\ StepsAreInOrder)'
  BY <1>9, OnUser, DeletionAssumption DEF RemoveObject, requestVars, doneVars, accountVars, workerVars, Fault
<1>10. ASSUME NEW i \in Images, CrashUpload(i)
      PROVE  (WorkersAreInOrder /\ StepsAreInOrder)'
  BY <1>10, OnUser, DeletionAssumption DEF CrashUpload, requestVars, doneVars, accountVars, workerVars, Fault
<1>11. ASSUME NEW u \in Users, Request(u)
      PROVE  (WorkersAreInOrder /\ StepsAreInOrder)'
  BY <1>11, OnUser, DeletionAssumption DEF Request, doneVars, workerVars, ImagesOf
<1>12. ASSUME NEW u \in Users, BackoffEnds(u)
      PROVE  (WorkersAreInOrder /\ StepsAreInOrder)'
  BY <1>12, OnUser, DeletionAssumption DEF BackoffEnds, doneVars, accountVars, imageVars, workerVars
<1>13. ASSUME NEW u \in Users, LeaseEnds(u)
      PROVE  (WorkersAreInOrder /\ StepsAreInOrder)'
  BY <1>13, OnUser, DeletionAssumption DEF LeaseEnds, doneVars, accountVars, imageVars, workerVars, Fault
<1>14. ASSUME NEW w \in Workers, NEW u \in Users, Claim(w, u)
      PROVE  (WorkersAreInOrder /\ StepsAreInOrder)'
  BY <1>14, OnUser, DeletionAssumption DEF Claim, doneVars, accountVars, imageVars, FirstStep, Claimable
<1>15. ASSUME NEW w \in Workers, ReadMedia(w)
      PROVE  (WorkersAreInOrder /\ StepsAreInOrder)'
  BY <1>15, OnUser, DeletionAssumption
     DEF ReadMedia, requestVars, doneVars, accountVars, imageVars, At, GoTo, Named
<1>16. ASSUME NEW w \in Workers, RemoveMedia(w)
      PROVE  (WorkersAreInOrder /\ StepsAreInOrder)'
  BY <1>16, OnUser, DeletionAssumption DEF RemoveMedia, requestVars, doneVars, accountVars, At, GoTo
<1>17. ASSUME NEW w \in Workers, MarkMedia(w)
      PROVE  (WorkersAreInOrder /\ StepsAreInOrder)'
  BY <1>17, OnUser, DeletionAssumption DEF MarkMedia, requestVars, accountVars, imageVars, At, GoTo
<1>18. ASSUME NEW w \in Workers, BeginWipe(w)
      PROVE  (WorkersAreInOrder /\ StepsAreInOrder)'
  BY <1>18, OnUser, DeletionAssumption
     DEF BeginWipe, requestVars, doneVars, accountVars, imageVars, At, GoTo, AfterWipe, Named
<1>19. ASSUME NEW w \in Workers, CommitWipe(w)
      PROVE  (WorkersAreInOrder /\ StepsAreInOrder)'
  BY <1>19, OnUser, DeletionAssumption DEF CommitWipe, requestVars, accountVars, At, GoTo, AfterWipe
<1>20. ASSUME NEW w \in Workers, DeleteIdentity(w)
      PROVE  (WorkersAreInOrder /\ StepsAreInOrder)'
  BY <1>20, OnUser, DeletionAssumption DEF DeleteIdentity, requestVars, doneVars, imageVars, At, GoTo
<1>21. ASSUME NEW w \in Workers, MarkAuth(w)
      PROVE  (WorkersAreInOrder /\ StepsAreInOrder)'
  BY <1>21, OnUser, DeletionAssumption DEF MarkAuth, requestVars, accountVars, imageVars, At, GoTo
<1>22. ASSUME NEW w \in Workers, Complete(w)
      PROVE  (WorkersAreInOrder /\ StepsAreInOrder)'
  BY <1>22, OnUser, DeletionAssumption DEF Complete, doneVars, accountVars, imageVars, At, Leave
<1>23. ASSUME NEW w \in Workers, StepFails(w)
      PROVE  (WorkersAreInOrder /\ StepsAreInOrder)'
  BY <1>23, OnUser, DeletionAssumption DEF StepFails, requestVars, doneVars, accountVars, imageVars, GoTo
<1>24. ASSUME NEW w \in Workers, RecordFailure(w)
      PROVE  (WorkersAreInOrder /\ StepsAreInOrder)'
  BY <1>24, OnUser, DeletionAssumption
     DEF RecordFailure, doneVars, accountVars, imageVars, At, Leave, Exhausted
<1>25. ASSUME NEW w \in Workers, Crash(w)
      PROVE  (WorkersAreInOrder /\ StepsAreInOrder)'
  BY <1>25, OnUser, DeletionAssumption DEF Crash, requestVars, doneVars, accountVars, imageVars, Fault, Leave
<1>26. CASE UNCHANGED vars
  BY <1>26 DEF vars, requestVars, doneVars, accountVars, imageVars, workerVars
<1> QED
  BY <1>1, <1>2, <1>3, <1>4, <1>5, <1>6, <1>7, <1>8, <1>9, <1>10, <1>11,
     <1>12, <1>13, <1>14, <1>15, <1>16, <1>17, <1>18, <1>19, <1>20, <1>21, <1>22, <1>23, <1>24, <1>25, <1>26
     DEF Next, ImageStep, Upload, RemoveImage, Time, Work, Remove, Wipe, Finish

LEMMA MediaStep == Inv /\ [Next]_vars => (LooseWhenUnnamed /\ KeysAreOwn /\ RemovalIsWhole /\ OnlyLooseMediaStay)'
<1> SUFFICES ASSUME Inv, [Next]_vars PROVE (LooseWhenUnnamed /\ KeysAreOwn /\ RemovalIsWhole /\ OnlyLooseMediaStay)'
  OBVIOUS
<1> USE
     DEF Inv, TypeOK, RequestStatus, Steps, WorkersAreInOrder, LooseWhenUnnamed, KeysAreOwn, RemovalIsWhole, OnlyLooseMediaStay
<1>1. ASSUME NEW i \in Images, BeginUpload(i)
      PROVE  (LooseWhenUnnamed /\ KeysAreOwn /\ RemovalIsWhole /\ OnlyLooseMediaStay)'
  BY <1>1, OnUser, DeletionAssumption DEF BeginUpload, requestVars, doneVars, accountVars, workerVars
<1>2. ASSUME NEW i \in Images, Store(i)
      PROVE  (LooseWhenUnnamed /\ KeysAreOwn /\ RemovalIsWhole /\ OnlyLooseMediaStay)'
  <2>1. \A q \in Workers : step[q] # "IDLE" /\ on[q] = OwnerOf[i] => i \in loose
    BY <1>2 DEF Store
  <2>2. mediaDone[OwnerOf[i]] => i \in loose
    <3>1. OwnerOf[i] \in Users
      BY DeletionAssumption
    <3>2. mediaDone[OwnerOf[i]] => account[OwnerOf[i]] = "DEACTIVATED"
      BY <3>1 DEF StepsAreInOrder
    <3> QED
      BY <1>2, <3>2 DEF Store
  <2> QED
    BY <1>2, <2>1, <2>2, DeletionAssumption DEF Store, requestVars, doneVars, accountVars, workerVars
<1>3. ASSUME NEW i \in Images, Record(i)
      PROVE  (LooseWhenUnnamed /\ KeysAreOwn /\ RemovalIsWhole /\ OnlyLooseMediaStay)'
  BY <1>3, OnUser, DeletionAssumption DEF Record, requestVars, doneVars, accountVars, workerVars
<1>4. ASSUME NEW i \in Images, Present(i)
      PROVE  (LooseWhenUnnamed /\ KeysAreOwn /\ RemovalIsWhole /\ OnlyLooseMediaStay)'
  BY <1>4, OnUser, DeletionAssumption DEF Present, requestVars, doneVars, accountVars, workerVars
<1>5. ASSUME NEW i \in Images, GiveUp(i)
      PROVE  (LooseWhenUnnamed /\ KeysAreOwn /\ RemovalIsWhole /\ OnlyLooseMediaStay)'
  BY <1>5, OnUser, DeletionAssumption DEF GiveUp, requestVars, doneVars, accountVars, workerVars, Fault
<1>6. ASSUME NEW i \in Images, BeginRemove(i)
      PROVE  (LooseWhenUnnamed /\ KeysAreOwn /\ RemovalIsWhole /\ OnlyLooseMediaStay)'
  BY <1>6, OnUser, DeletionAssumption DEF BeginRemove, requestVars, doneVars, accountVars, workerVars
<1>7. ASSUME NEW i \in Images, RemoveRow(i)
      PROVE  (LooseWhenUnnamed /\ KeysAreOwn /\ RemovalIsWhole /\ OnlyLooseMediaStay)'
  BY <1>7, OnUser, DeletionAssumption DEF RemoveRow, requestVars, doneVars, accountVars, workerVars
<1>8. ASSUME NEW i \in Images, RefuseRemove(i)
      PROVE  (LooseWhenUnnamed /\ KeysAreOwn /\ RemovalIsWhole /\ OnlyLooseMediaStay)'
  BY <1>8, OnUser, DeletionAssumption DEF RefuseRemove, requestVars, doneVars, accountVars, workerVars
<1>9. ASSUME NEW i \in Images, RemoveObject(i)
      PROVE  (LooseWhenUnnamed /\ KeysAreOwn /\ RemovalIsWhole /\ OnlyLooseMediaStay)'
  BY <1>9, OnUser, DeletionAssumption DEF RemoveObject, requestVars, doneVars, accountVars, workerVars, Fault
<1>10. ASSUME NEW i \in Images, CrashUpload(i)
      PROVE  (LooseWhenUnnamed /\ KeysAreOwn /\ RemovalIsWhole /\ OnlyLooseMediaStay)'
  BY <1>10, OnUser, DeletionAssumption DEF CrashUpload, requestVars, doneVars, accountVars, workerVars, Fault
<1>11. ASSUME NEW u \in Users, Request(u)
      PROVE  (LooseWhenUnnamed /\ KeysAreOwn /\ RemovalIsWhole /\ OnlyLooseMediaStay)'
  BY <1>11, OnUser, DeletionAssumption DEF Request, doneVars, workerVars, ImagesOf
<1>12. ASSUME NEW u \in Users, BackoffEnds(u)
      PROVE  (LooseWhenUnnamed /\ KeysAreOwn /\ RemovalIsWhole /\ OnlyLooseMediaStay)'
  BY <1>12, OnUser, DeletionAssumption DEF BackoffEnds, doneVars, accountVars, imageVars, workerVars
<1>13. ASSUME NEW u \in Users, LeaseEnds(u)
      PROVE  (LooseWhenUnnamed /\ KeysAreOwn /\ RemovalIsWhole /\ OnlyLooseMediaStay)'
  BY <1>13, OnUser, DeletionAssumption DEF LeaseEnds, doneVars, accountVars, imageVars, workerVars, Fault
<1>14. ASSUME NEW w \in Workers, NEW u \in Users, Claim(w, u)
      PROVE  (LooseWhenUnnamed /\ KeysAreOwn /\ RemovalIsWhole /\ OnlyLooseMediaStay)'
  BY <1>14, OnUser, DeletionAssumption DEF Claim, doneVars, accountVars, imageVars, FirstStep, Claimable
<1>15. ASSUME NEW w \in Workers, ReadMedia(w)
      PROVE  (LooseWhenUnnamed /\ KeysAreOwn /\ RemovalIsWhole /\ OnlyLooseMediaStay)'
  BY <1>15, OnUser, DeletionAssumption
     DEF ReadMedia, requestVars, doneVars, accountVars, imageVars, At, GoTo, Named
<1>16. ASSUME NEW w \in Workers, RemoveMedia(w)
      PROVE  (LooseWhenUnnamed /\ KeysAreOwn /\ RemovalIsWhole /\ OnlyLooseMediaStay)'
  BY <1>16, OnUser, DeletionAssumption DEF RemoveMedia, requestVars, doneVars, accountVars, At, GoTo
<1>17. ASSUME NEW w \in Workers, MarkMedia(w)
      PROVE  (LooseWhenUnnamed /\ KeysAreOwn /\ RemovalIsWhole /\ OnlyLooseMediaStay)'
  BY <1>17, OnUser, DeletionAssumption DEF MarkMedia, requestVars, accountVars, imageVars, At, GoTo
<1>18. ASSUME NEW w \in Workers, BeginWipe(w)
      PROVE  (LooseWhenUnnamed /\ KeysAreOwn /\ RemovalIsWhole /\ OnlyLooseMediaStay)'
  BY <1>18, OnUser, DeletionAssumption
     DEF BeginWipe, requestVars, doneVars, accountVars, imageVars, At, GoTo, AfterWipe, Named
<1>19. ASSUME NEW w \in Workers, CommitWipe(w)
      PROVE  (LooseWhenUnnamed /\ KeysAreOwn /\ RemovalIsWhole /\ OnlyLooseMediaStay)'
  <2>1. /\ step[w] = "COMMIT" /\ step' = [step EXCEPT ![w] = "DELETE"] /\ on' = on
        /\ recorded' = recorded \ keys[w] /\ UNCHANGED <<objects, upload, removal, loose, account>>
        /\ keys' = [keys EXCEPT ![w] = {}] /\ mediaDone' = mediaDone
        /\ dataDone' = [dataDone EXCEPT ![on[w]] = TRUE]
    BY <1>19 DEF CommitWipe, accountVars, At, GoTo, AfterWipe
  <2>2. on[w] \in Users /\ mediaDone[on[w]]
    BY <2>1, OnUser
  <2>3. LooseWhenUnnamed'
    <3>1. ASSUME NEW i \in Images, i \in keys[w], i \in objects PROVE i \in loose \/ removal[i] = "UNNAMED"
      BY <2>1, <2>2, <3>1
    <3> QED
      BY <2>1, <3>1
  <2>4. RemovalIsWhole'
    BY <2>1
  <2>5. OnlyLooseMediaStay'
    BY <2>1, <2>2
  <2>6. KeysAreOwn'
    BY <2>1
  <2> QED
    BY <2>3, <2>4, <2>5, <2>6
<1>20. ASSUME NEW w \in Workers, DeleteIdentity(w)
      PROVE  (LooseWhenUnnamed /\ KeysAreOwn /\ RemovalIsWhole /\ OnlyLooseMediaStay)'
  BY <1>20, OnUser, DeletionAssumption DEF DeleteIdentity, requestVars, doneVars, imageVars, At, GoTo
<1>21. ASSUME NEW w \in Workers, MarkAuth(w)
      PROVE  (LooseWhenUnnamed /\ KeysAreOwn /\ RemovalIsWhole /\ OnlyLooseMediaStay)'
  BY <1>21, OnUser, DeletionAssumption DEF MarkAuth, requestVars, accountVars, imageVars, At, GoTo
<1>22. ASSUME NEW w \in Workers, Complete(w)
      PROVE  (LooseWhenUnnamed /\ KeysAreOwn /\ RemovalIsWhole /\ OnlyLooseMediaStay)'
  BY <1>22, OnUser, DeletionAssumption DEF Complete, doneVars, accountVars, imageVars, At, Leave
<1>23. ASSUME NEW w \in Workers, StepFails(w)
      PROVE  (LooseWhenUnnamed /\ KeysAreOwn /\ RemovalIsWhole /\ OnlyLooseMediaStay)'
  BY <1>23, OnUser, DeletionAssumption DEF StepFails, requestVars, doneVars, accountVars, imageVars, GoTo
<1>24. ASSUME NEW w \in Workers, RecordFailure(w)
      PROVE  (LooseWhenUnnamed /\ KeysAreOwn /\ RemovalIsWhole /\ OnlyLooseMediaStay)'
  BY <1>24, OnUser, DeletionAssumption
     DEF RecordFailure, doneVars, accountVars, imageVars, At, Leave, Exhausted
<1>25. ASSUME NEW w \in Workers, Crash(w)
      PROVE  (LooseWhenUnnamed /\ KeysAreOwn /\ RemovalIsWhole /\ OnlyLooseMediaStay)'
  BY <1>25, OnUser, DeletionAssumption DEF Crash, requestVars, doneVars, accountVars, imageVars, Fault, Leave
<1>26. CASE UNCHANGED vars
  BY <1>26 DEF vars, requestVars, doneVars, accountVars, imageVars, workerVars
<1> QED
  BY <1>1, <1>2, <1>3, <1>4, <1>5, <1>6, <1>7, <1>8, <1>9, <1>10, <1>11,
     <1>12, <1>13, <1>14, <1>15, <1>16, <1>17, <1>18, <1>19, <1>20, <1>21, <1>22, <1>23, <1>24, <1>25, <1>26
     DEF Next, ImageStep, Upload, RemoveImage, Time, Work, Remove, Wipe, Finish
-----------------------------------------------------------------------------
LEMMA InvStep == Inv /\ [Next]_vars => Inv'
<1> SUFFICES ASSUME Inv, [Next]_vars PROVE Inv'
  OBVIOUS
<1>1. TypeOK'
  BY TypeStep DEF Inv
<1> QED
  BY <1>1, OrderStep, MediaStep DEF Inv

\* The invariant holds in every reachable state.
THEOREM InvHolds == Spec => []Inv
BY InitInv, InvStep, PTL DEF Spec

\* Every reachable state of the requests and their workers is well typed.
THEOREM TypeCorrect == Spec => []TypeOK
<1>1. Inv => TypeOK
  BY DEF Inv
<1> QED
  BY <1>1, InvHolds, PTL

\* However many workers carry out a request, and wherever they die or
\* outlive their lease, its steps are done in order and a completed one has
\* them all behind it.
THEOREM DeletionIsOrdered == Spec => []StepsAreInOrder
<1>1. Inv => StepsAreInOrder
  BY DEF Inv
<1> QED
  BY <1>1, InvHolds, PTL

\* The only stored images a deletion leaves are those no row told of, and one
\* whose owner's own removal took the row first stays only until that removal
\* reaches the storage, or fails there.
THEOREM NamedMediaAreRemoved == Spec => []OnlyLooseMediaStay
<1>1. Inv => OnlyLooseMediaStay
  BY DEF Inv
<1> QED
  BY <1>1, InvHolds, PTL

-----------------------------------------------------------------------------
(* The workers keep the queue.                                             *)

\* A request is locked while it is PROCESSING, and a worker that has one read
\* the number of its claim; claims are only added.
LocksMatch == \A u \in Users : lease[u] = "FREE" <=> status[u] # "PROCESSING"

TriesAreClaims == \A w \in Workers : on[w] # NoUser => 0 < tries[w] /\ tries[w] <= attempts[on[w]]

QueueInv == TypeOK /\ LocksMatch /\ TriesAreClaims

\* What QueueRow of a user shows of the request.
LEMMA QueueRowType ==
    ASSUME TypeOK, NEW u \in Users
    PROVE  /\ QueueRow(u) \in Queue!RowStates
           /\ QueueRow(u).state = QueueState(u)
           /\ QueueRow(u).claims = attempts[u]
           /\ \A w \in Workers : QueueRow(u).holds[w] = IF on[w] = u THEN tries[w] ELSE 0
           /\ QueueRow(u).faults = faults
<1>1. QueueState(u) \in { "NEW", "WAITING", "TAKEN", "STALE", "DONE", "FAILED" }
  BY DEF TypeOK, RequestStatus, QueueState
<1>2. [w \in Workers |-> IF on[w] = u THEN tries[w] ELSE 0] \in [Workers -> Nat]
  BY DEF TypeOK
<1>3. attempts[u] \in Nat /\ faults \in Nat
  BY DEF TypeOK
<1> QED
  BY <1>1, <1>2, <1>3 DEF QueueRow, Queue!RowStates

LEMMA QueueRowTypeNext ==
    ASSUME TypeOK', NEW u \in Users
    PROVE  /\ QueueRow(u)' \in Queue!RowStates
           /\ QueueRow(u)'.state = QueueState(u)'
           /\ QueueRow(u)'.claims = attempts'[u]
           /\ \A w \in Workers : QueueRow(u)'.holds[w] = IF on'[w] = u THEN tries'[w] ELSE 0
           /\ QueueRow(u)'.faults = faults'
<1>1. QueueState(u)' \in { "NEW", "WAITING", "TAKEN", "STALE", "DONE", "FAILED" }
  BY DEF TypeOK, RequestStatus, QueueState
<1>2. [w \in Workers |-> IF on'[w] = u THEN tries'[w] ELSE 0] \in [Workers -> Nat]
  BY DEF TypeOK
<1>3. attempts'[u] \in Nat /\ faults' \in Nat
  BY DEF TypeOK
<1> QED
  BY <1>1, <1>2, <1>3 DEF QueueRow, Queue!RowStates

\* A request that nobody touches, though a fault may befall another.
LEMMA QueueElsewhere ==
    ASSUME TypeOK, TypeOK', NEW u \in Users,
           status'[u] = status[u], lease'[u] = lease[u], attempts'[u] = attempts[u], faults' >= faults,
           \A w \in Workers : (on'[w] = u <=> on[w] = u) /\ (on[w] = u => tries'[w] = tries[w])
    PROVE  Queue!RowStep(QueueRow(u), QueueRow(u)')
<1>1. QueueState(u)' = QueueState(u)
  BY DEF QueueState
<1>2. /\ QueueRow(u)'.state = QueueRow(u).state
      /\ QueueRow(u)'.claims = QueueRow(u).claims
      /\ QueueRow(u)'.faults >= QueueRow(u).faults
  BY <1>1, QueueRowType, QueueRowTypeNext
<1>3. \A w \in Workers : QueueRow(u)'.holds[w] = QueueRow(u).holds[w]
  BY QueueRowType, QueueRowTypeNext
<1>4. QueueRow(u)'.holds = QueueRow(u).holds
  BY <1>3, QueueRowType, QueueRowTypeNext DEF Queue!RowStates
<1> QED
  BY <1>2, <1>4 DEF Queue!RowStep, Queue!Elsewhere

LEMMA QueueRequest ==
    ASSUME TypeOK, TypeOK', NEW u \in Users, NEW c \in Users, Request(c)
    PROVE  Queue!RowStep(QueueRow(u), QueueRow(u)')
<1>1. /\ UNCHANGED <<on, tries, attempts, lease, faults>> /\ faults \in Nat
      /\ status' = [status EXCEPT ![c] = "REQUESTED"] /\ status[c] = "NONE"
  BY DEF Request, workerVars, TypeOK
<1>2. CASE c # u
  BY <1>1, <1>2, QueueElsewhere
<1>3. CASE c = u
  <2>1. status[u] = "NONE" /\ status'[u] = "REQUESTED"
    BY <1>1, <1>3 DEF TypeOK
  <2>2. QueueState(u) = "NEW" /\ QueueState(u)' = "WAITING"
    BY <2>1 DEF QueueState
  <2>3. \A w \in Workers : QueueRow(u)'.holds[w] = QueueRow(u).holds[w]
    BY <1>1, QueueRowType, QueueRowTypeNext
  <2>4. QueueRow(u)'.holds = QueueRow(u).holds
    BY <2>3, QueueRowType, QueueRowTypeNext DEF Queue!RowStates
  <2>5. QueueRow(u)'.claims = QueueRow(u).claims /\ QueueRow(u)'.faults = QueueRow(u).faults
    BY <1>1, QueueRowType, QueueRowTypeNext
  <2>6. Queue!Add(QueueRow(u), QueueRow(u)')
    BY <2>2, <2>4, <2>5, QueueRowType, QueueRowTypeNext DEF Queue!Add
  <2> QED
    BY <2>6 DEF Queue!RowStep
<1> QED
  BY <1>2, <1>3

LEMMA QueueLeaseEnds ==
    ASSUME QueueInv, TypeOK', NEW u \in Users, NEW c \in Users, LeaseEnds(c)
    PROVE  Queue!RowStep(QueueRow(u), QueueRow(u)')
<1>1. /\ TypeOK /\ UNCHANGED <<on, tries, attempts, status>> /\ faults \in Nat
      /\ lease' = [lease EXCEPT ![c] = "STALE"] /\ lease[c] = "HELD"
  BY DEF LeaseEnds, workerVars, QueueInv, TypeOK
<1>2. faults' >= faults
  BY <1>1 DEF LeaseEnds, Fault
<1>3. CASE c # u
  BY <1>1, <1>2, <1>3, QueueElsewhere
<1>4. CASE c = u
  <2>1. status[u] = "PROCESSING" /\ lease[u] = "HELD" /\ status'[u] = "PROCESSING"
    BY <1>1, <1>4 DEF QueueInv, LocksMatch
  <2>2. lease'[u] = "STALE"
    BY <1>1, <1>4 DEF TypeOK
  <2>3. QueueState(u) = "TAKEN" /\ QueueState(u)' = "STALE"
    BY <2>1, <2>2 DEF QueueState
  <2>4. \A w \in Workers : QueueRow(u)'.holds[w] = QueueRow(u).holds[w]
    BY <1>1, QueueRowType, QueueRowTypeNext
  <2>5. QueueRow(u)'.holds = QueueRow(u).holds
    BY <1>1, <2>4, QueueRowType, QueueRowTypeNext DEF Queue!RowStates
  <2>6. Queue!Held(QueueRow(u)) => \E w \in Workers : on[w] = u
    BY <1>1, QueueRowType DEF Queue!Held
  <2>7. ASSUME \E w \in Workers : on[w] = u
        PROVE  faults' > faults
    BY <1>1, <1>4, <2>7 DEF LeaseEnds, Fault
  <2>8. QueueRow(u)'.claims = QueueRow(u).claims
    BY <1>1, QueueRowType, QueueRowTypeNext
  <2>9. Queue!Expire(QueueRow(u), QueueRow(u)')
    BY <1>1, <1>2, <2>3, <2>5, <2>6, <2>7, <2>8, QueueRowType, QueueRowTypeNext DEF Queue!Expire
  <2> QED
    BY <2>9 DEF Queue!RowStep
<1> QED
  BY <1>3, <1>4

LEMMA QueueClaim ==
    ASSUME QueueInv, TypeOK', NEW u \in Users, NEW w \in Workers, NEW c \in Users, Claim(w, c)
    PROVE  Queue!RowStep(QueueRow(u), QueueRow(u)')
<1>1. TypeOK /\ on[w] = NoUser /\ u # NoUser /\ faults' = faults /\ faults \in Nat
  BY DeletionAssumption DEF Claim, QueueInv, TypeOK
<1>2. \A v \in Workers : on'[v] = IF v = w THEN c ELSE on[v]
  BY <1>1 DEF Claim, TypeOK
<1>3. \A v \in Workers : tries'[v] = IF v = w THEN attempts[c] + 1 ELSE tries[v]
  BY <1>1 DEF Claim, TypeOK
<1>4. CASE c # u
  <2>1. status'[u] = status[u] /\ lease'[u] = lease[u] /\ attempts'[u] = attempts[u]
    BY <1>1, <1>4 DEF Claim, TypeOK
  <2> QED
    BY <1>1, <1>2, <1>3, <1>4, <2>1, QueueElsewhere
<1>5. CASE c = u
  <2>1. status'[u] = "PROCESSING" /\ lease'[u] = "HELD" /\ attempts'[u] = attempts[u] + 1
    BY <1>1, <1>5 DEF Claim, TypeOK
  <2>2. QueueState(u) \in { "WAITING", "STALE" } /\ QueueState(u)' = "TAKEN"
    BY <1>5, <2>1 DEF QueueState, Claim, Claimable
  <2>3. Queue!HolderMoves(QueueRow(u), QueueRow(u)', w, attempts'[u])
    BY <1>1, <1>2, <1>3, <1>5, <2>1, QueueRowType, QueueRowTypeNext DEF Queue!HolderMoves
  <2>4. QueueRow(u).holds[w] = 0
    BY <1>1, QueueRowType
  <2>5. QueueRow(u)'.claims = attempts'[u] /\ QueueRow(u).claims = attempts[u]
    BY <1>1, QueueRowType, QueueRowTypeNext
  <2>6. QueueRow(u)'.faults = QueueRow(u).faults
    BY <1>1, QueueRowType, QueueRowTypeNext
  <2>7. Queue!Claim(QueueRow(u), QueueRow(u)', w)
    BY <1>1, <2>1, <2>2, <2>3, <2>4, <2>5, <2>6, QueueRowType, QueueRowTypeNext DEF Queue!Claim
  <2> QED
    BY <2>7 DEF Queue!RowStep
<1> QED
  BY <1>4, <1>5

\* A worker ends its request, whatever has become of it.
LEMMA QueueLeave ==
    ASSUME QueueInv, TypeOK', NEW u \in Users, NEW w \in Workers, Complete(w) \/ RecordFailure(w)
    PROVE  Queue!RowStep(QueueRow(u), QueueRow(u)')
<1>1. TypeOK /\ on[w] \in Users /\ u # NoUser /\ faults \in Nat
  BY DeletionAssumption DEF QueueInv, TypeOK, Complete, RecordFailure, At
<1>2. \A v \in Workers : on'[v] = IF v = w THEN NoUser ELSE on[v]
  BY <1>1 DEF Complete, RecordFailure, Leave, TypeOK
<1>3. tries' = tries /\ attempts' = attempts /\ faults' = faults
  BY DEF Complete, RecordFailure, Leave
<1>4. CASE on[w] # u
  <2>1. status'[u] = status[u] /\ lease'[u] = lease[u]
    BY <1>1, <1>4 DEF Complete, RecordFailure, TypeOK
  <2> QED
    BY <1>1, <1>2, <1>3, <1>4, <2>1, QueueElsewhere
<1>5. CASE on[w] = u
  <2>1. 0 < tries[w] /\ tries[w] \in Nat /\ tries[w] <= attempts[u] /\ attempts[u] \in Nat
    BY <1>1, <1>5 DEF QueueInv, TriesAreClaims, TypeOK
  <2>2. Queue!HolderMoves(QueueRow(u), QueueRow(u)', w, 0)
    BY <1>1, <1>2, <1>3, <1>5, QueueRowType, QueueRowTypeNext DEF Queue!HolderMoves
  <2>3. QueueRow(u).holds[w] = tries[w]
    BY <1>1, <1>5, QueueRowType
  <2>4. QueueRow(u)'.claims = QueueRow(u).claims /\ QueueRow(u)'.faults = QueueRow(u).faults
    BY <1>1, <1>3, QueueRowType, QueueRowTypeNext
  <2>5. QueueRow(u)'.state = QueueState(u)'
    BY QueueRowTypeNext
  <2>6. CASE Complete(w)
    <3>1. status'[u] = "COMPLETED"
      BY <1>1, <1>5, <2>6 DEF Complete, TypeOK
    <3>2. QueueState(u)' = "DONE"
      BY <3>1 DEF QueueState
    <3>3. Queue!End(QueueRow(u), QueueRow(u)', w)
      BY <2>1, <2>2, <2>3, <2>4, <2>5, <3>2 DEF Queue!End
    <3> QED
      BY <3>3 DEF Queue!RowStep
  <2>7. CASE RecordFailure(w) /\ Exhausted(w)
    <3>1. status'[u] = "FAILED"
      BY <1>1, <1>5, <2>7 DEF RecordFailure, TypeOK
    <3>2. QueueState(u)' = "FAILED"
      BY <3>1 DEF QueueState
    <3>4. QueueRow(u).claims = attempts[u]
      BY <1>1, QueueRowType
    <3>5. attempts[u] >= MaxAttempts
      BY <2>1, <2>7, DeletionAssumption DEF Exhausted
    <3>3. Queue!GiveUp(QueueRow(u), QueueRow(u)', w)
      BY <2>1, <2>2, <2>3, <2>4, <2>5, <3>2, <3>4, <3>5 DEF Queue!GiveUp
    <3> QED
      BY <3>3 DEF Queue!RowStep
  <2>8. CASE RecordFailure(w) /\ ~ Exhausted(w)
    <3>1. status'[u] = "RETRY"
      BY <1>1, <1>5, <2>8 DEF RecordFailure, TypeOK
    <3>2. QueueState(u)' = "WAITING"
      BY <3>1 DEF QueueState
    <3>3. tries[w] \in 1 .. MaxAttempts - 1
      BY <2>1, <2>8, DeletionAssumption DEF Exhausted
    <3>4. Queue!Return(QueueRow(u), QueueRow(u)', w)
      BY <2>2, <2>3, <2>4, <2>5, <3>2, <3>3 DEF Queue!Return
    <3> QED
      BY <3>4 DEF Queue!RowStep
  <2> QED
    BY <2>6, <2>7, <2>8
<1> QED
  BY <1>4, <1>5

LEMMA QueueCrash ==
    ASSUME QueueInv, TypeOK', NEW u \in Users, NEW w \in Workers, Crash(w)
    PROVE  Queue!RowStep(QueueRow(u), QueueRow(u)')
<1>1. TypeOK /\ u # NoUser /\ faults \in Nat /\ faults' = faults + 1
  BY DeletionAssumption DEF QueueInv, TypeOK, Crash, Fault
<1>2. \A v \in Workers : on'[v] = IF v = w THEN NoUser ELSE on[v]
  BY <1>1 DEF Crash, Leave, TypeOK
<1>3. UNCHANGED <<tries, status, attempts, lease>>
  BY DEF Crash, Leave, requestVars
<1>4. CASE on[w] # u
  BY <1>1, <1>2, <1>3, <1>4, QueueElsewhere
<1>5. CASE on[w] = u
  <2>1. tries[w] > 0
    BY <1>1, <1>5 DEF QueueInv, TriesAreClaims
  <2>2. Queue!HolderMoves(QueueRow(u), QueueRow(u)', w, 0)
    BY <1>1, <1>2, <1>3, QueueRowType, QueueRowTypeNext DEF Queue!HolderMoves
  <2>3. QueueRow(u).holds[w] > 0
    BY <1>1, <1>5, <2>1, QueueRowType
  <2>4. QueueState(u)' = QueueState(u)
    BY <1>3 DEF QueueState
  <2>5. QueueRow(u)'.claims = QueueRow(u).claims /\ QueueRow(u)'.state = QueueRow(u).state
    BY <1>1, <1>3, <2>4, QueueRowType, QueueRowTypeNext
  <2>6. QueueRow(u)'.faults > QueueRow(u).faults
    BY <1>1, QueueRowType, QueueRowTypeNext
  <2>7. Queue!Die(QueueRow(u), QueueRow(u)', w)
    BY <2>2, <2>3, <2>5, <2>6 DEF Queue!Die
  <2> QED
    BY <2>7 DEF Queue!RowStep
<1> QED
  BY <1>4, <1>5

\* Images, data and checkpoints are not the queue's business.
QueueUnchanged == UNCHANGED <<on, tries, status, attempts, lease>> /\ faults' \in { faults, faults + 1 }

LEMMA OtherSteps ==
    ASSUME [Next]_vars
    PROVE  \/ QueueUnchanged
           \/ \E u \in Users : Request(u) \/ LeaseEnds(u)
           \/ \E w \in Workers :
                Crash(w) \/ Complete(w) \/ RecordFailure(w) \/ \E u \in Users : Claim(w, u)
<1> USE DEF QueueUnchanged, requestVars, workerVars
<1>1. ASSUME NEW i \in Images, ImageStep(i)
      PROVE  QueueUnchanged
  BY <1>1 DEF ImageStep, Upload, RemoveImage, BeginUpload, Store, Record, Present, GiveUp, CrashUpload,
              BeginRemove, RemoveRow, RefuseRemove, RemoveObject, Fault
<1>2. ASSUME NEW u \in Users, BackoffEnds(u)
      PROVE  QueueUnchanged
  BY <1>2 DEF BackoffEnds
<1>3. ASSUME NEW w \in Workers, Remove(w) \/ Wipe(w)
      PROVE  QueueUnchanged
  BY <1>3 DEF Remove, ReadMedia, RemoveMedia, MarkMedia, Wipe, BeginWipe, CommitWipe, GoTo
<1>4. ASSUME NEW w \in Workers, DeleteIdentity(w) \/ MarkAuth(w) \/ StepFails(w)
      PROVE  QueueUnchanged
  BY <1>4 DEF DeleteIdentity, MarkAuth, StepFails, GoTo
<1>5. CASE UNCHANGED vars
  BY <1>5 DEF vars
<1> QED
  BY <1>1, <1>2, <1>3, <1>4, <1>5 DEF Next, Time, Work, Finish

\* Every step takes each request one step of the queue.
LEMMA QueueStep ==
    ASSUME QueueInv, [Next]_vars, NEW u \in Users
    PROVE  Queue!RowStep(QueueRow(u), QueueRow(u)')
<1>1. TypeOK /\ TypeOK' /\ faults \in Nat
  BY TypeStep DEF QueueInv, TypeOK
<1>2. CASE QueueUnchanged
  BY <1>1, <1>2, QueueElsewhere DEF QueueUnchanged
<1> QED
  BY <1>1, <1>2, OtherSteps, QueueRequest, QueueLeaseEnds, QueueClaim, QueueLeave, QueueCrash

\* The columns that lock a request are written together, and the number of
\* its claim is all that a worker keeps of the row.
LEMMA QueueInvStep == QueueInv /\ [Next]_vars => QueueInv'
<1> SUFFICES ASSUME QueueInv, [Next]_vars PROVE QueueInv'
  OBVIOUS
<1>1. TypeOK /\ TypeOK'
  BY TypeStep DEF QueueInv
<1> USE DEF LocksMatch, TriesAreClaims, requestVars, workerVars
<1>2. LocksMatch /\ TriesAreClaims
  BY DEF QueueInv
<1>3. CASE QueueUnchanged
  BY <1>2, <1>3, <1>1 DEF QueueUnchanged, QueueInv
<1>4. ASSUME NEW u \in Users, Request(u) \/ LeaseEnds(u)
      PROVE  (LocksMatch /\ TriesAreClaims)'
  BY <1>1, <1>2, <1>4 DEF Request, LeaseEnds, TypeOK
<1>5. ASSUME NEW w \in Workers, NEW u \in Users, Claim(w, u)
      PROVE  (LocksMatch /\ TriesAreClaims)'
  <2>1. LocksMatch'
    BY <1>1, <1>2, <1>5 DEF Claim, TypeOK
  <2>2. /\ on'[w] = u /\ tries'[w] = attempts[u] + 1 /\ attempts'[u] = attempts[u] + 1
        /\ \A v \in Workers : v # w => on'[v] = on[v] /\ tries'[v] = tries[v]
        /\ \A c \in Users : attempts[c] \in Nat /\ attempts'[c] \in Nat /\ attempts'[c] >= attempts[c]
    BY <1>1, <1>5 DEF Claim, TypeOK
  <2>3. \A v \in Workers : tries[v] \in Nat /\ on[v] \in Users \cup { NoUser }
    BY <1>1 DEF TypeOK
  <2>4. \A v \in Workers : v # w /\ on[v] # NoUser => tries[v] <= attempts'[on[v]]
    BY <1>2, <2>2, <2>3
  <2>5. 0 < tries'[w] /\ tries'[w] <= attempts'[on'[w]]
    BY <2>2
  <2> QED
    BY <1>2, <2>1, <2>2, <2>4, <2>5
<1>6. ASSUME NEW w \in Workers, Crash(w) \/ Complete(w) \/ RecordFailure(w)
      PROVE  (LocksMatch /\ TriesAreClaims)'
  BY <1>1, <1>2, <1>6 DEF Crash, Complete, RecordFailure, Leave, At, TypeOK
<1> QED
  BY <1>1, <1>3, <1>4, <1>5, <1>6, OtherSteps DEF QueueInv

LEMMA QueueInvHolds == Spec => []QueueInv
<1>1. Init => QueueInv
  BY InitInv, DeletionAssumption DEF Inv, QueueInv, LocksMatch, TriesAreClaims, Init
<1> QED
  BY <1>1, QueueInvStep, PTL DEF Spec

\* Every interleaving of the workers, for any number of users, images,
\* workers and attempts, keeps the contract of the queue.
THEOREM DeletionKeepsQueue == Spec => KeepsQueue
<1>1. Init => Queue!Init
  <2> SUFFICES ASSUME Init, NEW u \in Users
               PROVE  QueueRow(u) = Queue!Fresh
    BY DEF Queue!Init
  <2>1. status[u] = "NONE" /\ attempts[u] = 0 /\ faults = 0 /\ \A w \in Workers : on[w] # u
    BY DeletionAssumption DEF Init
  <2> QED
    BY <2>1 DEF QueueRow, QueueState, Queue!Fresh
<1>2. QueueInv /\ [Next]_vars => [Queue!Next]_([u \in Users |-> QueueRow(u)])
  <2> SUFFICES ASSUME QueueInv, [Next]_vars
               PROVE  Queue!Next
    OBVIOUS
  <2>1. TypeOK'
    BY TypeStep DEF QueueInv
  <2> QED
    BY <2>1, QueueStep, QueueRowTypeNext DEF Queue!Next
<1> QED
  BY <1>1, <1>2, QueueInvHolds, PTL DEF Spec, KeepsQueue, Queue!Spec

\* So a request is claimed at most MaxAttempts times and once more for each
\* fault, and is not given up before the MaxAttempts-th claim.
THEOREM AttemptsStayCounted == Spec => []AttemptsAreUsed
<1>1. MaxAttempts \in Nat \ { 0 }
  BY DeletionAssumption
<1>2. KeepsQueue => []Queue!ClaimsAreCounted
  BY <1>1, Queue!ClaimsCounted DEF KeepsQueue
<1>3. QueueInv /\ Queue!ClaimsAreCounted => AttemptsAreUsed
  BY DEF Queue!ClaimsAreCounted, QueueRow, QueueState, AttemptsAreUsed
<1> QED
  BY <1>2, <1>3, DeletionKeepsQueue, QueueInvHolds, PTL

\* Until something fails, no two workers carry out the same request.
THEOREM OneWorkerPerRequest ==
    Spec => [](faults = 0 => \A v, w \in Workers : on[v] = on[w] /\ on[v] # NoUser => v = w)
<1>1. MaxAttempts \in Nat \ { 0 }
  BY DeletionAssumption
<1>2. KeepsQueue => []Queue!OneWorkerWithoutFault
  BY <1>1, Queue!WorkersExclude DEF KeepsQueue
<1>3. QueueInv /\ Queue!OneWorkerWithoutFault =>
          (faults = 0 => \A v, w \in Workers : on[v] = on[w] /\ on[v] # NoUser => v = w)
  <2> SUFFICES ASSUME QueueInv, Queue!OneWorkerWithoutFault, faults = 0,
                      NEW v \in Workers, NEW w \in Workers, on[v] = on[w], on[v] # NoUser
               PROVE  v = w
    OBVIOUS
  <2>1. TypeOK /\ on[v] \in Users
    BY DEF QueueInv, TypeOK
  <2>2. QueueRow(on[v]).holds[v] > 0 /\ QueueRow(on[v]).holds[w] > 0
    BY <2>1, QueueRowType DEF QueueInv, TriesAreClaims
  <2>3. QueueRow(on[v]).faults = 0
    BY <2>1, QueueRowType
  <2> QED
    BY <2>1, <2>2, <2>3 DEF Queue!OneWorkerWithoutFault
<1> QED
  BY <1>2, <1>3, DeletionKeepsQueue, QueueInvHolds, PTL
=============================================================================
