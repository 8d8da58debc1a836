------------------------------ MODULE BlobStore ------------------------------
(***************************************************************************)
(* Content-addressed blobs: internal/blob/service.go over lutra.blobs and  *)
(* lutra.blob_uploads, and the object store behind them, which clients     *)
(* write to with presigned URLs. Workers store images (Put), and appended  *)
(* log values are stored inside the append's transaction (storeValue).     *)
(*                                                                         *)
(* A blob row names the object it was first stored as. Every upload, Put   *)
(* and storeValue draws a fresh object key, its id here; a session and its *)
(* object share one id. CompleteUpload and abortSession hold the lock of   *)
(* the session's row from their first statement to their commit, so that   *)
(* an id has at most one transaction, and those who wait for the lock need *)
(* no state.                                                               *)
(***************************************************************************)
EXTENDS Naturals, FiniteSets

CONSTANTS
  Digest,     \* content digests
  Large,      \* those of a content above partSize, uploaded in parts
  Id,         \* object keys
  MaxFaults   \* bound: failed calls and statements, crashes, late uploads

ASSUME BlobAssumption ==
  IsFiniteSet(Id) /\ "none" \notin Id /\ Large \subseteq Digest /\ MaxFaults \in Nat

VARIABLES
  blobs,    \* lutra.blobs: the object of each digest
  object,   \* the object store
  multi,    \* its multipart upload for a key
  parts,    \* what the uploaded parts add up to
  session,  \* the row of lutra.blob_uploads
  of,       \* the digest the id is used for
  use,      \* what drew the id
  tx,       \* the operation on the id that is under way
  expired,  \* sessions past expires_at
  urls,     \* ids somebody has a presigned PUT for
  told,     \* digests whose URI was given out
  faults

vars == <<blobs, object, multi, parts, session, of, use, tx, expired, urls, told, faults>>
store == <<object, multi, parts>>
ids == <<of, use, expired, urls>>

-----------------------------------------------------------------------------
(* State formulae. An operator whose name ends in Bug is a wrong variant of *)
(* the one that follows it, used only to try whether a property notices.   *)

None == "none"

\* The bytes of the digest, others of the same size, or of another size.
Bytes == {"right", "wrong", "short"}

TypeOK ==
  /\ blobs \in [Digest -> Id \cup {None}]
  /\ object \in [Id -> Bytes \cup {None}] /\ parts \in [Id -> Bytes \cup {None}]
  /\ multi \in [Id -> {"none", "open", "over"}]
  /\ session \in [Id -> {"none", "creating", "open", "gone"}]
  /\ of \in [Id -> Digest \cup {None}]
  /\ use \in [Id -> {"none", "upload", "put", "value"}]
  /\ tx \in [Id -> {"none", "complete", "stat", "checked", "inserted", "duplicate", "drop",
                    "abort", "emptied"}]
  /\ expired \subseteq Id /\ urls \subseteq Id /\ told \subseteq Digest
  /\ faults \in 0..MaxFaults

Init ==
  /\ blobs = [d \in Digest |-> None]
  /\ object = [i \in Id |-> None] /\ parts = [i \in Id |-> None]
  /\ multi = [i \in Id |-> "none"] /\ session = [i \in Id |-> "none"]
  /\ of = [i \in Id |-> None] /\ use = [i \in Id |-> "none"] /\ tx = [i \in Id |-> "none"]
  /\ expired = {} /\ urls = {} /\ told = {} /\ faults = 0

Fault == faults < MaxFaults /\ faults' = faults + 1
NoFault == UNCHANGED faults

\* A unique index makes an insert wait for one that is not yet committed.
Pending(d) == {i \in Id : of[i] = d /\ tx[i] = "inserted"}

-----------------------------------------------------------------------------
(* CreateUpload and PresignPart *)

\* already_exists: the client knows the URI from the digest.
Exists(d) ==
  /\ blobs[d] # None
  /\ told' = told \cup {d}
  /\ UNCHANGED <<blobs, store, session, ids, tx, faults>>

CreateUpload(i, d) ==
  /\ use[i] = "none" /\ blobs[d] = None
  /\ use' = [use EXCEPT ![i] = "upload"] /\ of' = [of EXCEPT ![i] = d]
  /\ session' = [session EXCEPT ![i] = "creating"]
  /\ multi' = IF d \in Large THEN [multi EXCEPT ![i] = "open"] ELSE multi
  /\ UNCHANGED <<blobs, object, parts, tx, expired, urls, told, faults>>

CreateBlobUpload(i) ==
  /\ session[i] = "creating"
  /\ session' = [session EXCEPT ![i] = "open"]
  /\ UNCHANGED <<blobs, store, ids, tx, told, faults>>

\* The insert fails, or only its answer is lost; the multipart upload is aborted, or it
\* is not, in a crash. A row nobody was told of waits for the sweep.
CreateFails(i) ==
  /\ session[i] = "creating" /\ Fault
  /\ \/ session' = [session EXCEPT ![i] = "gone"] /\ UNCHANGED expired
     \/ session' = [session EXCEPT ![i] = "open"] /\ expired' = expired \cup {i}
  /\ multi' \in {multi, [multi EXCEPT ![i] = IF @ = "open" THEN "over" ELSE @]}
  /\ UNCHANGED <<blobs, object, parts, of, use, urls, tx, told>>

PresignPart(i) ==
  /\ session[i] = "open" /\ i \notin expired \cup urls
  /\ urls' = urls \cup {i}
  /\ UNCHANGED <<blobs, store, session, of, use, expired, tx, told, faults>>

\* The client's PUT. If-None-Match keeps an object that is there, and the signed
\* checksum refuses other bytes. A URL outlives its session.
Late(i) == session[i] # "open" \/ tx[i] \in {"abort", "emptied"}

PutSingle(i) ==
  /\ i \in urls /\ of[i] \notin Large /\ object[i] = None
  /\ IF Late(i) THEN Fault ELSE NoFault
  /\ object' = [object EXCEPT ![i] = "right"]
  /\ UNCHANGED <<blobs, multi, parts, session, ids, tx, told>>

UploadPart(i, b) ==
  /\ i \in urls /\ multi[i] = "open"
  /\ parts' = [parts EXCEPT ![i] = b]
  /\ UNCHANGED <<blobs, object, multi, session, ids, tx, told, faults>>

-----------------------------------------------------------------------------
(* CompleteUpload *)

\* LockBlobUpload finds the row and nobody holds its lock. An upload that is
\* expired can still be completed.
LockableBug(i) == session[i] = "open" /\ tx[i] = "none" /\ i \notin expired
Lockable(i) == session[i] = "open" /\ tx[i] = "none"

Lock(i) ==
  /\ Lockable(i)
  /\ tx' = [tx EXCEPT ![i] = IF of[i] \in Large THEN "complete" ELSE "stat"]
  /\ UNCHANGED <<blobs, store, session, ids, told, faults>>

\* CompleteMultipartUpload succeeds once; an error may come from an earlier one
\* that did, or with the effect, and the stat decides.
CompleteMultipart(i) ==
  /\ tx[i] = "complete"
  /\ \/ /\ multi[i] = "open" /\ parts[i] # None
        /\ object' = [object EXCEPT ![i] = parts[i]]
        /\ multi' = [multi EXCEPT ![i] = "over"] /\ parts' = [parts EXCEPT ![i] = None]
        /\ NoFault
     \/ /\ IF multi[i] = "open" /\ parts[i] # None THEN Fault ELSE NoFault
        /\ UNCHANGED store
  /\ tx' = [tx EXCEPT ![i] = "stat"]
  /\ UNCHANGED <<blobs, session, ids, told>>

\* Size, and for a single PUT the checksum, which S3 has for no multipart object.
Accepted(i) ==
  IF of[i] \in Large THEN object[i] \in {"right", "wrong"} ELSE object[i] = "right"

Stat(i) ==
  /\ tx[i] = "stat"
  /\ tx' = [tx EXCEPT ![i] = IF Accepted(i) THEN "checked" ELSE "none"]
  /\ UNCHANGED <<blobs, store, session, ids, told, faults>>

InsertBlobIfAbsent(i) ==
  /\ use[i] # "put" /\ tx[i] = "checked" /\ Pending(of[i]) = {}
  /\ tx' = [tx EXCEPT ![i] = IF blobs[of[i]] = None THEN "inserted" ELSE "duplicate"]
  /\ UNCHANGED <<blobs, store, session, ids, told, faults>>

\* DeleteBlobUpload and the commit; for a value, the commit of the append. If its
\* answer is lost nothing else is done.
PublishedBug(i) == [blobs EXCEPT ![of[i]] = i]
Published(i) == IF tx[i] = "inserted" THEN [blobs EXCEPT ![of[i]] = i] ELSE blobs
Closed(i) == IF use[i] = "upload" THEN [session EXCEPT ![i] = "gone"] ELSE session

Commit(i) ==
  /\ tx[i] \in {"inserted", "duplicate"}
  /\ blobs' = Published(i) /\ session' = Closed(i) /\ expired' = expired \ {i}
  /\ \/ /\ tx[i] = "duplicate" /\ use[i] = "upload"
        /\ tx' = [tx EXCEPT ![i] = "drop"]
        /\ UNCHANGED <<told, faults>>
     \/ /\ tx[i] = "inserted" \/ use[i] = "value"
        /\ tx' = [tx EXCEPT ![i] = "none"] /\ told' = told \cup {of[i]}
        /\ NoFault
     \/ /\ Fault
        /\ tx' = [tx EXCEPT ![i] = "none"] /\ UNCHANGED told
  /\ UNCHANGED <<store, of, use, urls>>

\* The object of the loser is removed; an error of that is ignored.
DropBug(i) ==
  /\ tx[i] = "drop"
  /\ tx' = [tx EXCEPT ![i] = "none"]
  /\ told' = told \cup {of[i]}
  /\ UNCHANGED <<blobs, store, session, ids, faults>>
Drop(i) ==
  /\ tx[i] = "drop"
  /\ \/ object' = [object EXCEPT ![i] = None] /\ NoFault
     \/ UNCHANGED object /\ Fault
  /\ tx' = [tx EXCEPT ![i] = "none"]
  /\ told' = told \cup {of[i]}
  /\ UNCHANGED <<blobs, multi, parts, session, ids>>

-----------------------------------------------------------------------------
(* AbortUpload and CleanupExpiredUploads: abortSession *)

Expire(i) ==
  /\ session[i] = "open" /\ i \notin expired
  /\ expired' = expired \cup {i}
  /\ UNCHANGED <<blobs, store, session, of, use, urls, tx, told, faults>>

LockToAbort(i) ==
  /\ Lockable(i)
  /\ tx' = [tx EXCEPT ![i] = "abort"]
  /\ UNCHANGED <<blobs, store, session, ids, told, faults>>

\* CleanupExpiredUploads, at the interval of RunCleanup.
Sweep(i) == i \in expired /\ LockToAbort(i)

\* AbortMultipartUpload, whose error is ignored, and RemoveObject.
Empty(i) ==
  /\ tx[i] = "abort"
  /\ \/ /\ multi' = [multi EXCEPT ![i] = IF @ = "open" THEN "over" ELSE @]
        /\ parts' = [parts EXCEPT ![i] = None]
        /\ NoFault
     \/ multi[i] = "open" /\ UNCHANGED <<multi, parts>> /\ Fault
  /\ object' = [object EXCEPT ![i] = None]
  /\ tx' = [tx EXCEPT ![i] = "emptied"]
  /\ UNCHANGED <<blobs, session, ids, told>>

DeleteBlobUpload(i) ==
  /\ tx[i] = "emptied"
  /\ session' = [session EXCEPT ![i] = "gone"] /\ expired' = expired \ {i}
  /\ tx' = [tx EXCEPT ![i] = "none"]
  /\ UNCHANGED <<blobs, store, of, use, urls, told, faults>>

-----------------------------------------------------------------------------
(* Put, and storeValue of internal/runlog *)

\* The digest is looked up and the object written; the row comes later.
PutObject(i, d, u) ==
  /\ use[i] = "none" /\ blobs[d] = None
  /\ use' = [use EXCEPT ![i] = u] /\ of' = [of EXCEPT ![i] = d]
  /\ object' = [object EXCEPT ![i] = "right"]
  /\ tx' = [tx EXCEPT ![i] = "checked"]
  /\ UNCHANGED <<blobs, multi, parts, session, expired, urls, told, faults>>

Put(i, d) == PutObject(i, d, "put")
StoreValue(i, d) == PutObject(i, d, "value")

\* Put's insert is a transaction of its own, after which the URI is returned or,
\* if another has the digest, the object removed. The answer may be lost.
PutInsert(i) ==
  /\ use[i] = "put" /\ tx[i] = "checked" /\ Pending(of[i]) = {}
  /\ blobs' = IF blobs[of[i]] = None THEN [blobs EXCEPT ![of[i]] = i] ELSE blobs
  /\ \/ /\ blobs[of[i]] # None
        /\ tx' = [tx EXCEPT ![i] = "drop"]
        /\ UNCHANGED <<told, faults>>
     \/ /\ blobs[of[i]] = None
        /\ tx' = [tx EXCEPT ![i] = "none"] /\ told' = told \cup {of[i]}
        /\ NoFault
     \/ /\ Fault
        /\ tx' = [tx EXCEPT ![i] = "none"] /\ UNCHANGED told
  /\ UNCHANGED <<store, session, ids>>

-----------------------------------------------------------------------------
(* A failed call or statement, a canceled request, a crash: the transaction *)
(* is rolled back and what was done to the object store remains.           *)
Rollback(i) ==
  /\ tx[i] # "none" /\ Fault
  /\ tx' = [tx EXCEPT ![i] = "none"]
  /\ UNCHANGED <<blobs, store, session, ids, told>>

Handler(i) ==
  \/ CreateBlobUpload(i) \/ CompleteMultipart(i) \/ Stat(i)
  \/ InsertBlobIfAbsent(i) \/ PutInsert(i) \/ Commit(i) \/ Drop(i)
  \/ Empty(i) \/ DeleteBlobUpload(i)

Next ==
  \/ \E d \in Digest : Exists(d)
  \/ \E i \in Id, d \in Digest :
       CreateUpload(i, d) \/ Put(i, d) \/ StoreValue(i, d)
  \/ \E i \in Id :
       \/ CreateFails(i) \/ PresignPart(i) \/ PutSingle(i)
       \/ \E b \in Bytes : UploadPart(i, b)
       \/ Lock(i) \/ LockToAbort(i) \/ Handler(i) \/ Rollback(i) \/ Expire(i)

Spec == Init /\ [][Next]_vars

(* Requests are served, time passes, the sweep runs at its interval and the *)
(* lock of a row is granted in the order in which it was asked for.        *)
FairSpec ==
  /\ Spec
  /\ \A i \in Id : /\ WF_vars(Handler(i)) /\ WF_vars(Expire(i))
                   /\ SF_vars(Sweep(i))

-----------------------------------------------------------------------------
(* Properties *)

\* The blobs refine ContentStore: the object of a published digest is never lost,
\* replaced or one that was not checked, whatever is completed, aborted, swept and
\* stored around it, and a URI is only given out for a published digest.
\* (CompleteUpload, abortSession, Put, storeValue)
Stored(d) == IF blobs[d] = None THEN None
             ELSE IF object[blobs[d]] = None THEN "lost" ELSE object[blobs[d]]
Abstract == INSTANCE ContentStore WITH
  content <- [d \in Digest |-> Stored(d)], told <- told, Unverified <- Large
KeepsContent == Abstract!Spec

\* Nothing is left behind in the object store but by a fault, and a fault leaves
\* at most one object or one multipart upload. (The duplicate of a log value is
\* excepted: storeValue does not remove it.)
Owned(i) == session[i] \in {"creating", "open"} \/ tx[i] # "none" \/ \E d \in Digest : blobs[d] = i
LeftBehind == {i \in Id : /\ ~Owned(i) /\ use[i] # "value"
                          /\ object[i] # None \/ multi[i] = "open"}
FewLeftBehind == Cardinality(LeftBehind) <= faults

\* Every session ends: it is completed, aborted or swept once it has expired, also
\* while clients keep asking to complete it. (CleanupExpiredUploads, RunCleanup)
SessionsEnd == \A i \in Id : session[i] = "open" ~> session[i] = "gone"
=============================================================================
