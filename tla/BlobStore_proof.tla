---------------------------- MODULE BlobStore_proof ----------------------------
(***************************************************************************)
(* The blob store keeps what it published: BlobStore implements            *)
(* ContentStore, for any digests, object keys and number of faults. And it *)
(* leaves nothing behind but by a fault.                                   *)
(***************************************************************************)
EXTENDS BlobStore, FiniteSetTheorems, TLAPS

-----------------------------------------------------------------------------
(* The inductive invariant *)

\* The object of an id was checked against its digest.
Good(i) == object[i] \in IF of[i] \in Large THEN {"right", "wrong"} ELSE {"right"}

\* A published object is the digest's own and nobody works on it any more.
PublishedInv ==
  \A d \in Digest : blobs[d] # None =>
    /\ of[blobs[d]] = d /\ Good(blobs[d])
    /\ use[blobs[d]] # "none" /\ tx[blobs[d]] = "none"
    /\ session[blobs[d]] \in {"none", "gone"}

\* An id is drawn once, and only an upload has a session.
IdInv ==
  \A i \in Id :
    /\ use[i] = "none" => tx[i] = "none" /\ session[i] = "none"
    /\ use[i] # "none" => of[i] \in Digest
    /\ use[i] \in {"put", "value"} => session[i] = "none"

\* What an operation knows of the object and of the row at each of its steps.
TxInv ==
  \A i \in Id :
    /\ tx[i] \in {"complete", "stat", "abort", "emptied"} => session[i] = "open"
    /\ tx[i] \in {"checked", "inserted"} => Good(i)
    /\ tx[i] = "inserted" => blobs[of[i]] = None
    /\ tx[i] \in {"duplicate", "drop"} => blobs[of[i]] # None

\* One uncommitted row per digest: the unique index.
IndexInv ==
  \A i, j \in Id : tx[i] = "inserted" /\ tx[j] = "inserted" /\ of[i] = of[j] => i = j

ToldInv == \A d \in told : blobs[d] # None

IInv == TypeOK /\ PublishedInv /\ IdInv /\ TxInv /\ IndexInv /\ ToldInv

-----------------------------------------------------------------------------
(* Each conjunct is kept by each action *)

\* Every step of BlobStore keeps the types of its variables.
LEMMA Types ==
  ASSUME IInv, [Next]_vars PROVE TypeOK'
<1> USE BlobAssumption DEF IInv, TypeOK, IdInv, None, Bytes
<1>1. CASE UNCHANGED vars
  BY <1>1 DEF vars
<1>2. ASSUME NEW d \in Digest, Exists(d) PROVE TypeOK'
  BY <1>2 DEF Exists, store, ids
<1>3. ASSUME NEW i \in Id, NEW d \in Digest, CreateUpload(i, d) PROVE TypeOK'
  BY <1>3 DEF CreateUpload
<1>4. ASSUME NEW i \in Id, NEW d \in Digest, NEW u \in {"put", "value"}, PutObject(i, d, u)
      PROVE TypeOK'
  BY <1>4 DEF PutObject
<1>5. ASSUME NEW i \in Id, CreateFails(i) PROVE TypeOK'
  BY <1>5 DEF CreateFails, Fault, ids
<1>6. ASSUME NEW i \in Id, PresignPart(i) PROVE TypeOK'
  BY <1>6 DEF PresignPart, store
<1>7. ASSUME NEW i \in Id, PutSingle(i) PROVE TypeOK'
  BY <1>7 DEF PutSingle, Fault, NoFault, ids
<1>8. ASSUME NEW i \in Id, NEW b \in Bytes, UploadPart(i, b) PROVE TypeOK'
  BY <1>8 DEF UploadPart, ids
<1>9. ASSUME NEW i \in Id, Lock(i) PROVE TypeOK'
  BY <1>9 DEF Lock, Lockable, store, ids
<1>10. ASSUME NEW i \in Id, LockToAbort(i) PROVE TypeOK'
  BY <1>10 DEF LockToAbort, Lockable, store, ids
<1>11. ASSUME NEW i \in Id, Rollback(i) PROVE TypeOK'
  BY <1>11 DEF Rollback, Fault, store, ids
<1>12. ASSUME NEW i \in Id, Expire(i) PROVE TypeOK'
  BY <1>12 DEF Expire, store
<1>13. ASSUME NEW i \in Id, CreateBlobUpload(i) PROVE TypeOK'
  BY <1>13 DEF CreateBlobUpload, store, ids
<1>14. ASSUME NEW i \in Id, CompleteMultipart(i) PROVE TypeOK'
  BY <1>14 DEF CompleteMultipart, Fault, NoFault, store, ids
<1>15. ASSUME NEW i \in Id, Stat(i) PROVE TypeOK'
  BY <1>15 DEF Stat, Accepted, store, ids
<1>16. ASSUME NEW i \in Id, InsertBlobIfAbsent(i) PROVE TypeOK'
  BY <1>16 DEF InsertBlobIfAbsent, Pending, store, ids
<1>17. ASSUME NEW i \in Id, PutInsert(i) PROVE TypeOK'
  BY <1>17 DEF PutInsert, Pending, Fault, NoFault, store, ids
<1>18. ASSUME NEW i \in Id, Commit(i) PROVE TypeOK'
  BY <1>18 DEF Commit, Published, Closed, Fault, NoFault, store
<1>19. ASSUME NEW i \in Id, Drop(i) PROVE TypeOK'
  BY <1>19 DEF Drop, Fault, NoFault, ids
<1>20. ASSUME NEW i \in Id, Empty(i) PROVE TypeOK'
  BY <1>20 DEF Empty, Fault, NoFault, ids
<1>21. ASSUME NEW i \in Id, DeleteBlobUpload(i) PROVE TypeOK'
  BY <1>21 DEF DeleteBlobUpload, store
<1> QED
  BY <1>1, <1>2, <1>3, <1>4, <1>5, <1>6, <1>7, <1>8, <1>9, <1>10,
     <1>11, <1>12, <1>13, <1>14, <1>15, <1>16, <1>17, <1>18, <1>19, <1>20, <1>21 DEF Next, Handler, Put, StoreValue

\* No step touches the object or the session of a published id: its keepers have left.
LEMMA Published_inv ==
  ASSUME IInv, [Next]_vars PROVE PublishedInv'
<1> USE BlobAssumption DEF IInv, TypeOK, PublishedInv, IdInv, TxInv, Good, None
<1>1. CASE UNCHANGED vars
  BY <1>1 DEF vars
<1>2. ASSUME NEW d \in Digest, Exists(d) PROVE PublishedInv'
  BY <1>2 DEF Exists, store, ids
<1>3. ASSUME NEW i \in Id, NEW d \in Digest, CreateUpload(i, d) PROVE PublishedInv'
  BY <1>3 DEF CreateUpload
<1>4. ASSUME NEW i \in Id, NEW d \in Digest, NEW u \in {"put", "value"}, PutObject(i, d, u)
      PROVE PublishedInv'
  BY <1>4 DEF PutObject
<1>5. ASSUME NEW i \in Id, CreateFails(i) PROVE PublishedInv'
  BY <1>5 DEF CreateFails, Fault, ids
<1>6. ASSUME NEW i \in Id, PresignPart(i) PROVE PublishedInv'
  BY <1>6 DEF PresignPart, store
<1>7. ASSUME NEW i \in Id, PutSingle(i) PROVE PublishedInv'
  BY <1>7 DEF PutSingle, Fault, NoFault, ids
<1>8. ASSUME NEW i \in Id, NEW b \in Bytes, UploadPart(i, b) PROVE PublishedInv'
  BY <1>8 DEF UploadPart, ids
<1>9. ASSUME NEW i \in Id, Lock(i) PROVE PublishedInv'
  BY <1>9 DEF Lock, Lockable, store, ids
<1>10. ASSUME NEW i \in Id, LockToAbort(i) PROVE PublishedInv'
  BY <1>10 DEF LockToAbort, Lockable, store, ids
<1>11. ASSUME NEW i \in Id, Rollback(i) PROVE PublishedInv'
  BY <1>11 DEF Rollback, Fault, store, ids
<1>12. ASSUME NEW i \in Id, Expire(i) PROVE PublishedInv'
  BY <1>12 DEF Expire, store
<1>13. ASSUME NEW i \in Id, CreateBlobUpload(i) PROVE PublishedInv'
  BY <1>13 DEF CreateBlobUpload, store, ids
<1>14. ASSUME NEW i \in Id, CompleteMultipart(i) PROVE PublishedInv'
  BY <1>14 DEF CompleteMultipart, Fault, NoFault, store, ids
<1>15. ASSUME NEW i \in Id, Stat(i) PROVE PublishedInv'
  BY <1>15 DEF Stat, Accepted, store, ids
<1>16. ASSUME NEW i \in Id, InsertBlobIfAbsent(i) PROVE PublishedInv'
  BY <1>16 DEF InsertBlobIfAbsent, Pending, store, ids
<1>17. ASSUME NEW i \in Id, PutInsert(i) PROVE PublishedInv'
  BY <1>17 DEF PutInsert, Pending, Fault, NoFault, store, ids
<1>18. ASSUME NEW i \in Id, Commit(i) PROVE PublishedInv'
  BY <1>18 DEF Commit, Published, Closed, Fault, NoFault, store
<1>19. ASSUME NEW i \in Id, Drop(i) PROVE PublishedInv'
  BY <1>19 DEF Drop, Fault, NoFault, ids
<1>20. ASSUME NEW i \in Id, Empty(i) PROVE PublishedInv'
  BY <1>20 DEF Empty, Fault, NoFault, ids
<1>21. ASSUME NEW i \in Id, DeleteBlobUpload(i) PROVE PublishedInv'
  BY <1>21 DEF DeleteBlobUpload, store
<1> QED
  BY <1>1, <1>2, <1>3, <1>4, <1>5, <1>6, <1>7, <1>8, <1>9, <1>10,
     <1>11, <1>12, <1>13, <1>14, <1>15, <1>16, <1>17, <1>18, <1>19, <1>20, <1>21 DEF Next, Handler, Put, StoreValue

\* An id is drawn once and its session belongs to an upload.
LEMMA Id_inv ==
  ASSUME IInv, [Next]_vars PROVE IdInv'
<1> USE BlobAssumption DEF IInv, TypeOK, IdInv, TxInv, None
<1>1. CASE UNCHANGED vars
  BY <1>1 DEF vars
<1>2. ASSUME NEW d \in Digest, Exists(d) PROVE IdInv'
  BY <1>2 DEF Exists, store, ids
<1>3. ASSUME NEW i \in Id, NEW d \in Digest, CreateUpload(i, d) PROVE IdInv'
  BY <1>3 DEF CreateUpload
<1>4. ASSUME NEW i \in Id, NEW d \in Digest, NEW u \in {"put", "value"}, PutObject(i, d, u)
      PROVE IdInv'
  BY <1>4 DEF PutObject
<1>5. ASSUME NEW i \in Id, CreateFails(i) PROVE IdInv'
  BY <1>5 DEF CreateFails, Fault, ids
<1>6. ASSUME NEW i \in Id, PresignPart(i) PROVE IdInv'
  BY <1>6 DEF PresignPart, store
<1>7. ASSUME NEW i \in Id, PutSingle(i) PROVE IdInv'
  BY <1>7 DEF PutSingle, Fault, NoFault, ids
<1>8. ASSUME NEW i \in Id, NEW b \in Bytes, UploadPart(i, b) PROVE IdInv'
  BY <1>8 DEF UploadPart, ids
<1>9. ASSUME NEW i \in Id, Lock(i) PROVE IdInv'
  BY <1>9 DEF Lock, Lockable, store, ids
<1>10. ASSUME NEW i \in Id, LockToAbort(i) PROVE IdInv'
  BY <1>10 DEF LockToAbort, Lockable, store, ids
<1>11. ASSUME NEW i \in Id, Rollback(i) PROVE IdInv'
  BY <1>11 DEF Rollback, Fault, store, ids
<1>12. ASSUME NEW i \in Id, Expire(i) PROVE IdInv'
  BY <1>12 DEF Expire, store
<1>13. ASSUME NEW i \in Id, CreateBlobUpload(i) PROVE IdInv'
  BY <1>13 DEF CreateBlobUpload, store, ids
<1>14. ASSUME NEW i \in Id, CompleteMultipart(i) PROVE IdInv'
  BY <1>14 DEF CompleteMultipart, Fault, NoFault, store, ids
<1>15. ASSUME NEW i \in Id, Stat(i) PROVE IdInv'
  BY <1>15 DEF Stat, Accepted, store, ids
<1>16. ASSUME NEW i \in Id, InsertBlobIfAbsent(i) PROVE IdInv'
  BY <1>16 DEF InsertBlobIfAbsent, Pending, store, ids
<1>17. ASSUME NEW i \in Id, PutInsert(i) PROVE IdInv'
  BY <1>17 DEF PutInsert, Pending, Fault, NoFault, store, ids
<1>18. ASSUME NEW i \in Id, Commit(i) PROVE IdInv'
  BY <1>18 DEF Commit, Published, Closed, Fault, NoFault, store
<1>19. ASSUME NEW i \in Id, Drop(i) PROVE IdInv'
  BY <1>19 DEF Drop, Fault, NoFault, ids
<1>20. ASSUME NEW i \in Id, Empty(i) PROVE IdInv'
  BY <1>20 DEF Empty, Fault, NoFault, ids
<1>21. ASSUME NEW i \in Id, DeleteBlobUpload(i) PROVE IdInv'
  BY <1>21 DEF DeleteBlobUpload, store
<1> QED
  BY <1>1, <1>2, <1>3, <1>4, <1>5, <1>6, <1>7, <1>8, <1>9, <1>10,
     <1>11, <1>12, <1>13, <1>14, <1>15, <1>16, <1>17, <1>18, <1>19, <1>20, <1>21 DEF Next, Handler, Put, StoreValue

\* What an operation learned stays true until it uses it.
LEMMA Tx_inv ==
  ASSUME IInv, [Next]_vars PROVE TxInv'
<1> USE BlobAssumption DEF IInv, TypeOK, PublishedInv, IdInv, TxInv, IndexInv, Good, None
<1>1. CASE UNCHANGED vars
  BY <1>1 DEF vars
<1>2. ASSUME NEW d \in Digest, Exists(d) PROVE TxInv'
  BY <1>2 DEF Exists, store, ids
<1>3. ASSUME NEW i \in Id, NEW d \in Digest, CreateUpload(i, d) PROVE TxInv'
  BY <1>3 DEF CreateUpload
<1>4. ASSUME NEW i \in Id, NEW d \in Digest, NEW u \in {"put", "value"}, PutObject(i, d, u)
      PROVE TxInv'
  BY <1>4 DEF PutObject
<1>5. ASSUME NEW i \in Id, CreateFails(i) PROVE TxInv'
  BY <1>5 DEF CreateFails, Fault, ids
<1>6. ASSUME NEW i \in Id, PresignPart(i) PROVE TxInv'
  BY <1>6 DEF PresignPart, store
<1>7. ASSUME NEW i \in Id, PutSingle(i) PROVE TxInv'
  BY <1>7 DEF PutSingle, Fault, NoFault, ids
<1>8. ASSUME NEW i \in Id, NEW b \in Bytes, UploadPart(i, b) PROVE TxInv'
  BY <1>8 DEF UploadPart, ids
<1>9. ASSUME NEW i \in Id, Lock(i) PROVE TxInv'
  BY <1>9 DEF Lock, Lockable, store, ids
<1>10. ASSUME NEW i \in Id, LockToAbort(i) PROVE TxInv'
  BY <1>10 DEF LockToAbort, Lockable, store, ids
<1>11. ASSUME NEW i \in Id, Rollback(i) PROVE TxInv'
  BY <1>11 DEF Rollback, Fault, store, ids
<1>12. ASSUME NEW i \in Id, Expire(i) PROVE TxInv'
  BY <1>12 DEF Expire, store
<1>13. ASSUME NEW i \in Id, CreateBlobUpload(i) PROVE TxInv'
  BY <1>13 DEF CreateBlobUpload, store, ids
<1>14. ASSUME NEW i \in Id, CompleteMultipart(i) PROVE TxInv'
  BY <1>14 DEF CompleteMultipart, Fault, NoFault, store, ids
<1>15. ASSUME NEW i \in Id, Stat(i) PROVE TxInv'
  BY <1>15 DEF Stat, Accepted, store, ids
<1>16. ASSUME NEW i \in Id, InsertBlobIfAbsent(i) PROVE TxInv'
  BY <1>16 DEF InsertBlobIfAbsent, Pending, store, ids
<1>17. ASSUME NEW i \in Id, PutInsert(i) PROVE TxInv'
  BY <1>17 DEF PutInsert, Pending, Fault, NoFault, store, ids
<1>18. ASSUME NEW i \in Id, Commit(i) PROVE TxInv'
  BY <1>18 DEF Commit, Published, Closed, Fault, NoFault, store
<1>19. ASSUME NEW i \in Id, Drop(i) PROVE TxInv'
  BY <1>19 DEF Drop, Fault, NoFault, ids
<1>20. ASSUME NEW i \in Id, Empty(i) PROVE TxInv'
  BY <1>20 DEF Empty, Fault, NoFault, ids
<1>21. ASSUME NEW i \in Id, DeleteBlobUpload(i) PROVE TxInv'
  BY <1>21 DEF DeleteBlobUpload, store
<1> QED
  BY <1>1, <1>2, <1>3, <1>4, <1>5, <1>6, <1>7, <1>8, <1>9, <1>10,
     <1>11, <1>12, <1>13, <1>14, <1>15, <1>16, <1>17, <1>18, <1>19, <1>20, <1>21 DEF Next, Handler, Put, StoreValue

\* Two transactions never have the same digest inserted.
LEMMA Index_inv ==
  ASSUME IInv, [Next]_vars PROVE IndexInv'
<1> USE BlobAssumption DEF IInv, TypeOK, IdInv, IndexInv, None
<1>1. CASE UNCHANGED vars
  BY <1>1 DEF vars
<1>2. ASSUME NEW d \in Digest, Exists(d) PROVE IndexInv'
  BY <1>2 DEF Exists, store, ids
<1>3. ASSUME NEW i \in Id, NEW d \in Digest, CreateUpload(i, d) PROVE IndexInv'
  BY <1>3 DEF CreateUpload
<1>4. ASSUME NEW i \in Id, NEW d \in Digest, NEW u \in {"put", "value"}, PutObject(i, d, u)
      PROVE IndexInv'
  BY <1>4 DEF PutObject
<1>5. ASSUME NEW i \in Id, CreateFails(i) PROVE IndexInv'
  BY <1>5 DEF CreateFails, Fault, ids
<1>6. ASSUME NEW i \in Id, PresignPart(i) PROVE IndexInv'
  BY <1>6 DEF PresignPart, store
<1>7. ASSUME NEW i \in Id, PutSingle(i) PROVE IndexInv'
  BY <1>7 DEF PutSingle, Fault, NoFault, ids
<1>8. ASSUME NEW i \in Id, NEW b \in Bytes, UploadPart(i, b) PROVE IndexInv'
  BY <1>8 DEF UploadPart, ids
<1>9. ASSUME NEW i \in Id, Lock(i) PROVE IndexInv'
  BY <1>9 DEF Lock, Lockable, store, ids
<1>10. ASSUME NEW i \in Id, LockToAbort(i) PROVE IndexInv'
  BY <1>10 DEF LockToAbort, Lockable, store, ids
<1>11. ASSUME NEW i \in Id, Rollback(i) PROVE IndexInv'
  BY <1>11 DEF Rollback, Fault, store, ids
<1>12. ASSUME NEW i \in Id, Expire(i) PROVE IndexInv'
  BY <1>12 DEF Expire, store
<1>13. ASSUME NEW i \in Id, CreateBlobUpload(i) PROVE IndexInv'
  BY <1>13 DEF CreateBlobUpload, store, ids
<1>14. ASSUME NEW i \in Id, CompleteMultipart(i) PROVE IndexInv'
  BY <1>14 DEF CompleteMultipart, Fault, NoFault, store, ids
<1>15. ASSUME NEW i \in Id, Stat(i) PROVE IndexInv'
  BY <1>15 DEF Stat, Accepted, store, ids
<1>16. ASSUME NEW i \in Id, InsertBlobIfAbsent(i) PROVE IndexInv'
  BY <1>16 DEF InsertBlobIfAbsent, Pending, store, ids
<1>17. ASSUME NEW i \in Id, PutInsert(i) PROVE IndexInv'
  BY <1>17 DEF PutInsert, Pending, Fault, NoFault, store, ids
<1>18. ASSUME NEW i \in Id, Commit(i) PROVE IndexInv'
  BY <1>18 DEF Commit, Published, Closed, Fault, NoFault, store
<1>19. ASSUME NEW i \in Id, Drop(i) PROVE IndexInv'
  BY <1>19 DEF Drop, Fault, NoFault, ids
<1>20. ASSUME NEW i \in Id, Empty(i) PROVE IndexInv'
  BY <1>20 DEF Empty, Fault, NoFault, ids
<1>21. ASSUME NEW i \in Id, DeleteBlobUpload(i) PROVE IndexInv'
  BY <1>21 DEF DeleteBlobUpload, store
<1> QED
  BY <1>1, <1>2, <1>3, <1>4, <1>5, <1>6, <1>7, <1>8, <1>9, <1>10,
     <1>11, <1>12, <1>13, <1>14, <1>15, <1>16, <1>17, <1>18, <1>19, <1>20, <1>21 DEF Next, Handler, Put, StoreValue

\* A URI that was given out names a published digest.
LEMMA Told_inv ==
  ASSUME IInv, [Next]_vars PROVE ToldInv'
<1> USE BlobAssumption DEF IInv, TypeOK, IdInv, TxInv, ToldInv, None
<1>1. CASE UNCHANGED vars
  BY <1>1 DEF vars
<1>2. ASSUME NEW d \in Digest, Exists(d) PROVE ToldInv'
  BY <1>2 DEF Exists, store, ids
<1>3. ASSUME NEW i \in Id, NEW d \in Digest, CreateUpload(i, d) PROVE ToldInv'
  BY <1>3 DEF CreateUpload
<1>4. ASSUME NEW i \in Id, NEW d \in Digest, NEW u \in {"put", "value"}, PutObject(i, d, u)
      PROVE ToldInv'
  BY <1>4 DEF PutObject
<1>5. ASSUME NEW i \in Id, CreateFails(i) PROVE ToldInv'
  BY <1>5 DEF CreateFails, Fault, ids
<1>6. ASSUME NEW i \in Id, PresignPart(i) PROVE ToldInv'
  BY <1>6 DEF PresignPart, store
<1>7. ASSUME NEW i \in Id, PutSingle(i) PROVE ToldInv'
  BY <1>7 DEF PutSingle, Fault, NoFault, ids
<1>8. ASSUME NEW i \in Id, NEW b \in Bytes, UploadPart(i, b) PROVE ToldInv'
  BY <1>8 DEF UploadPart, ids
<1>9. ASSUME NEW i \in Id, Lock(i) PROVE ToldInv'
  BY <1>9 DEF Lock, Lockable, store, ids
<1>10. ASSUME NEW i \in Id, LockToAbort(i) PROVE ToldInv'
  BY <1>10 DEF LockToAbort, Lockable, store, ids
<1>11. ASSUME NEW i \in Id, Rollback(i) PROVE ToldInv'
  BY <1>11 DEF Rollback, Fault, store, ids
<1>12. ASSUME NEW i \in Id, Expire(i) PROVE ToldInv'
  BY <1>12 DEF Expire, store
<1>13. ASSUME NEW i \in Id, CreateBlobUpload(i) PROVE ToldInv'
  BY <1>13 DEF CreateBlobUpload, store, ids
<1>14. ASSUME NEW i \in Id, CompleteMultipart(i) PROVE ToldInv'
  BY <1>14 DEF CompleteMultipart, Fault, NoFault, store, ids
<1>15. ASSUME NEW i \in Id, Stat(i) PROVE ToldInv'
  BY <1>15 DEF Stat, Accepted, store, ids
<1>16. ASSUME NEW i \in Id, InsertBlobIfAbsent(i) PROVE ToldInv'
  BY <1>16 DEF InsertBlobIfAbsent, Pending, store, ids
<1>17. ASSUME NEW i \in Id, PutInsert(i) PROVE ToldInv'
  BY <1>17 DEF PutInsert, Pending, Fault, NoFault, store, ids
<1>18. ASSUME NEW i \in Id, Commit(i) PROVE ToldInv'
  BY <1>18 DEF Commit, Published, Closed, Fault, NoFault, store
<1>19. ASSUME NEW i \in Id, Drop(i) PROVE ToldInv'
  BY <1>19 DEF Drop, Fault, NoFault, ids
<1>20. ASSUME NEW i \in Id, Empty(i) PROVE ToldInv'
  BY <1>20 DEF Empty, Fault, NoFault, ids
<1>21. ASSUME NEW i \in Id, DeleteBlobUpload(i) PROVE ToldInv'
  BY <1>21 DEF DeleteBlobUpload, store
<1> QED
  BY <1>1, <1>2, <1>3, <1>4, <1>5, <1>6, <1>7, <1>8, <1>9, <1>10,
     <1>11, <1>12, <1>13, <1>14, <1>15, <1>16, <1>17, <1>18, <1>19, <1>20, <1>21 DEF Next, Handler, Put, StoreValue

-----------------------------------------------------------------------------
(* The invariant and the refinement *)

\* The inductive invariant of the blob store: who works on an id and what was
\* checked of it. (internal/blob)
THEOREM Inductive == Spec => []IInv
<1>1. Init => IInv
  BY BlobAssumption DEF Init, IInv, TypeOK, PublishedInv, IdInv, TxInv, IndexInv, ToldInv, Good,
                        None, Bytes
<1>2. ASSUME IInv, [Next]_vars PROVE IInv'
  BY <1>2, Types, Published_inv, Id_inv, Tx_inv, Index_inv, Told_inv DEF IInv
<1> QED
  BY <1>1, <1>2, PTL DEF Spec

\* Every variable of the blob store keeps its type.
THEOREM BlobTypes == Spec => []TypeOK
<1>1. IInv => TypeOK
  BY DEF IInv
<1> QED
  BY <1>1, Inductive, PTL

\* The content of the digests, as a function of the state.
Contents == [d \in Digest |-> Stored(d)]

\* Steps that publish nothing and give out no URI change no published object.
Silent == Contents' = Contents /\ told' = told

\* Steps that only give out a URI.
Tells == \E d \in Digest : Contents' = Contents /\ blobs[d] # None /\ told' = told \cup {d}

\* Steps that publish the object of an id under its digest.
Publishes ==
  \E d \in Digest : \E c \in Abstract!Content(d) :
    /\ blobs[d] = None /\ Contents' = [Contents EXCEPT ![d] = c]
    /\ told' \in {told, told \cup {d}}

\* A step does one of the three: the object of a published digest is out of reach of
\* every operation. (CompleteUpload, abortSession, Put, storeValue)
LEMMA Effects ==
  ASSUME IInv, [Next]_vars PROVE Silent \/ Tells \/ Publishes
<1> USE BlobAssumption DEF IInv, TypeOK, PublishedInv, IdInv, TxInv, None
<1>1. CASE UNCHANGED vars
  BY <1>1 DEF vars, Silent, Contents, Stored
<1>2. ASSUME NEW i \in Id, NEW d \in Digest, CreateUpload(i, d) PROVE Silent
  BY <1>2 DEF CreateUpload, Silent, Contents, Stored
<1>3. ASSUME NEW i \in Id, NEW d \in Digest, NEW u \in {"put", "value"}, PutObject(i, d, u)
      PROVE Silent
  BY <1>3 DEF PutObject, Silent, Contents, Stored
<1>4. ASSUME NEW i \in Id, CreateFails(i) PROVE Silent
  BY <1>4 DEF CreateFails, Fault, ids, Silent, Contents, Stored
<1>5. ASSUME NEW i \in Id, PresignPart(i) PROVE Silent
  BY <1>5 DEF PresignPart, store, Silent, Contents, Stored
<1>6. ASSUME NEW i \in Id, PutSingle(i) PROVE Silent
  <2>1. \A d \in Digest : blobs[d] # i
    BY <1>6 DEF PutSingle, Good
  <2>2. \A d \in Digest : Stored(d)' = Stored(d)
    BY <1>6, <2>1 DEF PutSingle, Stored
  <2> QED
    BY <1>6, <2>2 DEF PutSingle, Silent, Contents
<1>7. ASSUME NEW i \in Id, NEW b \in Bytes, UploadPart(i, b) PROVE Silent
  BY <1>7 DEF UploadPart, ids, Silent, Contents, Stored
<1>8. ASSUME NEW i \in Id, Lock(i) PROVE Silent
  BY <1>8 DEF Lock, Lockable, store, ids, Silent, Contents, Stored
<1>9. ASSUME NEW i \in Id, LockToAbort(i) PROVE Silent
  BY <1>9 DEF LockToAbort, Lockable, store, ids, Silent, Contents, Stored
<1>10. ASSUME NEW i \in Id, Rollback(i) PROVE Silent
  BY <1>10 DEF Rollback, Fault, store, ids, Silent, Contents, Stored
<1>11. ASSUME NEW i \in Id, Expire(i) PROVE Silent
  BY <1>11 DEF Expire, store, Silent, Contents, Stored
<1>12. ASSUME NEW i \in Id, CreateBlobUpload(i) PROVE Silent
  BY <1>12 DEF CreateBlobUpload, store, ids, Silent, Contents, Stored
<1>13. ASSUME NEW i \in Id, CompleteMultipart(i) PROVE Silent
  BY <1>13 DEF CompleteMultipart, Fault, NoFault, store, ids, Silent, Contents, Stored
<1>14. ASSUME NEW i \in Id, Stat(i) PROVE Silent
  BY <1>14 DEF Stat, Accepted, store, ids, Silent, Contents, Stored
<1>15. ASSUME NEW i \in Id, InsertBlobIfAbsent(i) PROVE Silent
  BY <1>15 DEF InsertBlobIfAbsent, Pending, store, ids, Silent, Contents, Stored
<1>16. ASSUME NEW i \in Id, Empty(i) PROVE Silent
  BY <1>16 DEF Empty, Fault, NoFault, ids, Silent, Contents, Stored
<1>17. ASSUME NEW i \in Id, DeleteBlobUpload(i) PROVE Silent
  BY <1>17 DEF DeleteBlobUpload, store, Silent, Contents, Stored
<1>18. ASSUME NEW d \in Digest, Exists(d) PROVE Tells
  BY <1>18 DEF Exists, store, Tells, Contents, Stored
<1>19. ASSUME NEW i \in Id, Drop(i) PROVE Tells
  <2>1. of[i] \in Digest /\ blobs[of[i]] # None
    BY <1>19 DEF Drop
  <2>2. Contents' = Contents /\ told' = told \cup {of[i]}
    BY <1>19 DEF Drop, Contents, Stored
  <2> QED
    BY <2>1, <2>2 DEF Tells
<1>20. ASSUME NEW i \in Id, PutInsert(i) PROVE Silent \/ Publishes
  <2>1. CASE blobs[of[i]] # None
    BY <1>20, <2>1 DEF PutInsert, store, Silent, Contents, Stored
  <2>2. CASE blobs[of[i]] = None
    <3>1. of[i] \in Digest /\ object[i] \in Abstract!Content(of[i])
      BY <1>20 DEF PutInsert, Good, Abstract!Content
    <3>2. object[i] # None
      BY <1>20 DEF PutInsert, Good
    <3>3. Contents' = [Contents EXCEPT ![of[i]] = object[i]]
      <4>1. blobs' = [blobs EXCEPT ![of[i]] = i] /\ object' = object
        BY <1>20, <2>2 DEF PutInsert, store
      <4>2. Contents' = [d \in Digest |-> IF d = of[i] THEN object[i] ELSE Stored(d)]
        BY <4>1, <3>1, <3>2 DEF Contents, Stored
      <4>3. Contents = [d \in Digest |-> Stored(d)]
        BY DEF Contents
      <4> QED
        BY <4>2, <4>3, <3>1
    <3>4. told' \in {told, told \cup {of[i]}}
      BY <1>20 DEF PutInsert
    <3> QED
      BY <2>2, <3>1, <3>3, <3>4 DEF Publishes
  <2> QED
    BY <2>1, <2>2
<1>21. ASSUME NEW i \in Id, Commit(i) PROVE Silent \/ Tells \/ Publishes
  <2>1. CASE tx[i] = "duplicate"
    <3>1. Contents' = Contents
      BY <1>21, <2>1 DEF Commit, Published, store, Contents, Stored
    <3>2. of[i] \in Digest /\ blobs[of[i]] # None
      BY <1>21, <2>1 DEF Commit
    <3>3. told' = told \/ told' = told \cup {of[i]}
      BY <1>21 DEF Commit
    <3> QED
      BY <3>1, <3>2, <3>3 DEF Silent, Tells
  <2>2. CASE tx[i] = "inserted"
    <3>1. of[i] \in Digest /\ blobs[of[i]] = None /\ object[i] \in Abstract!Content(of[i])
      BY <1>21, <2>2 DEF Commit, Good, Abstract!Content
    <3>2. object[i] # None
      BY <1>21, <2>2 DEF Commit, Good
    <3>3. Contents' = [Contents EXCEPT ![of[i]] = object[i]]
      <4>1. blobs' = [blobs EXCEPT ![of[i]] = i] /\ object' = object
        BY <1>21, <2>2 DEF Commit, Published, store
      <4>2. Contents' = [d \in Digest |-> IF d = of[i] THEN object[i] ELSE Stored(d)]
        BY <4>1, <3>1, <3>2 DEF Contents, Stored
      <4>3. Contents = [d \in Digest |-> Stored(d)]
        BY DEF Contents
      <4> QED
        BY <4>2, <4>3, <3>1
    <3>4. told' \in {told, told \cup {of[i]}}
      BY <1>21 DEF Commit
    <3> QED
      BY <3>1, <3>3, <3>4 DEF Publishes
  <2> QED
    BY <1>21, <2>1, <2>2 DEF Commit
<1> QED
  BY <1>1, <1>2, <1>3, <1>4, <1>5, <1>6, <1>7, <1>8, <1>9, <1>10,
     <1>11, <1>12, <1>13, <1>14, <1>15, <1>16, <1>17, <1>18, <1>19, <1>20, <1>21 DEF Next, Handler, Put, StoreValue

\* A step of the blob store is a step of the content store or none.
LEMMA Implements ==
  ASSUME IInv, [Next]_vars PROVE [Abstract!Next]_<<Contents, told>>
<1>1. CASE Silent
  BY <1>1 DEF Silent
<1>2. CASE Tells
  <2>1. PICK d \in Digest : Contents' = Contents /\ blobs[d] # None /\ told' = told \cup {d}
    BY <1>2 DEF Tells
  <2>2. Contents[d] # Abstract!None
    BY <2>1 DEF Contents, Stored, IInv, PublishedInv, Good, None, Abstract!None
  <2>3. Abstract!Tell(d)
    BY <2>1, <2>2 DEF Abstract!Tell, Contents
  <2> QED
    BY <2>3 DEF Abstract!Next
<1>3. CASE Publishes
  <2>1. PICK d \in Digest : \E c \in Abstract!Content(d) :
          /\ blobs[d] = None /\ Contents' = [Contents EXCEPT ![d] = c]
          /\ told' \in {told, told \cup {d}}
    BY <1>3 DEF Publishes
  <2>4. PICK c \in Abstract!Content(d) :
          Contents' = [Contents EXCEPT ![d] = c] /\ told' \in {told, told \cup {d}}
    BY <2>1
  <2>2. Contents[d] = Abstract!None
    BY <2>1 DEF Contents, Stored, None, Abstract!None
  <2>3. Abstract!Publish(d, c)
    BY <2>4, <2>2 DEF Abstract!Publish, Contents
  <2> QED
    BY <2>3 DEF Abstract!Next
<1> QED
  BY <1>1, <1>2, <1>3, Effects

\* The blob store implements the abstract content store: a digest is published once,
\* with content that was checked, what is published stays, and a URI is given out only
\* for what is published, for any number of ids and faults. (internal/blob)
THEOREM Keeps == Spec => KeepsContent
<1>1. Init => Abstract!Init
  BY DEF Init, Abstract!Init, Stored, None, Abstract!None
<1>2. ASSUME IInv, [Next]_vars PROVE [Abstract!Next]_<<Contents, told>>
  BY <1>2, Implements
<1> QED
  BY <1>1, <1>2, Inductive, PTL DEF Spec, KeepsContent, Abstract!Spec, Contents

-----------------------------------------------------------------------------
(* What is left behind in the object store *)

\* A key that was not drawn has no object, and a multipart upload is under way only for
\* an object that is not there yet, before anything was checked of it.
PartsInv ==
  \A i \in Id :
    /\ use[i] = "none" => object[i] = None /\ multi[i] = "none" /\ i \notin urls
    /\ multi[i] = "open" => /\ object[i] = None /\ use[i] = "upload" /\ of[i] \in Large
                            /\ tx[i] \notin {"checked", "inserted", "duplicate", "drop"}

\* What is left behind or, its removal having failed, will be when the session's row is
\* deleted.
Left(i) ==
  /\ ~Owned(i) \/ tx[i] = "emptied"
  /\ use[i] # "value" /\ (object[i] # None \/ multi[i] = "open")
Behind == {i \in Id : Left(i)}

\* A step leaves something behind at the id it is about at most, and only as a fault.
Tidy(i) ==
  /\ \A j \in Id \ {i} : Left(j)' => Left(j)
  /\ faults' = faults + 1 \/ (faults' = faults /\ (Left(i)' => Left(i)))

\* No multipart upload of an object that was checked is still under way.
LEMMA Parts_inv ==
  ASSUME IInv, PartsInv, [Next]_vars PROVE PartsInv'
<1> USE BlobAssumption DEF IInv, TypeOK, IdInv, TxInv, Good, PartsInv, None
<1>1. CASE UNCHANGED vars
  BY <1>1 DEF vars
<1>2. ASSUME NEW d \in Digest, Exists(d) PROVE PartsInv'
  BY <1>2 DEF Exists, store, ids
<1>3. ASSUME NEW i \in Id, NEW d \in Digest, CreateUpload(i, d) PROVE PartsInv'
  BY <1>3 DEF CreateUpload
<1>4. ASSUME NEW i \in Id, NEW d \in Digest, NEW u \in {"put", "value"}, PutObject(i, d, u)
      PROVE PartsInv'
  BY <1>4 DEF PutObject
<1>5. ASSUME NEW i \in Id, CreateFails(i) PROVE PartsInv'
  BY <1>5 DEF CreateFails, Fault, ids
<1>6. ASSUME NEW i \in Id, PresignPart(i) PROVE PartsInv'
  BY <1>6 DEF PresignPart, store
<1>7. ASSUME NEW i \in Id, PutSingle(i) PROVE PartsInv'
  BY <1>7 DEF PutSingle, Late, Fault, NoFault, ids
<1>8. ASSUME NEW i \in Id, NEW b \in Bytes, UploadPart(i, b) PROVE PartsInv'
  BY <1>8 DEF UploadPart, ids
<1>9. ASSUME NEW i \in Id, Lock(i) PROVE PartsInv'
  BY <1>9 DEF Lock, Lockable, store, ids
<1>10. ASSUME NEW i \in Id, LockToAbort(i) PROVE PartsInv'
  BY <1>10 DEF LockToAbort, Lockable, store, ids
<1>11. ASSUME NEW i \in Id, Rollback(i) PROVE PartsInv'
  BY <1>11 DEF Rollback, Fault, store, ids
<1>12. ASSUME NEW i \in Id, Expire(i) PROVE PartsInv'
  BY <1>12 DEF Expire, store
<1>13. ASSUME NEW i \in Id, CreateBlobUpload(i) PROVE PartsInv'
  BY <1>13 DEF CreateBlobUpload, store, ids
<1>14. ASSUME NEW i \in Id, CompleteMultipart(i) PROVE PartsInv'
  BY <1>14 DEF CompleteMultipart, Fault, NoFault, store, ids
<1>15. ASSUME NEW i \in Id, Stat(i) PROVE PartsInv'
  BY <1>15 DEF Stat, Accepted, store, ids
<1>16. ASSUME NEW i \in Id, InsertBlobIfAbsent(i) PROVE PartsInv'
  BY <1>16 DEF InsertBlobIfAbsent, Pending, store, ids
<1>17. ASSUME NEW i \in Id, PutInsert(i) PROVE PartsInv'
  BY <1>17 DEF PutInsert, Pending, Fault, NoFault, store, ids
<1>18. ASSUME NEW i \in Id, Commit(i) PROVE PartsInv'
  BY <1>18 DEF Commit, Published, Closed, Fault, NoFault, store
<1>19. ASSUME NEW i \in Id, Drop(i) PROVE PartsInv'
  BY <1>19 DEF Drop, Fault, NoFault, ids
<1>20. ASSUME NEW i \in Id, Empty(i) PROVE PartsInv'
  BY <1>20 DEF Empty, Fault, NoFault, ids
<1>21. ASSUME NEW i \in Id, DeleteBlobUpload(i) PROVE PartsInv'
  BY <1>21 DEF DeleteBlobUpload, store
<1> QED
  BY <1>1, <1>2, <1>3, <1>4, <1>5, <1>6, <1>7, <1>8, <1>9, <1>10,
     <1>11, <1>12, <1>13, <1>14, <1>15, <1>16, <1>17, <1>18, <1>19, <1>20, <1>21 DEF Next, Handler, Put, StoreValue

\* Every step is tidy: what it gives up it has removed, or a fault kept it from that.
LEMMA Tidies ==
  ASSUME IInv, PartsInv, [Next]_vars
  PROVE  (Behind' \subseteq Behind /\ faults' = faults) \/ \E i \in Id : Tidy(i)
<1> USE BlobAssumption DEF IInv, TypeOK, PublishedInv, IdInv, TxInv, PartsInv, Good, None
<1>1. CASE UNCHANGED vars
  BY <1>1 DEF vars, Tidy, Left, Owned, Behind
<1>2. ASSUME NEW d \in Digest, Exists(d) PROVE Behind' \subseteq Behind /\ faults' = faults
  BY <1>2 DEF Exists, store, ids, Tidy, Left, Owned, Behind
<1>3. ASSUME NEW i \in Id, NEW d \in Digest, CreateUpload(i, d) PROVE Tidy(i)
  BY <1>3 DEF CreateUpload, Tidy, Left, Owned, Behind
<1>4. ASSUME NEW i \in Id, NEW d \in Digest, NEW u \in {"put", "value"}, PutObject(i, d, u)
      PROVE Tidy(i)
  BY <1>4 DEF PutObject, Tidy, Left, Owned, Behind
<1>5. ASSUME NEW i \in Id, CreateFails(i) PROVE Tidy(i)
  BY <1>5 DEF CreateFails, Fault, ids, Tidy, Left, Owned, Behind
<1>6. ASSUME NEW i \in Id, PresignPart(i) PROVE Tidy(i)
  BY <1>6 DEF PresignPart, store, Tidy, Left, Owned, Behind
<1>7. ASSUME NEW i \in Id, PutSingle(i) PROVE Tidy(i)
  BY <1>7 DEF PutSingle, Late, Fault, NoFault, ids, Tidy, Left, Owned, Behind
<1>8. ASSUME NEW i \in Id, NEW b \in Bytes, UploadPart(i, b) PROVE Tidy(i)
  BY <1>8 DEF UploadPart, ids, Tidy, Left, Owned, Behind
<1>9. ASSUME NEW i \in Id, Lock(i) PROVE Tidy(i)
  BY <1>9 DEF Lock, Lockable, store, ids, Tidy, Left, Owned, Behind
<1>10. ASSUME NEW i \in Id, LockToAbort(i) PROVE Tidy(i)
  BY <1>10 DEF LockToAbort, Lockable, store, ids, Tidy, Left, Owned, Behind
<1>11. ASSUME NEW i \in Id, Rollback(i) PROVE Tidy(i)
  BY <1>11 DEF Rollback, Fault, store, ids, Tidy, Left, Owned, Behind
<1>12. ASSUME NEW i \in Id, Expire(i) PROVE Tidy(i)
  BY <1>12 DEF Expire, store, Tidy, Left, Owned, Behind
<1>13. ASSUME NEW i \in Id, CreateBlobUpload(i) PROVE Tidy(i)
  BY <1>13 DEF CreateBlobUpload, store, ids, Tidy, Left, Owned, Behind
<1>14. ASSUME NEW i \in Id, CompleteMultipart(i) PROVE Tidy(i)
  BY <1>14 DEF CompleteMultipart, Fault, NoFault, store, ids, Tidy, Left, Owned, Behind
<1>15. ASSUME NEW i \in Id, Stat(i) PROVE Tidy(i)
  BY <1>15 DEF Stat, Accepted, store, ids, Tidy, Left, Owned, Behind
<1>16. ASSUME NEW i \in Id, InsertBlobIfAbsent(i) PROVE Tidy(i)
  BY <1>16 DEF InsertBlobIfAbsent, Pending, store, ids, Tidy, Left, Owned, Behind
<1>17. ASSUME NEW i \in Id, PutInsert(i) PROVE Tidy(i)
  BY <1>17 DEF PutInsert, Pending, Fault, NoFault, store, ids, Tidy, Left, Owned, Behind
<1>18. ASSUME NEW i \in Id, Commit(i) PROVE Tidy(i)
  BY <1>18 DEF Commit, Published, Closed, Fault, NoFault, store, Tidy, Left, Owned, Behind
<1>19. ASSUME NEW i \in Id, Drop(i) PROVE Tidy(i)
  BY <1>19 DEF Drop, Fault, NoFault, ids, Tidy, Left, Owned, Behind
<1>20. ASSUME NEW i \in Id, Empty(i) PROVE Tidy(i)
  BY <1>20 DEF Empty, Fault, NoFault, ids, Tidy, Left, Owned, Behind
<1>21. ASSUME NEW i \in Id, DeleteBlobUpload(i) PROVE Tidy(i)
  BY <1>21 DEF DeleteBlobUpload, store, Tidy, Left, Owned, Behind
<1> QED
  BY <1>1, <1>2, <1>3, <1>4, <1>5, <1>6, <1>7, <1>8, <1>9, <1>10,
     <1>11, <1>12, <1>13, <1>14, <1>15, <1>16, <1>17, <1>18, <1>19, <1>20, <1>21 DEF Next, Handler, Put, StoreValue

\* Nothing is left behind in the object store but by a fault, and a fault leaves at most
\* one object or multipart upload, for any number of ids and faults. (CreateUpload,
\* CompleteUpload, abortSession, Put)
THEOREM LeavesLittle == Spec => []FewLeftBehind
<1> DEFINE Few == IsFiniteSet(Behind) /\ Cardinality(Behind) <= faults
<1>1. Init => PartsInv /\ Few
  <2> SUFFICES ASSUME Init PROVE PartsInv /\ Few OBVIOUS
  <2>1. PartsInv BY DEF Init, PartsInv, None
  <2>2. Behind = {} BY DEF Init, Behind, Left, None
  <2> QED BY <2>1, <2>2, FS_EmptySet DEF Init
<1>2. ASSUME IInv, PartsInv, Few, [Next]_vars PROVE PartsInv' /\ Few'
  <2>1. PartsInv' BY <1>2, Parts_inv
  <2>2. faults \in Nat BY <1>2 DEF IInv, TypeOK
  <2>3. IsFiniteSet(Behind') BY BlobAssumption, FS_Subset DEF Behind
  <2>4. CASE Behind' \subseteq Behind /\ faults' = faults
    <3>1. Cardinality(Behind') <= Cardinality(Behind) BY <1>2, <2>4, FS_Subset
    <3> QED BY <1>2, <2>1, <2>2, <2>3, <2>4, <3>1, FS_CardinalityType
  <2>5. ASSUME NEW i \in Id, Tidy(i) PROVE Few'
    <3>1. CASE faults' = faults + 1
      <4>1. Behind' \subseteq Behind \cup {i} BY <2>5 DEF Tidy, Behind
      <4>2. IsFiniteSet(Behind \cup {i}) /\ Cardinality(Behind \cup {i}) <= Cardinality(Behind) + 1
        BY <1>2, FS_AddElement, FS_CardinalityType
      <4>3. Cardinality(Behind') <= Cardinality(Behind \cup {i}) BY <4>1, <4>2, FS_Subset
      <4> QED BY <1>2, <2>2, <2>3, <3>1, <4>2, <4>3, FS_CardinalityType
    <3>2. CASE faults' = faults /\ (Left(i)' => Left(i))
      <4>1. Behind' \subseteq Behind BY <2>5, <3>2 DEF Tidy, Behind
      <4>2. Cardinality(Behind') <= Cardinality(Behind) BY <1>2, <4>1, FS_Subset
      <4> QED BY <1>2, <2>2, <2>3, <3>2, <4>2, FS_CardinalityType
    <3> QED BY <2>5, <3>1, <3>2 DEF Tidy
  <2> QED BY <1>2, <2>1, <2>4, <2>5, Tidies
<1>3. IInv /\ Few => FewLeftBehind
  <2> SUFFICES ASSUME IInv, Few PROVE FewLeftBehind OBVIOUS
  <2>1. LeftBehind \subseteq Behind BY DEF LeftBehind, Behind, Left
  <2>2. Cardinality(LeftBehind) <= Cardinality(Behind) BY <2>1, FS_Subset
  <2>3. IsFiniteSet(LeftBehind) BY <2>1, FS_Subset
  <2>4. faults \in Nat BY DEF IInv, TypeOK
  <2> QED BY <2>2, <2>3, <2>4, FS_CardinalityType DEF FewLeftBehind
<1> QED BY <1>1, <1>2, <1>3, Inductive, PTL DEF Spec
=============================================================================
