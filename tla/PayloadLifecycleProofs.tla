----------------------- MODULE PayloadLifecycleProofs -----------------------
(***************************************************************************)
(* Proofs about PayloadLifecycle, for any number of goroutines, stores,    *)
(* reference owners and chunks, and any largest token.                     *)
(*                                                                         *)
(* The argument rests on the fencing token.  A token is given to one       *)
(* reservation and names its GridFS file; only resumeUpload hands it to a  *)
(* second goroutine.  A collector erases a file only under a token larger  *)
(* than the file's, which it got by a claim, and a claim takes the payload *)
(* away from the upload.  So as long as the document carries the token of  *)
(* the upload, its file has one writer and no eraser.                      *)
(***************************************************************************)
EXTENDS PayloadLifecycle, TLAPS

----------------------------------------------------------------------------
(* The inductive invariant                                                 *)

\* Caller c writes the bytes reserved under token t.
Uploader(c, t) == pc[c] \in Uploading /\ doc[c].token = t

\* Exactly the caller with an open transaction holds the document's lock.
LockInv == \A c \in Callers : pc[c] \in InTransaction <=> lock = c

\* The file of an upload is named by its token, the one of a claimed payload by
\* an earlier token.
DocumentInv ==
  /\ payload.state \in {"uploading", "ready"} =>
       payload.file = (IF Inline THEN NoFile ELSE payload.token)
  /\ payload.state \in {"uploading", "ready", "deleting"} => payload.token # 0
  /\ payload.state \in {"deleting", "deleted"} => payload.file < payload.token

\* What a caller remembers of the document is at most as new as the document.
RememberedInv ==
  \A c \in Callers :
    /\ pc[c] = "reserve" =>
         doc[c].state \in {"absent", "deleted"} /\ doc[c].token < MaxToken
    /\ pc[c] \in Uploading =>
         /\ doc[c].token # 0 /\ doc[c].token <= payload.token
         /\ doc[c].file = (IF Inline THEN NoFile ELSE doc[c].token)
         /\ Inline => pc[c] = "mark"
    /\ pc[c] \in Deleting => doc[c].file < doc[c].token /\ doc[c].token <= payload.token
    /\ pc[c] \in {"erase", "eraseChunks"} => doc[c].file # NoFile

\* A claim in progress: it has seen the document it is about to change, and no
\* reference to it.
ClaimInv ==
  \A c \in Callers :
    /\ pc[c] \in {"claim", "count", "claimCommit"} =>
         doc[c].state \in {"uploading", "ready"} /\ doc[c].token < MaxToken
    /\ pc[c] \in {"count", "claimCommit"} =>
         payload.state = doc[c].state /\ payload.token = doc[c].token
    /\ pc[c] = "claimCommit" => refs = {}

\* Readers hold their own reference, and a transaction on a reference has a ready
\* payload under its lock.
ReferenceInv ==
  \A c \in Callers :
    /\ pc[c] \in {"pin", "unpin"} => payload.state = "ready" /\ holder[c] \in Holders \cup {c}
    /\ pc[c] \in {"copyRead", "copy"} => c \in refs
    /\ pc[c] = "copy" => doc[c].file = payload.file /\ payload.file # NoFile

\* A token that nobody resumed has one uploader, and none once its payload is
\* ready or claimed.
UploaderInv ==
  \A c \in Callers : \A t \in (0..MaxToken) \ resumed :
    Uploader(c, t) =>
      /\ \A d \in Callers : Uploader(d, t) => d = c
      /\ payload.token = t => payload.state = "uploading"

\* How far the bytes of the current upload are.
Progress(c) ==
  LET f == doc[c].file
  IN  /\ pc[c] \in {"remove", "removeChunks"} => sent[c] = 0
      /\ pc[c] \in {"removeChunks", "upload"} => files[f] = "none"
      /\ pc[c] = "upload" => chunks[f] = 1..sent[c]
      /\ pc[c] = "publishBlob" => files[f] = "staged" /\ chunks[f] = Chunks
      /\ pc[c] = "mark" => Content(f)

ProgressInv ==
  \A c \in Callers :
    Uploader(c, payload.token) /\ payload.token \notin resumed /\ ~Inline => Progress(c)

\* A stream that has not begun has sent nothing.
SentInv == \A c \in Callers : pc[c] \notin {"upload", "publishBlob", "mark"} => sent[c] = 0

IInv ==
  /\ TypeOK /\ LockInv /\ DocumentInv /\ RememberedInv /\ ClaimInv /\ ReferenceInv
  /\ UploaderInv /\ ProgressInv /\ SentInv /\ ReadyHasContent /\ PinnedIsReady

----------------------------------------------------------------------------
(* Every step preserves it                                                 *)

\* The conjuncts of TypeOK about the database and about the callers.
SharedTypes ==
  /\ payload \in Payload
  /\ files \in [Files -> {"none", "staged", "published"}]
  /\ chunks \in [Files -> SUBSET Chunks]
  /\ refs \subseteq Holders \cup Callers
  /\ lock \in Callers \cup {Nobody}
  /\ resumed \subseteq 0..MaxToken

CallerTypes ==
  /\ pc \in [Callers -> Labels]
  /\ doc \in [Callers -> Payload]
  /\ sent \in [Callers -> 0..NumChunks]
  /\ holder \in [Callers -> Holders \cup Callers \cup {Nobody}]

\* A call that returns leaves its variables with their initial values.
LEMMA ReturnTypes ==
  ASSUME CallerTypes, NEW c \in Callers, Return(c)
  PROVE  CallerTypes'
<1>1. pc' \in [Callers -> Labels]
  BY DEF Return, Goto, CallerTypes, Labels
<1>2. doc' \in [Callers -> Payload]
  BY PayloadConstants DEF Return, CallerTypes, Payload, NoPayload, NoFile
<1>3. /\ sent' \in [Callers -> 0..NumChunks]
      /\ holder' \in [Callers -> Holders \cup Callers \cup {Nobody}]
  BY PayloadConstants DEF Return, CallerTypes
<1> QED BY <1>1, <1>2, <1>3 DEF CallerTypes

\* A caller that holds a reservation goes on with a document of the right type.
LEMMA ReservedTypes ==
  ASSUME CallerTypes, NEW c \in Callers, NEW d \in Payload, Reserved(c, d)
  PROVE  CallerTypes' /\ payload' \in Payload
<1>1. pc' \in [Callers -> Labels]
  BY DEF Reserved, Goto, CallerTypes, Labels, Uploading
<1> QED BY <1>1 DEF Reserved, CallerTypes

\* The token of a reservation or of a claim stays within the largest one.
LEMMA NewDocuments ==
  ASSUME NEW s \in Stores, NEW t \in 0..MaxToken, t < MaxToken
  PROVE  /\ inserted(s, t + 1) \in Payload
         /\ \A p \in Payload : [p EXCEPT !.state = "deleting", !.owner = s,
                                        !.token = t + 1, !.lease = TRUE] \in Payload
<1>1. t + 1 \in 0..MaxToken
  BY PayloadConstants
<1>2. inserted(s, t + 1) \in Payload
  BY <1>1, PayloadConstants DEF inserted, Payload, NoFile
<1>3. ASSUME NEW p \in Payload
      PROVE  [p EXCEPT !.state = "deleting", !.owner = s, !.token = t + 1, !.lease = TRUE] \in Payload
  BY <1>1 DEF Payload
<1> QED BY <1>2, <1>3

\* The chunks of a stream are the numbers up to the last one sent.
LEMMA NextChunk ==
  ASSUME NEW n \in Nat
  PROVE  (1..n) \cup {n + 1} = 1..(n + 1)
OBVIOUS

\* Every variable keeps its type.
LEMMA TypeOKStep ==
  ASSUME IInv, [Next]_vars
  PROVE  TypeOK'
<1>a. TypeOK <=> SharedTypes /\ CallerTypes
  BY DEF TypeOK, SharedTypes, CallerTypes
<1>b. TypeOK' <=> SharedTypes' /\ CallerTypes'
  BY DEF TypeOK, SharedTypes, CallerTypes
<1> SUFFICES SharedTypes' /\ CallerTypes'
  BY <1>b
<1> USE PayloadConstants, <1>a DEF IInv
<1>1. ASSUME NEW c \in Callers, Publish(c) PROVE SharedTypes' /\ CallerTypes'
  <2>1. CASE insertUploadingPayload(c)
    <3>1. CASE Return(c) /\ UNCHANGED payload
      BY <2>1, <3>1, ReturnTypes DEF insertUploadingPayload, SharedTypes
    <3>2. CASE Reserved(c, inserted(StoreOf[c], doc[c].token + 1))
      <4>1. doc[c].token \in 0..MaxToken /\ doc[c].token < MaxToken /\ StoreOf[c] \in Stores
        BY <2>1 DEF insertUploadingPayload, RememberedInv, CallerTypes, Payload
      <4> QED BY <2>1, <3>2, <4>1, NewDocuments, ReservedTypes DEF insertUploadingPayload, SharedTypes
    <3> QED BY <2>1, <3>1, <3>2 DEF insertUploadingPayload
  <2>2. CASE resumeUpload(c)
    <3>1. CASE Return(c) /\ UNCHANGED <<payload, resumed>>
      BY <2>2, <3>1, ReturnTypes DEF resumeUpload, SharedTypes
    <3>2. CASE /\ Reserved(c, [payload EXCEPT !.lease = TRUE])
               /\ resumed' = resumed \cup {payload.token}
      <4>1. [payload EXCEPT !.lease = TRUE] \in Payload /\ payload.token \in 0..MaxToken
        BY DEF SharedTypes, Payload
      <4> QED BY <2>2, <3>2, <4>1, ReservedTypes DEF resumeUpload, SharedTypes
    <3> QED BY <2>2, <3>1, <3>2 DEF resumeUpload
  <2>3. CASE UploadChunk(c)
    <3>1. sent[c] + 1 \in Chunks /\ sent[c] + 1 \in 0..NumChunks
      BY <2>3 DEF UploadChunk, CallerTypes, Chunks
    <3> QED BY <2>3, <3>1 DEF UploadChunk, SharedTypes, CallerTypes
  <2>4. CASE reservePayload(c)
    <3>1. SharedTypes'
      BY <2>4 DEF reservePayload, SharedTypes, CallerTypes, Payload, Goto
    <3>2. CallerTypes'
      BY <2>4, ReturnTypes DEF reservePayload, SharedTypes, CallerTypes, Goto, Labels,
               Uploading, Deleting, InTransaction
    <3> QED BY <3>1, <3>2
  <2>5. CASE RemoveFile(c, "remove", "removeChunks") \/ RemoveChunks(c, "removeChunks", "upload") \/ RemoveFileFails(c, "remove")
    <3>1. SharedTypes'
      BY <2>5 DEF RemoveFile, RemoveFileFails, RemoveChunks, SharedTypes, CallerTypes, Payload,
               Goto
    <3>2. CallerTypes'
      BY <2>5, ReturnTypes DEF RemoveFile, RemoveFileFails, RemoveChunks, SharedTypes,
               CallerTypes, Goto, Labels, Uploading, Deleting, InTransaction
    <3> QED BY <3>1, <3>2
  <2>6. CASE CloseUpload(c) \/ UploadFails(c)
    <3>1. SharedTypes'
      BY <2>6 DEF CloseUpload, UploadFails, SharedTypes, CallerTypes, Payload, Goto
    <3>2. CallerTypes'
      BY <2>6, ReturnTypes DEF CloseUpload, UploadFails, SharedTypes, CallerTypes, Goto, Labels,
               Uploading, Deleting, InTransaction
    <3> QED BY <3>1, <3>2
  <2>7. CASE publish(c)
    <3>1. SharedTypes'
      BY <2>7 DEF publish, SharedTypes, CallerTypes, Payload, Goto
    <3>2. CallerTypes'
      BY <2>7, ReturnTypes DEF publish, SharedTypes, CallerTypes, Goto, Labels, Uploading,
               Deleting, InTransaction
    <3> QED BY <3>1, <3>2
  <2>8. CASE MarkReady(c)
    <3>1. SharedTypes'
      BY <2>8 DEF MarkReady, UploadOf, SharedTypes, CallerTypes, Payload, Goto
    <3>2. CallerTypes'
      BY <2>8, ReturnTypes DEF MarkReady, UploadOf, SharedTypes, CallerTypes, Goto, Labels,
               Uploading, Deleting, InTransaction
    <3> QED BY <3>1, <3>2
  <2> QED BY <1>1, <2>1, <2>2, <2>3, <2>4, <2>5, <2>6, <2>7, <2>8 DEF Publish
<1>2. ASSUME NEW c \in Callers, Refer(c) PROVE SharedTypes' /\ CallerTypes'
  <2>1. SharedTypes'
    BY <1>2 DEF Refer, PinPayload, touchReadyPayload, ReleasePayload, PinCommit, CopyPayload,
             copy, ReleaseCommit, SharedTypes, CallerTypes, Payload, Goto, ReferenceInv
  <2>2. CallerTypes'
    BY <1>2, ReturnTypes DEF Refer, PinPayload, touchReadyPayload, ReleasePayload, PinCommit,
             CopyPayload, copy, ReleaseCommit, SharedTypes, CallerTypes, Goto, Labels,
             Uploading, Deleting, InTransaction
  <2> QED BY <2>1, <2>2
<1>3. ASSUME NEW c \in Callers, Collect(c) PROVE SharedTypes' /\ CallerTypes'
  <2>1. CASE ClaimCommit(c)
    <3>1. doc[c].token \in 0..MaxToken /\ doc[c].token < MaxToken /\ StoreOf[c] \in Stores
      BY <2>1 DEF ClaimCommit, ClaimInv, CallerTypes, Payload
    <3>2. payload' \in Payload
      BY <2>1, <3>1, NewDocuments DEF ClaimCommit, SharedTypes
    <3> QED BY <2>1, <3>2 DEF ClaimCommit, Claimed, Goto, SharedTypes, CallerTypes, Labels, Deleting
  <2>2. CASE CollectPayload(c) \/ ClaimUpdate(c) \/ ClaimCount(c)
    <3>1. SharedTypes'
      BY <2>2 DEF CollectPayload, Claimed, ClaimUpdate, ClaimCount, SharedTypes, CallerTypes,
               Payload, Goto
    <3>2. CallerTypes'
      BY <2>2, ReturnTypes DEF CollectPayload, Claimed, ClaimUpdate, ClaimCount, SharedTypes,
               CallerTypes, Goto, Labels, Uploading, Deleting, InTransaction
    <3> QED BY <3>1, <3>2
  <2>3. CASE Erase(c)
    <3>1. SharedTypes'
      BY <2>3 DEF Erase, RemoveFile, RemoveFileFails, RemoveChunks, finishPayloadDeletion,
               SharedTypes, CallerTypes, Payload, Goto
    <3>2. CallerTypes'
      BY <2>3, ReturnTypes DEF Erase, RemoveFile, RemoveFileFails, RemoveChunks,
               finishPayloadDeletion, SharedTypes, CallerTypes, Goto, Labels, Uploading,
               Deleting, InTransaction
    <3> QED BY <3>1, <3>2
  <2> QED BY <1>3, <2>1, <2>2, <2>3 DEF Collect
<1>4. ASSUME NEW c \in Callers, Abandon(c) PROVE SharedTypes' /\ CallerTypes'
  <2>1. SharedTypes'
    BY <1>4 DEF Abandon, SharedTypes, CallerTypes, Payload, Goto
  <2>2. CallerTypes'
    BY <1>4, ReturnTypes DEF Abandon, SharedTypes, CallerTypes, Goto, Labels, Uploading,
             Deleting, InTransaction
  <2> QED BY <2>1, <2>2
<1>5. CASE ExpireLease
  BY <1>5 DEF ExpireLease, SharedTypes, CallerTypes, Payload
<1>6. CASE UNCHANGED vars
  BY <1>6 DEF vars, SharedTypes, CallerTypes
<1> QED BY <1>1, <1>2, <1>3, <1>4, <1>5, <1>6 DEF Next

\* The document's lock is taken by the first write of a transaction and given up when the
\* transaction ends, also by a caller that dies.
LEMMA LockInvStep ==
  ASSUME IInv, [Next]_vars
  PROVE  LockInv'
<1> USE PayloadConstants DEF IInv, TypeOK, LockInv, Unlocked, Goto, Return, Uploading, Deleting,
         InTransaction, NoFile, Uploader
<1>1. ASSUME NEW c \in Callers, Publish(c) PROVE LockInv'
  BY <1>1 DEF Publish, reservePayload, insertUploadingPayload, Reserved, inserted, resumeUpload,
           UploadOf, RemoveFile, RemoveFileFails, RemoveChunks, UploadChunk, CloseUpload,
           UploadFails, publish, MarkReady
<1>2. ASSUME NEW c \in Callers, Refer(c) PROVE LockInv'
  BY <1>2 DEF Refer, PinPayload, touchReadyPayload, ReleasePayload, PinCommit, CopyPayload,
           copy, ReleaseCommit
<1>3. ASSUME NEW c \in Callers, Collect(c) PROVE LockInv'
  BY <1>3 DEF Collect, Erase, CollectPayload, Claimed, ClaimUpdate, ClaimCount, ClaimCommit,
           RemoveFile, RemoveFileFails, RemoveChunks, finishPayloadDeletion
<1>4. ASSUME NEW c \in Callers, Abandon(c) PROVE LockInv'
  BY <1>4 DEF Abandon
<1>5. ASSUME ExpireLease PROVE LockInv'
  BY <1>5 DEF ExpireLease
<1>6. ASSUME UNCHANGED vars PROVE LockInv'
  BY <1>6 DEF vars
<1> QED BY <1>1, <1>2, <1>3, <1>4, <1>5, <1>6 DEF Next

\* Only a reservation gives a document a new file, under its own token; a claim raises
\* the token and keeps the file.
LEMMA DocumentInvStep ==
  ASSUME IInv, [Next]_vars
  PROVE  DocumentInv'
<1> USE PayloadConstants DEF IInv, TypeOK, LockInv, DocumentInv, RememberedInv, ClaimInv,
         Payload, Labels, NoPayload, Unlocked, Goto, Return, Uploading, Deleting, InTransaction,
         NoFile, Uploader
<1>1. ASSUME NEW c \in Callers, Publish(c) PROVE DocumentInv'
  <2>1. ASSUME reservePayload(c) PROVE DocumentInv'
    BY <2>1 DEF reservePayload
  <2>2. ASSUME insertUploadingPayload(c) PROVE DocumentInv'
    BY <2>2 DEF insertUploadingPayload, Reserved, inserted
  <2>3. ASSUME resumeUpload(c) PROVE DocumentInv'
    BY <2>3 DEF resumeUpload, Reserved, UploadOf
  <2>4. ASSUME RemoveFile(c, "remove", "removeChunks") PROVE DocumentInv'
    BY <2>4 DEF RemoveFile
  <2>5. ASSUME RemoveFileFails(c, "remove") PROVE DocumentInv'
    BY <2>5 DEF RemoveFileFails
  <2>6. ASSUME RemoveChunks(c, "removeChunks", "upload") PROVE DocumentInv'
    BY <2>6 DEF RemoveChunks
  <2>7. ASSUME UploadChunk(c) PROVE DocumentInv'
    BY <2>7 DEF UploadChunk
  <2>8. ASSUME CloseUpload(c) PROVE DocumentInv'
    BY <2>8 DEF CloseUpload
  <2>9. ASSUME UploadFails(c) PROVE DocumentInv'
    BY <2>9 DEF UploadFails
  <2>10. ASSUME publish(c) PROVE DocumentInv'
    BY <2>10 DEF publish
  <2>11. ASSUME MarkReady(c) PROVE DocumentInv'
    BY <2>11 DEF MarkReady, UploadOf
  <2> QED BY <1>1, <2>1, <2>2, <2>3, <2>4, <2>5, <2>6, <2>7, <2>8, <2>9, <2>10, <2>11 DEF Publish
<1>2. ASSUME NEW c \in Callers, Refer(c) PROVE DocumentInv'
  BY <1>2 DEF Refer, PinPayload, touchReadyPayload, ReleasePayload, PinCommit, CopyPayload,
           copy, ReleaseCommit
<1>3. ASSUME NEW c \in Callers, Collect(c) PROVE DocumentInv'
  <2>1. ASSUME CollectPayload(c) PROVE DocumentInv'
    BY <2>1 DEF CollectPayload, Claimed
  <2>2. ASSUME ClaimUpdate(c) PROVE DocumentInv'
    BY <2>2 DEF ClaimUpdate
  <2>3. ASSUME ClaimCount(c) PROVE DocumentInv'
    BY <2>3 DEF ClaimCount
  <2>4. ASSUME ClaimCommit(c) PROVE DocumentInv'
    BY <2>4 DEF ClaimCommit, Claimed
  <2>5. ASSUME RemoveFile(c, "erase", "eraseChunks") PROVE DocumentInv'
    BY <2>5 DEF RemoveFile
  <2>6. ASSUME RemoveFileFails(c, "erase") PROVE DocumentInv'
    BY <2>6 DEF RemoveFileFails
  <2>7. ASSUME RemoveChunks(c, "eraseChunks", "finish") PROVE DocumentInv'
    BY <2>7 DEF RemoveChunks
  <2>8. ASSUME finishPayloadDeletion(c) PROVE DocumentInv'
    BY <2>8 DEF finishPayloadDeletion
  <2> QED BY <1>3, <2>1, <2>2, <2>3, <2>4, <2>5, <2>6, <2>7, <2>8 DEF Collect, Erase
<1>4. ASSUME NEW c \in Callers, Abandon(c) PROVE DocumentInv'
  BY <1>4 DEF Abandon
<1>5. ASSUME ExpireLease PROVE DocumentInv'
  BY <1>5 DEF ExpireLease
<1>6. ASSUME UNCHANGED vars PROVE DocumentInv'
  BY <1>6 DEF vars
<1> QED BY <1>1, <1>2, <1>3, <1>4, <1>5, <1>6 DEF Next

\* What callers remember stays behind the document, whose token never falls.
LEMMA RememberedInvStep ==
  ASSUME IInv, [Next]_vars
  PROVE  RememberedInv'
<1> USE PayloadConstants DEF IInv, TypeOK, DocumentInv, RememberedInv, ClaimInv, Payload,
         Labels, NoPayload, Unlocked, Goto, Return, Uploading, Deleting, InTransaction, NoFile,
         Uploader
<1>1. ASSUME NEW c \in Callers, Publish(c) PROVE RememberedInv'
  <2>1. ASSUME reservePayload(c) PROVE RememberedInv'
    BY <2>1 DEF reservePayload
  <2>2. ASSUME insertUploadingPayload(c) PROVE RememberedInv'
    BY <2>2 DEF insertUploadingPayload, Reserved, inserted
  <2>3. ASSUME resumeUpload(c) PROVE RememberedInv'
    BY <2>3 DEF resumeUpload, Reserved, UploadOf
  <2>4. ASSUME RemoveFile(c, "remove", "removeChunks") PROVE RememberedInv'
    BY <2>4 DEF RemoveFile
  <2>5. ASSUME RemoveFileFails(c, "remove") PROVE RememberedInv'
    BY <2>5 DEF RemoveFileFails
  <2>6. ASSUME RemoveChunks(c, "removeChunks", "upload") PROVE RememberedInv'
    BY <2>6 DEF RemoveChunks
  <2>7. ASSUME UploadChunk(c) PROVE RememberedInv'
    BY <2>7 DEF UploadChunk
  <2>8. ASSUME CloseUpload(c) PROVE RememberedInv'
    BY <2>8 DEF CloseUpload
  <2>9. ASSUME UploadFails(c) PROVE RememberedInv'
    BY <2>9 DEF UploadFails
  <2>10. ASSUME publish(c) PROVE RememberedInv'
    BY <2>10 DEF publish
  <2>11. ASSUME MarkReady(c) PROVE RememberedInv'
    BY <2>11 DEF MarkReady, UploadOf
  <2> QED BY <1>1, <2>1, <2>2, <2>3, <2>4, <2>5, <2>6, <2>7, <2>8, <2>9, <2>10, <2>11 DEF Publish
<1>2. ASSUME NEW c \in Callers, Refer(c) PROVE RememberedInv'
  BY <1>2 DEF Refer, PinPayload, touchReadyPayload, ReleasePayload, PinCommit, CopyPayload,
           copy, ReleaseCommit
<1>3. ASSUME NEW c \in Callers, Collect(c) PROVE RememberedInv'
  <2>1. ASSUME CollectPayload(c) PROVE RememberedInv'
    BY <2>1 DEF CollectPayload, Claimed
  <2>2. ASSUME ClaimUpdate(c) PROVE RememberedInv'
    BY <2>2 DEF ClaimUpdate
  <2>3. ASSUME ClaimCount(c) PROVE RememberedInv'
    BY <2>3 DEF ClaimCount
  <2>4. ASSUME ClaimCommit(c) PROVE RememberedInv'
    BY <2>4 DEF ClaimCommit, Claimed
  <2>5. ASSUME RemoveFile(c, "erase", "eraseChunks") PROVE RememberedInv'
    BY <2>5 DEF RemoveFile
  <2>6. ASSUME RemoveFileFails(c, "erase") PROVE RememberedInv'
    BY <2>6 DEF RemoveFileFails
  <2>7. ASSUME RemoveChunks(c, "eraseChunks", "finish") PROVE RememberedInv'
    BY <2>7 DEF RemoveChunks
  <2>8. ASSUME finishPayloadDeletion(c) PROVE RememberedInv'
    BY <2>8 DEF finishPayloadDeletion
  <2> QED BY <1>3, <2>1, <2>2, <2>3, <2>4, <2>5, <2>6, <2>7, <2>8 DEF Collect, Erase
<1>4. ASSUME NEW c \in Callers, Abandon(c) PROVE RememberedInv'
  BY <1>4 DEF Abandon
<1>5. ASSUME ExpireLease PROVE RememberedInv'
  BY <1>5 DEF ExpireLease
<1>6. ASSUME UNCHANGED vars PROVE RememberedInv'
  BY <1>6 DEF vars
<1> QED BY <1>1, <1>2, <1>3, <1>4, <1>5, <1>6 DEF Next

\* A document under the lock of a claim does not change, and gets no reference.
LEMMA ClaimInvStep ==
  ASSUME IInv, [Next]_vars
  PROVE  ClaimInv'
<1> USE PayloadConstants DEF IInv, TypeOK, LockInv, ClaimInv, DocumentInv, Payload, Labels,
         NoPayload, Unlocked, Goto, Return, Uploading, Deleting, InTransaction, NoFile, Uploader
<1>1. ASSUME NEW c \in Callers, Publish(c) PROVE ClaimInv'
  BY <1>1 DEF Publish, reservePayload, insertUploadingPayload, Reserved, inserted, resumeUpload,
           UploadOf, RemoveFile, RemoveFileFails, RemoveChunks, UploadChunk, CloseUpload,
           UploadFails, publish, MarkReady
<1>2. ASSUME NEW c \in Callers, Refer(c) PROVE ClaimInv'
  BY <1>2 DEF Refer, PinPayload, touchReadyPayload, ReleasePayload, PinCommit, CopyPayload,
           copy, ReleaseCommit
<1>3. ASSUME NEW c \in Callers, Collect(c) PROVE ClaimInv'
  BY <1>3 DEF Collect, Erase, CollectPayload, Claimed, ClaimUpdate, ClaimCount, ClaimCommit,
           RemoveFile, RemoveFileFails, RemoveChunks, finishPayloadDeletion
<1>4. ASSUME NEW c \in Callers, Abandon(c) PROVE ClaimInv'
  BY <1>4 DEF Abandon
<1>5. ASSUME ExpireLease PROVE ClaimInv'
  BY <1>5 DEF ExpireLease
<1>6. ASSUME UNCHANGED vars PROVE ClaimInv'
  BY <1>6 DEF vars
<1> QED BY <1>1, <1>2, <1>3, <1>4, <1>5, <1>6 DEF Next

\* A read keeps its pin until its own release, and its payload with it.
LEMMA ReferenceInvStep ==
  ASSUME IInv, [Next]_vars
  PROVE  ReferenceInv'
<1> USE PayloadConstants DEF IInv, TypeOK, RememberedInv, LockInv, ReferenceInv, PinnedIsReady,
         ClaimInv, Payload, Labels, NoPayload, Unlocked, Goto, Return, Uploading, Deleting,
         InTransaction, NoFile, Uploader
<1>1. ASSUME NEW c \in Callers, Publish(c) PROVE ReferenceInv'
  BY <1>1 DEF Publish, reservePayload, insertUploadingPayload, Reserved, inserted, resumeUpload,
           UploadOf, RemoveFile, RemoveFileFails, RemoveChunks, UploadChunk, CloseUpload,
           UploadFails, publish, MarkReady
<1>2. ASSUME NEW c \in Callers, Refer(c) PROVE ReferenceInv'
  BY <1>2 DEF Refer, PinPayload, touchReadyPayload, ReleasePayload, PinCommit, CopyPayload,
           copy, ReleaseCommit
<1>3. ASSUME NEW c \in Callers, Collect(c) PROVE ReferenceInv'
  BY <1>3 DEF Collect, Erase, CollectPayload, Claimed, ClaimUpdate, ClaimCount, ClaimCommit,
           RemoveFile, RemoveFileFails, RemoveChunks, finishPayloadDeletion
<1>4. ASSUME NEW c \in Callers, Abandon(c) PROVE ReferenceInv'
  BY <1>4 DEF Abandon
<1>5. ASSUME ExpireLease PROVE ReferenceInv'
  BY <1>5 DEF ExpireLease
<1>6. ASSUME UNCHANGED vars PROVE ReferenceInv'
  BY <1>6 DEF vars
<1> QED BY <1>1, <1>2, <1>3, <1>4, <1>5, <1>6 DEF Next

\* A new token is larger than every token an uploader has: only a resumed upload has two
\* writers.
LEMMA UploaderInvStep ==
  ASSUME IInv, [Next]_vars
  PROVE  UploaderInv'
<1> USE PayloadConstants DEF IInv, TypeOK, UploaderInv, RememberedInv, ClaimInv, Payload,
         Labels, NoPayload, Unlocked, Goto, Return, Uploading, Deleting, InTransaction, NoFile,
         Uploader
<1>1. ASSUME NEW c \in Callers, Publish(c) PROVE UploaderInv'
  <2>1. ASSUME reservePayload(c) PROVE UploaderInv'
    BY <2>1 DEF reservePayload
  <2>2. ASSUME insertUploadingPayload(c) PROVE UploaderInv'
    <3>1. CASE payload' = payload /\ Return(c)
      BY <2>2, <3>1 DEF insertUploadingPayload
    <3>2. CASE /\ payload.token = doc[c].token
               /\ Reserved(c, inserted(StoreOf[c], doc[c].token + 1))
      BY <2>2, <3>2 DEF insertUploadingPayload, Reserved, inserted
    <3> QED BY <2>2, <3>1, <3>2 DEF insertUploadingPayload
  <2>3. ASSUME resumeUpload(c) PROVE UploaderInv'
    BY <2>3 DEF resumeUpload, Reserved, UploadOf
  <2>4. ASSUME RemoveFile(c, "remove", "removeChunks") PROVE UploaderInv'
    BY <2>4 DEF RemoveFile
  <2>5. ASSUME RemoveFileFails(c, "remove") PROVE UploaderInv'
    BY <2>5 DEF RemoveFileFails
  <2>6. ASSUME RemoveChunks(c, "removeChunks", "upload") PROVE UploaderInv'
    BY <2>6 DEF RemoveChunks
  <2>7. ASSUME UploadChunk(c) PROVE UploaderInv'
    BY <2>7 DEF UploadChunk
  <2>8. ASSUME CloseUpload(c) PROVE UploaderInv'
    BY <2>8 DEF CloseUpload
  <2>9. ASSUME UploadFails(c) PROVE UploaderInv'
    BY <2>9 DEF UploadFails
  <2>10. ASSUME publish(c) PROVE UploaderInv'
    <3>1. CASE Return(c)
      BY <2>10, <3>1 DEF publish
    <3>2. CASE Goto(c, "mark") /\ UNCHANGED doc
      BY <2>10, <3>2 DEF publish
    <3> QED BY <2>10, <3>1, <3>2 DEF publish
  <2>11. ASSUME MarkReady(c) PROVE UploaderInv'
    BY <2>11 DEF MarkReady, UploadOf
  <2> QED BY <1>1, <2>1, <2>2, <2>3, <2>4, <2>5, <2>6, <2>7, <2>8, <2>9, <2>10, <2>11 DEF Publish
<1>2. ASSUME NEW c \in Callers, Refer(c) PROVE UploaderInv'
  BY <1>2 DEF Refer, PinPayload, touchReadyPayload, ReleasePayload, PinCommit, CopyPayload,
           copy, ReleaseCommit
<1>3. ASSUME NEW c \in Callers, Collect(c) PROVE UploaderInv'
  <2>1. ASSUME CollectPayload(c) PROVE UploaderInv'
    <3>1. /\ UNCHANGED <<payload, resumed>>
          /\ pc'[c] \notin Uploading
          /\ \A d \in Callers \ {c} : pc'[d] = pc[d] /\ doc'[d] = doc[d]
      BY <2>1 DEF CollectPayload, Claimed
    <3> QED BY <3>1
  <2>2. ASSUME ClaimUpdate(c) PROVE UploaderInv'
    BY <2>2 DEF ClaimUpdate
  <2>3. ASSUME ClaimCount(c) PROVE UploaderInv'
    <3>1. CASE Return(c)
      BY <2>3, <3>1 DEF ClaimCount
    <3>2. CASE Goto(c, "claimCommit") /\ UNCHANGED doc
      BY <2>3, <3>2 DEF ClaimCount
    <3> QED BY <2>3, <3>1, <3>2 DEF ClaimCount
  <2>4. ASSUME ClaimCommit(c) PROVE UploaderInv'
    BY <2>4 DEF ClaimCommit, Claimed
  <2>5. ASSUME RemoveFile(c, "erase", "eraseChunks") PROVE UploaderInv'
    BY <2>5 DEF RemoveFile
  <2>6. ASSUME RemoveFileFails(c, "erase") PROVE UploaderInv'
    BY <2>6 DEF RemoveFileFails
  <2>7. ASSUME RemoveChunks(c, "eraseChunks", "finish") PROVE UploaderInv'
    BY <2>7 DEF RemoveChunks
  <2>8. ASSUME finishPayloadDeletion(c) PROVE UploaderInv'
    BY <2>8 DEF finishPayloadDeletion
  <2> QED BY <1>3, <2>1, <2>2, <2>3, <2>4, <2>5, <2>6, <2>7, <2>8 DEF Collect, Erase
<1>4. ASSUME NEW c \in Callers, Abandon(c) PROVE UploaderInv'
  BY <1>4 DEF Abandon
<1>5. ASSUME ExpireLease PROVE UploaderInv'
  BY <1>5 DEF ExpireLease
<1>6. ASSUME UNCHANGED vars PROVE UploaderInv'
  BY <1>6 DEF vars
<1> QED BY <1>1, <1>2, <1>3, <1>4, <1>5, <1>6 DEF Next

\* The bytes of the current upload are written by its one uploader and by nobody else.
LEMMA ProgressInvStep ==
  ASSUME IInv, [Next]_vars
  PROVE  ProgressInv'
<1> USE PayloadConstants DEF IInv, TypeOK, ClaimInv, SentInv, DocumentInv, RememberedInv,
         UploaderInv, ProgressInv, Progress, Content, Chunks, Files, Payload, Labels, NoPayload,
         Unlocked, Goto, Return, Uploading, Deleting, InTransaction, NoFile, Uploader
<1>1. ASSUME NEW c \in Callers, Publish(c) PROVE ProgressInv'
  <2>1. ASSUME reservePayload(c) PROVE ProgressInv'
    BY <2>1 DEF reservePayload
  <2>2. ASSUME insertUploadingPayload(c) PROVE ProgressInv'
    <3>1. CASE payload' = payload /\ Return(c)
      BY <2>2, <3>1 DEF insertUploadingPayload
    <3>2. CASE /\ payload.token = doc[c].token
               /\ Reserved(c, inserted(StoreOf[c], doc[c].token + 1))
      <4>1. \A d \in Callers \ {c} : ~Uploader(d, payload.token)'
        BY <2>2, <3>2 DEF insertUploadingPayload, Reserved, inserted
      <4>2. ~Inline => pc'[c] = "remove" /\ sent'[c] = 0
        BY <2>2, <3>2 DEF insertUploadingPayload, Reserved, inserted
      <4> QED BY <2>2, <4>1, <4>2
    <3> QED BY <2>2, <3>1, <3>2 DEF insertUploadingPayload
  <2>3. ASSUME resumeUpload(c) PROVE ProgressInv'
    <3>1. CASE Return(c) /\ UNCHANGED <<payload, resumed>>
      BY <2>3, <3>1 DEF resumeUpload
    <3>2. CASE payload'.token \in resumed'
      BY <3>2
    <3> QED BY <2>3, <3>1, <3>2 DEF resumeUpload, Reserved
  <2>4. ASSUME RemoveFile(c, "remove", "removeChunks") PROVE ProgressInv'
    BY <2>4 DEF RemoveFile
  <2>5. ASSUME RemoveFileFails(c, "remove") PROVE ProgressInv'
    BY <2>5 DEF RemoveFileFails
  <2>6. ASSUME RemoveChunks(c, "removeChunks", "upload") PROVE ProgressInv'
    BY <2>6 DEF RemoveChunks
  <2>7. ASSUME UploadChunk(c) PROVE ProgressInv'
    <3> SUFFICES ASSUME NEW d \in Callers, (Uploader(d, payload.token) /\ payload.token \notin resumed)',
                        ~Inline
                 PROVE  Progress(d)'
      OBVIOUS
    <3>1. Progress(d) /\ Uploader(d, payload.token)
      BY <2>7 DEF UploadChunk
    <3>2. CASE d = c
      <4>1. doc[c].file \in Files /\ chunks[doc[c].file] = 1..sent[c] /\ files[doc[c].file] = "none"
        BY <2>7, <3>1, <3>2 DEF UploadChunk
      <4>2. sent[c] \in Nat /\ sent'[c] = sent[c] + 1 /\ UNCHANGED <<pc, doc, files>>
        BY <2>7 DEF UploadChunk
      <4>3. chunks'[doc[c].file] = 1..sent'[c]
        <5>1. chunks'[doc[c].file] = (1..sent[c]) \cup {sent[c] + 1}
          BY <2>7, <4>1 DEF UploadChunk
        <5> QED BY <4>2, <5>1, NextChunk
      <4> QED BY <2>7, <3>2, <4>1, <4>2, <4>3 DEF UploadChunk
    <3>3. CASE d # c
      <4>1. doc[d].file # doc[c].file
        BY <2>7, <3>1, <3>3 DEF UploadChunk
      <4> QED BY <2>7, <3>1, <3>3, <4>1 DEF UploadChunk
    <3> QED BY <3>2, <3>3
  <2>8. ASSUME CloseUpload(c) PROVE ProgressInv'
    BY <2>8 DEF CloseUpload
  <2>9. ASSUME UploadFails(c) PROVE ProgressInv'
    BY <2>9 DEF UploadFails
  <2>10. ASSUME publish(c) PROVE ProgressInv'
    <3>1. CASE Return(c)
      BY <2>10, <3>1 DEF publish
    <3>2. CASE Goto(c, "mark") /\ UNCHANGED doc /\ files[doc[c].file] = "staged"
               /\ files' = [files EXCEPT ![doc[c].file] = "published"]
      BY <2>10, <3>2 DEF publish
    <3> QED BY <2>10, <3>1, <3>2 DEF publish
  <2>11. ASSUME MarkReady(c) PROVE ProgressInv'
    BY <2>11 DEF MarkReady, UploadOf
  <2> QED BY <1>1, <2>1, <2>2, <2>3, <2>4, <2>5, <2>6, <2>7, <2>8, <2>9, <2>10, <2>11 DEF Publish
<1>2. ASSUME NEW c \in Callers, Refer(c) PROVE ProgressInv'
  <2>1. ASSUME \E h \in Holders \cup {c} : PinPayload(c, h) PROVE ProgressInv'
    BY <2>1 DEF PinPayload, touchReadyPayload
  <2>2. ASSUME \E h \in Holders \cup {c} : ReleasePayload(c, h) PROVE ProgressInv'
    BY <2>2 DEF ReleasePayload, touchReadyPayload
  <2>3. ASSUME PinCommit(c) PROVE ProgressInv'
    BY <2>3 DEF PinCommit
  <2>4. ASSUME CopyPayload(c) PROVE ProgressInv'
    BY <2>4 DEF CopyPayload
  <2>5. ASSUME copy(c) PROVE ProgressInv'
    BY <2>5 DEF copy
  <2>6. ASSUME ReleaseCommit(c) PROVE ProgressInv'
    BY <2>6 DEF ReleaseCommit
  <2> QED BY <1>2, <2>1, <2>2, <2>3, <2>4, <2>5, <2>6 DEF Refer
<1>3. ASSUME NEW c \in Callers, Collect(c) PROVE ProgressInv'
  <2>1. ASSUME CollectPayload(c) PROVE ProgressInv'
    <3>1. pc'[c] \notin Uploading /\ \A d \in Callers \ {c} : pc'[d] = pc[d] /\ doc'[d] = doc[d]
      BY <2>1 DEF CollectPayload, Claimed
    <3> QED BY <2>1, <3>1 DEF CollectPayload
  <2>2. ASSUME ClaimUpdate(c) PROVE ProgressInv'
    BY <2>2 DEF ClaimUpdate
  <2>3. ASSUME ClaimCount(c) PROVE ProgressInv'
    BY <2>3 DEF ClaimCount
  <2>4. ASSUME ClaimCommit(c) PROVE ProgressInv'
    BY <2>4 DEF ClaimCommit, Claimed
  <2>5. ASSUME RemoveFile(c, "erase", "eraseChunks") PROVE ProgressInv'
    BY <2>5 DEF RemoveFile
  <2>6. ASSUME RemoveFileFails(c, "erase") PROVE ProgressInv'
    BY <2>6 DEF RemoveFileFails
  <2>7. ASSUME RemoveChunks(c, "eraseChunks", "finish") PROVE ProgressInv'
    BY <2>7 DEF RemoveChunks
  <2>8. ASSUME finishPayloadDeletion(c) PROVE ProgressInv'
    BY <2>8 DEF finishPayloadDeletion
  <2> QED BY <1>3, <2>1, <2>2, <2>3, <2>4, <2>5, <2>6, <2>7, <2>8 DEF Collect, Erase
<1>4. ASSUME NEW c \in Callers, Abandon(c) PROVE ProgressInv'
  BY <1>4 DEF Abandon
<1>5. ASSUME ExpireLease PROVE ProgressInv'
  BY <1>5 DEF ExpireLease
<1>6. ASSUME UNCHANGED vars PROVE ProgressInv'
  BY <1>6 DEF vars
<1> QED BY <1>1, <1>2, <1>3, <1>4, <1>5, <1>6 DEF Next

\* Streams begin with their first chunk.
LEMMA SentInvStep ==
  ASSUME IInv, [Next]_vars
  PROVE  SentInv'
<1> USE PayloadConstants DEF IInv, TypeOK, SentInv, Unlocked, Goto, Return, Uploading, Deleting,
         InTransaction, NoFile, Uploader
<1>1. ASSUME NEW c \in Callers, Publish(c) PROVE SentInv'
  BY <1>1 DEF Publish, reservePayload, insertUploadingPayload, Reserved, inserted, resumeUpload,
           UploadOf, RemoveFile, RemoveFileFails, RemoveChunks, UploadChunk, CloseUpload,
           UploadFails, publish, MarkReady
<1>2. ASSUME NEW c \in Callers, Refer(c) PROVE SentInv'
  BY <1>2 DEF Refer, PinPayload, touchReadyPayload, ReleasePayload, PinCommit, CopyPayload,
           copy, ReleaseCommit
<1>3. ASSUME NEW c \in Callers, Collect(c) PROVE SentInv'
  BY <1>3 DEF Collect, Erase, CollectPayload, Claimed, ClaimUpdate, ClaimCount, ClaimCommit,
           RemoveFile, RemoveFileFails, RemoveChunks, finishPayloadDeletion
<1>4. ASSUME NEW c \in Callers, Abandon(c) PROVE SentInv'
  BY <1>4 DEF Abandon
<1>5. ASSUME ExpireLease PROVE SentInv'
  BY <1>5 DEF ExpireLease
<1>6. ASSUME UNCHANGED vars PROVE SentInv'
  BY <1>6 DEF vars
<1> QED BY <1>1, <1>2, <1>3, <1>4, <1>5, <1>6 DEF Next

\* A ready payload got its bytes before MarkReady and has neither uploader nor eraser.
LEMMA ReadyHasContentStep ==
  ASSUME IInv, [Next]_vars
  PROVE  ReadyHasContent'
<1> USE PayloadConstants DEF IInv, TypeOK, DocumentInv, RememberedInv, UploaderInv, ProgressInv,
         Progress, ReadyHasContent, Content, ClaimInv, Payload, Labels, NoPayload, Unlocked,
         Goto, Return, Uploading, Deleting, InTransaction, NoFile, Uploader
<1>1. ASSUME NEW c \in Callers, Publish(c) PROVE ReadyHasContent'
  <2>1. ASSUME reservePayload(c) PROVE ReadyHasContent'
    BY <2>1 DEF reservePayload
  <2>2. ASSUME insertUploadingPayload(c) PROVE ReadyHasContent'
    BY <2>2 DEF insertUploadingPayload, Reserved, inserted
  <2>3. ASSUME resumeUpload(c) PROVE ReadyHasContent'
    BY <2>3 DEF resumeUpload, Reserved, UploadOf
  <2>4. ASSUME RemoveFile(c, "remove", "removeChunks") PROVE ReadyHasContent'
    BY <2>4 DEF RemoveFile
  <2>5. ASSUME RemoveFileFails(c, "remove") PROVE ReadyHasContent'
    BY <2>5 DEF RemoveFileFails
  <2>6. ASSUME RemoveChunks(c, "removeChunks", "upload") PROVE ReadyHasContent'
    BY <2>6 DEF RemoveChunks
  <2>7. ASSUME UploadChunk(c) PROVE ReadyHasContent'
    BY <2>7 DEF UploadChunk
  <2>8. ASSUME CloseUpload(c) PROVE ReadyHasContent'
    BY <2>8 DEF CloseUpload
  <2>9. ASSUME UploadFails(c) PROVE ReadyHasContent'
    <3> SUFFICES ASSUME payload.state = "ready", payload.file \notin resumed \cup {NoFile}
                 PROVE  Content(payload.file)'
      BY <2>9 DEF UploadFails
    <3>1. payload.file \in Files /\ doc[c].file # payload.file
      BY <2>9 DEF UploadFails, Files
    <3> QED BY <2>9, <3>1 DEF UploadFails
  <2>10. ASSUME publish(c) PROVE ReadyHasContent'
    <3> SUFFICES ASSUME payload.state = "ready", payload.file \notin resumed \cup {NoFile}
                 PROVE  Content(payload.file)'
      BY <2>10 DEF publish
    <3>1. payload.file \in Files /\ doc[c].file # payload.file
      BY <2>10 DEF publish, Files
    <3> QED BY <2>10, <3>1 DEF publish
  <2>11. ASSUME MarkReady(c) PROVE ReadyHasContent'
    BY <2>11 DEF MarkReady, UploadOf
  <2> QED BY <1>1, <2>1, <2>2, <2>3, <2>4, <2>5, <2>6, <2>7, <2>8, <2>9, <2>10, <2>11 DEF Publish
<1>2. ASSUME NEW c \in Callers, Refer(c) PROVE ReadyHasContent'
  BY <1>2 DEF Refer, PinPayload, touchReadyPayload, ReleasePayload, PinCommit, CopyPayload,
           copy, ReleaseCommit
<1>3. ASSUME NEW c \in Callers, Collect(c) PROVE ReadyHasContent'
  <2>1. ASSUME CollectPayload(c) PROVE ReadyHasContent'
    BY <2>1 DEF CollectPayload, Claimed
  <2>2. ASSUME ClaimUpdate(c) PROVE ReadyHasContent'
    BY <2>2 DEF ClaimUpdate
  <2>3. ASSUME ClaimCount(c) PROVE ReadyHasContent'
    BY <2>3 DEF ClaimCount
  <2>4. ASSUME ClaimCommit(c) PROVE ReadyHasContent'
    BY <2>4 DEF ClaimCommit, Claimed
  <2>5. ASSUME RemoveFile(c, "erase", "eraseChunks") PROVE ReadyHasContent'
    BY <2>5 DEF RemoveFile
  <2>6. ASSUME RemoveFileFails(c, "erase") PROVE ReadyHasContent'
    BY <2>6 DEF RemoveFileFails
  <2>7. ASSUME RemoveChunks(c, "eraseChunks", "finish") PROVE ReadyHasContent'
    BY <2>7 DEF RemoveChunks
  <2>8. ASSUME finishPayloadDeletion(c) PROVE ReadyHasContent'
    BY <2>8 DEF finishPayloadDeletion
  <2> QED BY <1>3, <2>1, <2>2, <2>3, <2>4, <2>5, <2>6, <2>7, <2>8 DEF Collect, Erase
<1>4. ASSUME NEW c \in Callers, Abandon(c) PROVE ReadyHasContent'
  BY <1>4 DEF Abandon
<1>5. ASSUME ExpireLease PROVE ReadyHasContent'
  BY <1>5 DEF ExpireLease
<1>6. ASSUME UNCHANGED vars PROVE ReadyHasContent'
  BY <1>6 DEF vars
<1> QED BY <1>1, <1>2, <1>3, <1>4, <1>5, <1>6 DEF Next

\* A reference and a claim exclude each other on the document's lock.
LEMMA PinnedIsReadyStep ==
  ASSUME IInv, [Next]_vars
  PROVE  PinnedIsReady'
<1> USE PayloadConstants DEF IInv, TypeOK, RememberedInv, LockInv, ClaimInv, ReferenceInv,
         PinnedIsReady, Payload, Labels, NoPayload, Unlocked, Goto, Return, Uploading, Deleting,
         InTransaction, NoFile, Uploader
<1>1. ASSUME NEW c \in Callers, Publish(c) PROVE PinnedIsReady'
  BY <1>1 DEF Publish, reservePayload, insertUploadingPayload, Reserved, inserted, resumeUpload,
           UploadOf, RemoveFile, RemoveFileFails, RemoveChunks, UploadChunk, CloseUpload,
           UploadFails, publish, MarkReady
<1>2. ASSUME NEW c \in Callers, Refer(c) PROVE PinnedIsReady'
  BY <1>2 DEF Refer, PinPayload, touchReadyPayload, ReleasePayload, PinCommit, CopyPayload,
           copy, ReleaseCommit
<1>3. ASSUME NEW c \in Callers, Collect(c) PROVE PinnedIsReady'
  BY <1>3 DEF Collect, Erase, CollectPayload, Claimed, ClaimUpdate, ClaimCount, ClaimCommit,
           RemoveFile, RemoveFileFails, RemoveChunks, finishPayloadDeletion
<1>4. ASSUME NEW c \in Callers, Abandon(c) PROVE PinnedIsReady'
  BY <1>4 DEF Abandon
<1>5. ASSUME ExpireLease PROVE PinnedIsReady'
  BY <1>5 DEF ExpireLease
<1>6. ASSUME UNCHANGED vars PROVE PinnedIsReady'
  BY <1>6 DEF vars
<1> QED BY <1>1, <1>2, <1>3, <1>4, <1>5, <1>6 DEF Next

----------------------------------------------------------------------------
(* Theorems                                                                *)

\* The empty database satisfies the invariant.
LEMMA Initially == Init => IInv
BY PayloadConstants DEF Init, IInv, TypeOK, Payload, NoPayload, NoFile, Labels, Files, Chunks,
         Uploading, Deleting, InTransaction, LockInv, DocumentInv, RememberedInv, ClaimInv,
         ReferenceInv, UploaderInv, Uploader, ProgressInv, SentInv, ReadyHasContent, PinnedIsReady

\* IInv is inductive: it holds of every reachable state of the payload store.
THEOREM Inductive == Spec => []IInv
<1>1. IInv /\ [Next]_vars => IInv'
  BY TypeOKStep, LockInvStep, DocumentInvStep, RememberedInvStep, ClaimInvStep, ReferenceInvStep,
     UploaderInvStep, ProgressInvStep, SentInvStep, ReadyHasContentStep, PinnedIsReadyStep DEF IInv
<1> QED BY Initially, <1>1, PTL DEF Spec

\* Every variable keeps its type; no reservation and no claim passes the largest
\* fencing token (nextToken in payload.go).
THEOREM PayloadTypeCorrect == Spec => []TypeOK
<1>1. IInv => TypeOK
  BY DEF IInv
<1> QED BY <1>1, Inductive, PTL

\* What PublishPayload marks ready under a token nobody resumed can be read back
\* whole, in spite of late uploads, expired leases and collectors.
THEOREM ReadyPayloadsHaveContent == Spec => []ReadyHasContent
<1>1. IInv => ReadyHasContent
  BY DEF IInv
<1> QED BY <1>1, Inductive, PTL

\* CollectPayload never claims a payload that is referenced: its claim serializes
\* with every pin and release on the payload document.
THEOREM PinnedPayloadsStayReady == Spec => []PinnedIsReady
<1>1. IInv => PinnedIsReady
  BY DEF IInv
<1> QED BY <1>1, Inductive, PTL

\* CopyPayload streams a file that is whole, unless its upload was resumed: the
\* reader's pin keeps the document, and the token keeps the file.
THEOREM ReadersFindContent == Spec => []PinProtectsReader
<1>1. IInv => PinProtectsReader
  <2> SUFFICES ASSUME IInv, NEW c \in Callers, pc[c] = "copy", doc[c].file \notin resumed
               PROVE  Content(doc[c].file)
    BY DEF PinProtectsReader
  <2>1. c \in refs /\ doc[c].file = payload.file /\ payload.file # NoFile
    BY DEF IInv, ReferenceInv
  <2>2. payload.state = "ready"
    BY <2>1 DEF IInv, PinnedIsReady
  <2> QED BY <2>1, <2>2 DEF IInv, ReadyHasContent
<1> QED BY <1>1, Inductive, PTL
=============================================================================
