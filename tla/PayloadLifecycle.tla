-------------------------- MODULE PayloadLifecycle --------------------------
(***************************************************************************)
(* One content-addressed payload of the MongoDB adapter: publication,      *)
(* references, verified reads and collection (payload.go, on the GridFS    *)
(* streams of blob.go).                                                    *)
(*                                                                         *)
(* The payload document, the GridFS files and chunks collections and the   *)
(* reference collection are shared by the goroutines of several stores     *)
(* (nodes).  Publication is outside transactions: its steps interleave     *)
(* freely.  Pins, releases and collection claims are transactions that     *)
(* first write the payload document and so hold its lock until they end.   *)
(*                                                                         *)
(* What is abstracted: a GridFS file ID is the token of the reservation    *)
(* that created it (each reservation makes one new ID and one new token);  *)
(* a lease is the fact whether the server clock has passed it; a call      *)
(* whose write reaches the database after its client gave up is a caller   *)
(* that is slow and gives up right after the write.                        *)
(***************************************************************************)
EXTENDS Naturals, FiniteSets

CONSTANTS
  Callers,    \* goroutines
  Stores,     \* owner IDs, one per Store
  StoreOf,    \* StoreOf[c]: the Store that goroutine c uses
  Holders,    \* durable reference owners
  Nobody,     \* no owner, no reference, no lock
  NumChunks,  \* GridFS chunks of the payload
  MaxToken,   \* the largest fencing token (2^64 - 1 in the code)
  Inline      \* whether the payload is within InlineLimit

ASSUME PayloadConstants ==
  /\ StoreOf \in [Callers -> Stores]
  /\ Nobody \notin Stores \cup Holders \cup Callers
  /\ Holders \cap Callers = {}
  /\ NumChunks \in Nat
  /\ MaxToken \in Nat
  /\ Inline \in BOOLEAN

VARIABLES
  payload,  \* the payload document
  files,    \* files[f]: state of GridFS file f
  chunks,   \* chunks[f]: chunks stored for file f
  refs,     \* owners of committed references; a caller's read pin is the caller
  lock,     \* the caller whose transaction has written the payload document
  pc,       \* pc[c]: where caller c is in its call
  doc,      \* doc[c]: the payload document c holds
  sent,     \* sent[c]: chunks c's upload stream has written
  holder,   \* holder[c]: the reference c adds or removes
  resumed   \* history: tokens of the uploads that were resumed

vars == <<payload, files, chunks, refs, lock, pc, doc, sent, holder, resumed>>

----------------------------------------------------------------------------
(* Data                                                                    *)

Files == 1..MaxToken
Chunks == 1..NumChunks

\* No file: the content is inline.
NoFile == 0

Payload == [state: {"absent", "uploading", "ready", "deleting", "deleted"},
            owner: Stores \cup {Nobody}, token: 0..MaxToken, lease: BOOLEAN,
            file: 0..MaxToken]

NoPayload == [state |-> "absent", owner |-> Nobody, token |-> 0, lease |-> FALSE, file |-> NoFile]

\* Labels of PublishPayload with a reservation, of CollectPayload after its
\* claim, and of an open transaction.
Uploading == {"remove", "removeChunks", "upload", "publishBlob", "mark"}
Deleting == {"erase", "eraseChunks", "finish"}
InTransaction == {"pin", "unpin", "count", "claimCommit"}

Labels == Uploading \cup Deleting \cup InTransaction
            \cup {"idle", "reserve", "resume", "claim", "copyRead", "copy", "release"}

\* The bytes of file f can be read back whole.
Content(f) == files[f] = "published" /\ chunks[f] = Chunks

\* The document of a new reservation.
inserted(s, t) ==
  [state |-> "uploading", owner |-> s, token |-> t, lease |-> TRUE,
   file |-> IF Inline THEN NoFile ELSE t]

Init ==
  /\ payload = NoPayload
  /\ files = [f \in Files |-> "none"]
  /\ chunks = [f \in Files |-> {}]
  /\ refs = {}
  /\ lock = Nobody
  /\ pc = [c \in Callers |-> "idle"]
  /\ doc = [c \in Callers |-> NoPayload]
  /\ sent = [c \in Callers |-> 0]
  /\ holder = [c \in Callers |-> Nobody]
  /\ resumed = {}

----------------------------------------------------------------------------
(* Control of one call                                                     *)

Unlocked == lock = Nobody

Goto(c, l) == pc' = [pc EXCEPT ![c] = l]

\* The call returns; its variables go out of scope.
Return(c) ==
  /\ Goto(c, "idle")
  /\ doc' = [doc EXCEPT ![c] = NoPayload]
  /\ sent' = [sent EXCEPT ![c] = 0]
  /\ holder' = [holder EXCEPT ![c] = Nobody]

\* The caller gives up or crashes anywhere in its call; the server aborts the
\* transaction it has open.
Abandon(c) ==
  /\ pc[c] # "idle"
  /\ lock' = IF lock = c THEN Nobody ELSE lock
  /\ Return(c)
  /\ UNCHANGED <<payload, files, chunks, refs, resumed>>

----------------------------------------------------------------------------
(* PublishPayload                                                          *)

\* reservePayload reads the document.  Ready content is reused, and another
\* owner's upload or a deletion in progress is ErrConflict: neither changes
\* anything.
reservePayload(c) ==
  /\ pc[c] = "idle"
  /\ \/ payload.state \in {"absent", "deleted"} /\ payload.token < MaxToken /\ Goto(c, "reserve")
     \/ payload.state = "uploading" /\ payload.owner = StoreOf[c] /\ Goto(c, "resume")
  /\ doc' = [doc EXCEPT ![c] = payload]
  /\ UNCHANGED <<payload, files, chunks, refs, lock, sent, holder, resumed>>

\* The caller owns the reservation d and goes on to its bytes.
Reserved(c, d) ==
  /\ payload' = d
  /\ doc' = [doc EXCEPT ![c] = d]
  /\ Goto(c, IF Inline THEN "mark" ELSE "remove")
  /\ UNCHANGED <<sent, holder>>

insertUploadingPayload(c) ==
  /\ pc[c] = "reserve"
  /\ Unlocked
  /\ \/ /\ payload.state = doc[c].state /\ payload.token = doc[c].token
        /\ Reserved(c, inserted(StoreOf[c], doc[c].token + 1))
     \/ /\ payload.state # doc[c].state \/ payload.token # doc[c].token
        /\ Return(c)
        /\ UNCHANGED payload
  /\ UNCHANGED <<files, chunks, refs, lock, resumed>>

\* Mutant: the compare-and-set does not look at the token.
UploadOfAnyToken(c) == payload.state = "uploading" /\ payload.owner = StoreOf[c]

\* The document is still the upload caller c has in hand.
UploadOf(c) ==
  /\ payload.state = "uploading"
  /\ payload.owner = StoreOf[c]
  /\ payload.token = doc[c].token

\* An upload of the same owner is continued under its token and file ID.
resumeUpload(c) ==
  /\ pc[c] = "resume"
  /\ Unlocked
  /\ \/ /\ UploadOf(c)
        /\ Reserved(c, [payload EXCEPT !.lease = TRUE])
        /\ resumed' = resumed \cup {payload.token}
     \/ /\ ~UploadOf(c)
        /\ Return(c)
        /\ UNCHANGED <<payload, resumed>>
  /\ UNCHANGED <<files, chunks, refs, lock>>

\* blobStore.remove deletes the files document, then the chunks.
RemoveFile(c, here, next) ==
  /\ pc[c] = here
  /\ files' = [files EXCEPT ![doc[c].file] = "none"]
  /\ Goto(c, next)
  /\ UNCHANGED <<payload, chunks, refs, lock, doc, sent, holder, resumed>>

\* The files document cannot be deleted; the chunks are deleted all the same and
\* the call fails.
RemoveFileFails(c, here) ==
  /\ pc[c] = here
  /\ chunks' = [chunks EXCEPT ![doc[c].file] = {}]
  /\ Return(c)
  /\ UNCHANGED <<payload, files, refs, lock, resumed>>

RemoveChunks(c, here, next) ==
  /\ pc[c] = here
  /\ chunks' = [chunks EXCEPT ![doc[c].file] = {}]
  /\ Goto(c, next)
  /\ UNCHANGED <<payload, files, refs, lock, doc, sent, holder, resumed>>

\* blobStore.upload: one chunk; (file, number) is a unique key.
UploadChunk(c) ==
  /\ pc[c] = "upload"
  /\ sent[c] < NumChunks
  /\ sent[c] + 1 \notin chunks[doc[c].file]
  /\ sent' = [sent EXCEPT ![c] = @ + 1]
  /\ chunks' = [chunks EXCEPT ![doc[c].file] = @ \cup {sent[c] + 1}]
  /\ UNCHANGED <<payload, files, refs, lock, pc, doc, holder, resumed>>

\* The digest is verified and the stream closed, which inserts the files document.
CloseUpload(c) ==
  /\ pc[c] = "upload"
  /\ sent[c] = NumChunks
  /\ files[doc[c].file] = "none"
  /\ files' = [files EXCEPT ![doc[c].file] = "staged"]
  /\ Goto(c, "publishBlob")
  /\ UNCHANGED <<payload, chunks, refs, lock, doc, sent, holder, resumed>>

\* The stream fails: a bad or slow reader, a duplicate key, an unknown result of
\* Close after the files document was inserted.  Abort and cleanup delete the
\* chunks, if they reach the database.
UploadFails(c) ==
  /\ pc[c] = "upload"
  /\ \/ UNCHANGED files
     \/ /\ sent[c] = NumChunks
        /\ files[doc[c].file] = "none"
        /\ files' = [files EXCEPT ![doc[c].file] = "staged"]
  /\ \/ UNCHANGED chunks
     \/ chunks' = [chunks EXCEPT ![doc[c].file] = {}]
  /\ Return(c)
  /\ UNCHANGED <<payload, refs, lock, resumed>>

\* blobStore.publish: the staged files document of this upload becomes published.
publish(c) ==
  /\ pc[c] = "publishBlob"
  /\ \/ /\ files[doc[c].file] = "staged"
        /\ files' = [files EXCEPT ![doc[c].file] = "published"]
        /\ Goto(c, "mark")
        /\ UNCHANGED <<doc, sent, holder>>
     \/ /\ files[doc[c].file] # "staged"
        /\ Return(c)
        /\ UNCHANGED files
  /\ UNCHANGED <<payload, chunks, refs, lock, resumed>>

\* The last compare-and-set of PublishPayload.
MarkReady(c) ==
  /\ pc[c] = "mark"
  /\ Unlocked
  /\ payload' = IF UploadOf(c) /\ payload.lease
                THEN [payload EXCEPT !.state = "ready", !.lease = TRUE] ELSE payload
  /\ Return(c)
  /\ UNCHANGED <<files, chunks, refs, lock, resumed>>

----------------------------------------------------------------------------
(* PinPayload, ReleasePayload, CopyPayload                                 *)

\* Mutant: the pin only reads the document's state.
touchReadyPayloadUnguarded(c) ==
  payload.state = "ready" /\ UNCHANGED lock

\* The transaction's first write: the guard of a ready document.
touchReadyPayload(c) ==
  /\ payload.state = "ready"
  /\ Unlocked
  /\ lock' = c

\* pinPayload for a durable owner, or for the caller's own read.  A read pin has
\* a new ID, so one a crashed caller left behind is never used again.
PinPayload(c, h) ==
  /\ pc[c] = "idle"
  /\ h = c => c \notin refs
  /\ touchReadyPayload(c)
  /\ Goto(c, "pin")
  /\ holder' = [holder EXCEPT ![c] = h]
  /\ UNCHANGED <<payload, files, chunks, refs, doc, sent, resumed>>

\* Mutant: a read goes on without its pin.
PinCommitForgotten(c) ==
  /\ pc[c] = "pin"
  /\ lock' = Nobody
  /\ \/ holder[c] = c /\ Goto(c, "copyRead") /\ UNCHANGED <<refs, doc, sent, holder>>
     \/ holder[c] # c /\ refs' = refs \cup {holder[c]} /\ Return(c)
  /\ UNCHANGED <<payload, files, chunks, resumed>>

\* The pin commits; CopyPayload goes on to read.
PinCommit(c) ==
  /\ pc[c] = "pin"
  /\ refs' = refs \cup {holder[c]}
  /\ lock' = Nobody
  /\ \/ holder[c] = c /\ Goto(c, "copyRead") /\ UNCHANGED <<doc, sent, holder>>
     \/ holder[c] # c /\ Return(c)
  /\ UNCHANGED <<payload, files, chunks, resumed>>

\* CopyPayload reads the document under its pin.
CopyPayload(c) ==
  /\ pc[c] = "copyRead"
  /\ doc' = [doc EXCEPT ![c] = payload]
  /\ Goto(c, IF payload.state = "ready" /\ payload.file # NoFile THEN "copy" ELSE "release")
  /\ UNCHANGED <<payload, files, chunks, refs, lock, sent, holder, resumed>>

\* blobStore.copy streams the file, successfully or not.
copy(c) ==
  /\ pc[c] = "copy"
  /\ Goto(c, "release")
  /\ UNCHANGED <<payload, files, chunks, refs, lock, doc, sent, holder, resumed>>

\* ReleasePayload of a durable owner, or the deferred release of a read pin.
ReleasePayload(c, h) ==
  /\ \/ pc[c] = "idle" /\ h \in Holders
     \/ pc[c] = "release" /\ h = c
  /\ h \in refs
  /\ touchReadyPayload(c)
  /\ Goto(c, "unpin")
  /\ holder' = [holder EXCEPT ![c] = h]
  /\ UNCHANGED <<payload, files, chunks, refs, doc, sent, resumed>>

ReleaseCommit(c) ==
  /\ pc[c] = "unpin"
  /\ refs' = refs \ {holder[c]}
  /\ lock' = Nobody
  /\ Return(c)
  /\ UNCHANGED <<payload, files, chunks, resumed>>

----------------------------------------------------------------------------
(* CollectPayload                                                          *)

\* The caller may delete the bytes of d.
Claimed(c, d) ==
  /\ doc' = [doc EXCEPT ![c] = d]
  /\ Goto(c, IF d.file = NoFile THEN "finish" ELSE "erase")

\* Mutant: the claim's token may pass the largest one.
CollectPayloadAnyToken(c) ==
  /\ pc[c] = "idle"
  /\ \/ payload.state \in {"uploading", "ready"} /\ Goto(c, "claim")
     \/ payload.state = "deleting" /\ Goto(c, "erase")
  /\ doc' = [doc EXCEPT ![c] = payload]
  /\ UNCHANGED <<payload, files, chunks, refs, lock, sent, holder, resumed>>

\* Mutant: only a payload that can be claimed is collected.
CollectPayloadNoRetry(c) ==
  /\ pc[c] = "idle"
  /\ payload.state \in {"uploading", "ready"} /\ payload.token < MaxToken
  /\ doc' = [doc EXCEPT ![c] = payload]
  /\ Goto(c, "claim")
  /\ UNCHANGED <<payload, files, chunks, refs, lock, sent, holder, resumed>>

\* loadCollectablePayload.  A deletion left behind by a crash is taken up again.
CollectPayload(c) ==
  /\ pc[c] = "idle"
  /\ \/ /\ payload.state \in {"uploading", "ready"}
        /\ payload.token < MaxToken
        /\ doc' = [doc EXCEPT ![c] = payload]
        /\ Goto(c, "claim")
     \/ /\ payload.state = "deleting"
        /\ Claimed(c, payload)
  /\ UNCHANGED <<payload, files, chunks, refs, lock, sent, holder, resumed>>

\* claimExpiredPayloadTx: its update finds the same document, expired.
ClaimUpdate(c) ==
  /\ pc[c] = "claim"
  /\ Unlocked
  /\ \/ /\ payload.state = doc[c].state /\ payload.token = doc[c].token /\ ~payload.lease
        /\ lock' = c
        /\ Goto(c, "count")
        /\ UNCHANGED <<doc, sent, holder>>
     \/ /\ payload.state # doc[c].state \/ payload.token # doc[c].token \/ payload.lease
        /\ Return(c)
        /\ UNCHANGED lock
  /\ UNCHANGED <<payload, files, chunks, refs, resumed>>

\* Its count of the references, which aborts it unless there are none.
ClaimCount(c) ==
  /\ pc[c] = "count"
  /\ \/ /\ refs = {}
        /\ Goto(c, "claimCommit")
        /\ UNCHANGED <<lock, doc, sent, holder>>
     \/ /\ refs # {}
        /\ lock' = Nobody
        /\ Return(c)
  /\ UNCHANGED <<payload, files, chunks, refs, resumed>>

ClaimCommit(c) ==
  /\ pc[c] = "claimCommit"
  /\ payload' = [payload EXCEPT !.state = "deleting", !.owner = StoreOf[c],
                                !.token = doc[c].token + 1, !.lease = TRUE]
  /\ lock' = Nobody
  /\ Claimed(c, payload')
  /\ UNCHANGED <<files, chunks, refs, sent, holder, resumed>>

\* finishPayloadDeletion after the bytes are gone.
finishPayloadDeletion(c) ==
  /\ pc[c] = "finish"
  /\ Unlocked
  /\ payload' = IF payload.state = "deleting" /\ payload.token = doc[c].token
                THEN [payload EXCEPT !.state = "deleted"] ELSE payload
  /\ Return(c)
  /\ UNCHANGED <<files, chunks, refs, lock, resumed>>

\* The server clock passes leaseUntil.
ExpireLease ==
  /\ payload.state \in {"uploading", "ready", "deleting"} /\ payload.lease
  /\ payload' = [payload EXCEPT !.lease = FALSE]
  /\ UNCHANGED <<files, chunks, refs, lock, pc, doc, sent, holder, resumed>>

----------------------------------------------------------------------------
Publish(c) ==
  \/ reservePayload(c) \/ insertUploadingPayload(c) \/ resumeUpload(c)
  \/ RemoveFile(c, "remove", "removeChunks") \/ RemoveFileFails(c, "remove")
  \/ RemoveChunks(c, "removeChunks", "upload")
  \/ UploadChunk(c) \/ CloseUpload(c) \/ UploadFails(c) \/ publish(c) \/ MarkReady(c)

Refer(c) ==
  \/ \E h \in Holders \cup {c} : PinPayload(c, h) \/ ReleasePayload(c, h)
  \/ PinCommit(c) \/ CopyPayload(c) \/ copy(c) \/ ReleaseCommit(c)

Erase(c) ==
  \/ RemoveFile(c, "erase", "eraseChunks") \/ RemoveFileFails(c, "erase")
  \/ RemoveChunks(c, "eraseChunks", "finish")
  \/ finishPayloadDeletion(c)

Collect(c) ==
  CollectPayload(c) \/ ClaimUpdate(c) \/ ClaimCount(c) \/ ClaimCommit(c) \/ Erase(c)

Next ==
  \/ \E c \in Callers : Publish(c) \/ Refer(c) \/ Collect(c) \/ Abandon(c)
  \/ ExpireLease

Spec == Init /\ [][Next]_vars

----------------------------------------------------------------------------
(* Properties                                                              *)

\* Every variable holds a value of its type: in particular no reservation and no
\* collection claim passes the largest fencing token.
TypeOK ==
  /\ payload \in Payload
  /\ files \in [Files -> {"none", "staged", "published"}]
  /\ chunks \in [Files -> SUBSET Chunks]
  /\ refs \subseteq Holders \cup Callers
  /\ lock \in Callers \cup {Nobody}
  /\ pc \in [Callers -> Labels]
  /\ doc \in [Callers -> Payload]
  /\ sent \in [Callers -> 0..NumChunks]
  /\ holder \in [Callers -> Holders \cup Callers \cup {Nobody}]
  /\ resumed \subseteq 0..MaxToken

\* Content that is ready under an upload nobody resumed can be read back whole,
\* whatever late uploads, expired leases and collectors do.
ReadyHasContent ==
  payload.state = "ready" /\ payload.file \notin resumed \cup {NoFile} => Content(payload.file)

\* The collection claim serializes with every reference: as long as one is held
\* the payload stays ready.
PinnedIsReady == refs # {} => payload.state = "ready"

\* A verified read finds the bytes it pinned, unless their upload was resumed.
PinProtectsReader ==
  \A c \in Callers : pc[c] = "copy" /\ doc[c].file \notin resumed => Content(doc[c].file)

\* What the comment of PublishPayload says: the bytes are published before any
\* reference to them can be made, so a referenced payload has them.
ReferencedHasContent ==
  refs # {} /\ payload.file # NoFile => Content(payload.file)
=============================================================================
