------------------------------ MODULE BasmRead ------------------------------
(***************************************************************************)
(* One BASM read, from the HTTP handler                                    *)
(* (pkg/server/internal/ports/basm_read_handler.go) through readBASM       *)
(* (pkg/core/engine/basm-read-service.go), while the chain reorganises and *)
(* the storage rewrites its history.                                       *)
(*                                                                         *)
(* A block is named by the forks taken up to it, so that its hash commits  *)
(* to its ancestors.  Every block has TxCount transactions.  The storage   *)
(* and the header resolver are outside this repository: they answer late,  *)
(* fail, and the storage may return a page that is not what it stored.     *)
(***************************************************************************)
EXTENDS Integers, Sequences, FiniteSets, SequencesExt

CONSTANTS Forks,        \* the choices a miner has at a height
          Top,          \* the highest height
          TxCount,      \* transactions of a block
          MaxRange,     \* limits.MaxRange
          MaxTxIDs,     \* limits.MaxRequestedTxIDs
          MaxAdmitted,  \* limits.MaxAdmitted
          MaxResponse,  \* limits.MaxResponseBytes, in units of an ID
          Kinds,        \* the routes that are called
          MaxReorgs,    \* bound: reorganisations during a read
          MaxRewrites   \* bound: changes of the stored history during a read

ReadAssumption ==
    /\ Top \in Nat /\ TxCount \in Nat \ {0}
    /\ MaxRange \in Nat \ {0} /\ MaxTxIDs \in Nat \ {0}
    /\ MaxAdmitted \in Nat \ {0} /\ MaxResponse \in Nat \ {0}
    /\ MaxReorgs \in Nat /\ MaxRewrites \in Nat
    /\ Kinds \subseteq {"tip", "range", "list", "proof", "raw"}

VARIABLES chain,     \* the canonical chain: the fork taken at every height
          history,   \* what the storage holds: [anchors, rev]
          req,       \* the decoded request
          pc,        \* the step of the call
          view,      \* the history pinned by the view, and whether it is open
          page,      \* anchors the view returned
          headers,   \* canonical headers seen by validateAnchor, in order
          checked,   \* how many of them have been looked up again
          admitted,  \* the admitted list of the block that is read
          raw,       \* [found, missing] of a raw read
          output, err,
          expired,   \* the request's context is done
          reply,     \* what the handler sent: a status
          reorgs, rewrites,
          moments    \* the <<chain, history>> there were since the data was read

vars == <<chain, history, req, pc, view, page, headers, checked, admitted, raw,
          output, err, expired, reply, reorgs, rewrites, moments>>

world == <<chain, history, reorgs, rewrites>>

----------------------------------------------------------------------------
(* pkg/core/basm: roots, cumulative hashes, lists.  Hashes are tuples, and *)
(* free of collisions; the zero hash is the empty one.                     *)

Zero == << >>

\* A root over the IDs in order: of no ID it is zero, of one ID the ID.
Root(ids) == IF ids = << >> THEN Zero ELSE IF Len(ids) = 1 THEN ids[1] ELSE <<ids>>

HashTACStep(previous, blockHash, root) == <<previous, blockHash, root>>

BlockHash(c, h) == SubSeq(c, 1, h + 1)
Tx(c, h, i)     == <<BlockHash(c, h), i>>

\* The header of a height: its hash commits to root and transaction count.
Header(c, h) == [height |-> h, hash |-> BlockHash(c, h)]

IDs(list) == [i \in 1..Len(list) |-> list[i].txid]

\* Chain.Append on the anchors so far: heights are contiguous from genesis
\* (height 0) and end with the last one that can be represented (Top).
AppendAnchor(anchors, hash, list) ==
    LET tac == IF anchors = << >> THEN Zero ELSE Last(anchors).tac
    IN Append(anchors, [topic |-> "t", height |-> Len(anchors), hash |-> hash,
                        count |-> Len(list), root |-> Root(IDs(list)), list |-> list,
                        tac |-> HashTACStep(tac, hash, Root(IDs(list)))])

\* TopicBlockAnchor.Validate, beside the topic's encoding.
ValidAnchor(a) == a.count <= MaxAdmitted /\ (a.count = 0 => a.root = Zero)

ValidateListShape(a, list) ==
    /\ a.count = Len(list)
    /\ \A i \in 1..Len(list) : /\ list[i].index < TxCount
                               /\ i > 1 => list[i].index > list[i - 1].index
    /\ \A i, j \in 1..Len(list) : list[i].txid = list[j].txid => i = j

\* ValidateAnchorList and ValidateAdmittedList.
ValidateAnchorList(a, list) ==
    /\ ValidateListShape(a, list)
    /\ a.root = Root(IDs(list))

ValidateRange(from, to) ==
    IF from > to THEN "invalid_request"
    ELSE IF to - from + 1 > MaxRange THEN "limit" ELSE "nil"

----------------------------------------------------------------------------
(* The chain and the storage.                                              *)

Ref(c, h, i) == [txid |-> Tx(c, h, i), index |-> i]

\* Admitted lists a topic may have at a height: nothing, the last
\* transaction, all of them.
Lists(c, h) == {<< >>, <<Ref(c, h, TxCount - 1)>>, [i \in 1..TxCount |-> Ref(c, h, i - 1)]}

Chains == [1..(Top + 1) -> Forks]

\* The zero value of a response.
Nothing == [kind |-> "zero", anchors |-> << >>]

Init ==
    /\ chain \in Chains
    /\ history = [anchors |-> << >>, rev |-> 0]
    /\ req = [kind |-> "none"]
    /\ pc = "idle"
    /\ view = [open |-> FALSE]
    /\ page = << >> /\ headers = << >> /\ checked = 0 /\ admitted = << >>
    /\ raw = [found |-> << >>, missing |-> << >>]
    /\ output = Nothing /\ err = "nil" /\ expired = FALSE /\ reply = "none"
    /\ reorgs = 0 /\ rewrites = 0
    /\ moments = {}

\* A moment is remembered once the data of the answer has been read.
Remember == moments' = IF pc \in {"recheck", "current", "close", "reply"}
                       THEN moments \cup {<<chain', history'>>}
                       ELSE moments

call == <<req, pc, view, page, headers, checked, admitted, raw, output, err, expired, reply>>

Busy == pc \notin {"idle", "done"}

\* What the storage has admitted before the call, block by block.
StoreBlock ==
    /\ pc = "idle"
    /\ Len(history.anchors) <= Top
    /\ LET h == Len(history.anchors)
       IN \E list \in Lists(chain, h) :
             history' = [history EXCEPT !.anchors = AppendAnchor(@, BlockHash(chain, h), list)]
    /\ UNCHANGED <<chain, reorgs, rewrites, moments, call>>

Reorg ==
    /\ Busy /\ reorgs < MaxReorgs
    /\ chain' \in Chains \ {chain}
    /\ reorgs' = reorgs + 1
    /\ UNCHANGED <<history, rewrites, call>>
    /\ Remember

\* The storage catches up with a new block: nothing it held changes.
StoreAnchor ==
    /\ Busy /\ rewrites < MaxRewrites
    /\ Len(history.anchors) <= Top
    /\ \A k \in 1..Len(history.anchors) : history.anchors[k].hash = BlockHash(chain, k - 1)
    /\ LET h == Len(history.anchors)
       IN history' = [history EXCEPT !.anchors = AppendAnchor(@, BlockHash(chain, h), << >>)]
    /\ rewrites' = rewrites + 1
    /\ UNCHANGED <<chain, reorgs, call>>
    /\ Remember

\* It drops a block that is no longer canonical: chainEpoch changes.
Rollback ==
    /\ Busy /\ rewrites < MaxRewrites
    /\ history.anchors # << >>
    /\ Last(history.anchors).hash # BlockHash(chain, Len(history.anchors) - 1)
    /\ history' = [anchors |-> Front(history.anchors), rev |-> history.rev + 1]
    /\ rewrites' = rewrites + 1
    /\ UNCHANGED <<chain, reorgs, call>>
    /\ Remember

\* A late or evicted admission: topicHistoryGeneration changes.
Rewrite ==
    /\ Busy /\ rewrites < MaxRewrites
    /\ history.anchors # << >>
    /\ LET old == Last(history.anchors)
       IN \E list \in {<< >>, [i \in 1..TxCount |-> [txid |-> <<old.hash, i - 1>>, index |-> i - 1]]} :
             /\ list # old.list
             /\ history' = [anchors |-> AppendAnchor(Front(history.anchors), old.hash, list),
                            rev |-> history.rev + 1]
    /\ rewrites' = rewrites + 1
    /\ UNCHANGED <<chain, reorgs, call>>
    /\ Remember

\* The request's deadline passes, or its client cancels it.
Expire ==
    /\ Busy /\ ~expired
    /\ expired' = TRUE
    /\ UNCHANGED <<world, moments, req, pc, view, page, headers, checked, admitted, raw,
                   output, err, reply>>

----------------------------------------------------------------------------
(* Control flow of readBASM.                                               *)

\* Every path out of an opened view runs the deferred closeBASMView.
Fail(e) == /\ pc' = "close" /\ err' = e
           /\ UNCHANGED <<page, headers, checked, admitted, raw, output>>

Quiet == UNCHANGED <<world, req, expired, reply>>

\* The data of the answer has been read: the final checks follow.
Complete(out) ==
    /\ output' = out
    /\ pc' = "recheck"
    /\ moments' = {<<chain, history>>}

DecodeReadRequest(r) ==
    IF r.kind = "range" THEN ValidateRange(r.from, r.to)
    ELSE IF r.kind \in {"proof", "raw"}
    THEN IF Len(r.txids) > MaxTxIDs THEN "limit"
         ELSE IF ~IsInjective(r.txids) \/ (r.kind = "proof" /\ r.txids = << >>)
         THEN "invalid_request" ELSE "nil"
    ELSE "nil"

Asked == {Tx(chain, 0, i) : i \in 0..(TxCount - 1)}

Requests ==
    {r \in [kind : {"tip"}]
           \cup [kind : {"range"}, from : 0..Top, to : 0..Top]
           \cup [kind : {"list"}, height : 0..Top, hash : {Zero} \cup {BlockHash(chain, 0)}]
           \cup [kind : {"proof"}, height : 0..Top, txids : BoundedSeq(Asked, 2)]
           \cup [kind : {"raw"}, txids : BoundedSeq(Asked, 2)]
       : r.kind \in Kinds}

\* Handle, then readBASM up to the open view: the body is decoded; a missing
\* provider or header resolver and malformed requests end the call at once.
Handle(r) ==
    LET bad == DecodeReadRequest(r)
    IN /\ pc = "idle"
       /\ req' = r
       /\ \E e \in {bad} \cup (IF bad = "nil" THEN {"unsupported", "not_ready"} ELSE {}) :
             /\ err' = e
             /\ IF e = "nil" THEN pc' = "open" /\ reply' = reply
                             ELSE pc' = "done" /\ reply' = e
       /\ UNCHANGED <<world, view, page, headers, checked, admitted, raw, output, expired, moments>>

openBASMReadView ==
    /\ pc = "open"
    /\ \/ /\ ~expired
          /\ view' = [open |-> TRUE, anchors |-> history.anchors, rev |-> history.rev]
          /\ pc' = IF req.kind = "raw" THEN "raw" ELSE "anchors"
          /\ err' = err
       \/ /\ \E e \in IF expired THEN {"timeout"} ELSE {"not_found", "not_ready"} : err' = e
          /\ pc' = "reply"
          /\ view' = view
    /\ Quiet /\ UNCHANGED <<page, headers, checked, admitted, raw, output, moments>>

----------------------------------------------------------------------------
(* Reading anchors.                                                        *)

From(r) == IF r.kind = "range" THEN r.from ELSE r.height
To(r)   == IF r.kind = "range" THEN r.to ELSE r.height

\* What a view returns for anchors a: them, or a page it should not return.
Pages(a) ==
    {a, Reverse(a)}
    \cup (IF a = << >> THEN {}
          ELSE LET n == Len(a)
               IN {Front(a), Tail(a),
                   [a EXCEPT ![n] = [@ EXCEPT !.topic = "other"]],
                   [a EXCEPT ![n] = [@ EXCEPT !.tac = Zero]],
                   [a EXCEPT ![n] = [@ EXCEPT !.count = TxCount + 1]],
                   [a EXCEPT ![n] = [@ EXCEPT !.count = 0]]})

\* A topic without history has no tip.
ReadTip ==
    /\ req.kind = "tip"
    /\ IF view.anchors = << >>
       THEN /\ Complete([kind |-> "tip", anchors |-> << >>])
            /\ UNCHANGED <<page, headers, checked, admitted, raw, err>>
       ELSE /\ \E p \in Pages(<<Last(view.anchors)>>) : p # << >> /\ page' = p
            /\ pc' = "validate"
            /\ UNCHANGED <<headers, checked, admitted, raw, output, err, moments>>

\* A page has the requested length, and a block the requested height.
ReadInterval(from, to) ==
    /\ req.kind # "tip"
    /\ to <= Len(view.anchors)
    /\ \E p \in Pages(SubSeq(view.anchors, from, to)) :
          IF Len(p) # to - from + 1 \/ (req.kind # "range" /\ p[1].height # req.height)
          THEN Fail("not_ready")
          ELSE /\ page' = p
               /\ pc' = "validate"
               /\ UNCHANGED <<headers, checked, admitted, raw, output, err>>
    /\ UNCHANGED moments

\* The view fails: the interval is not there, a limit, the context.
AnchorsFail ==
    /\ \E e \in {"not_ready", "limit"} \cup (IF expired THEN {"timeout"} ELSE {}) : Fail(e)
    /\ UNCHANGED moments

readAnchors ==
    /\ pc = "anchors"
    /\ ReadTip \/ ReadInterval(From(req) + 1, To(req) + 1) \/ AnchorsFail
    /\ Quiet /\ UNCHANGED view

\* One round of validateAnchorRange; validateAnchor for the other routes.
ValidateUnlinked(a, i) ==
    IF expired THEN "timeout"
    ELSE IF (req.kind = "range" /\ a.height # req.from + i - 1) \/ a.topic # "t" \/ ~ValidAnchor(a)
    THEN "invalid_data"
    ELSE IF Header(chain, a.height).hash # a.hash THEN "not_ready"
    ELSE IF a.count > TxCount THEN "invalid_data"
    ELSE "nil"

validateAnchor(a, i) ==
    IF ValidateUnlinked(a, i) # "nil" THEN ValidateUnlinked(a, i)
    ELSE IF i > 1 /\ a.tac # HashTACStep(page[i - 1].tac, a.hash, a.root) THEN "invalid_data"
    ELSE "nil"

ReadDone == Complete([kind |-> req.kind, anchors |-> page])

validateAnchorRange ==
    LET i == Len(headers) + 1
        e == validateAnchor(page[i], i)
    IN /\ pc = "validate"
       /\ \/ /\ e = "nil"
             /\ headers' = Append(headers, Header(chain, page[i].height))
             /\ IF i < Len(page) THEN UNCHANGED <<pc, output, moments>>
                ELSE IF req.kind \in {"tip", "range"} THEN ReadDone
                ELSE pc' = "admitted" /\ UNCHANGED <<output, moments>>
             /\ UNCHANGED <<page, checked, admitted, raw, err>>
          \/ /\ e # "nil"
             /\ Fail(e)
             /\ UNCHANGED moments
          \/ /\ Fail("resolver")
             /\ UNCHANGED moments
       /\ Quiet /\ UNCHANGED view

----------------------------------------------------------------------------
(* Admitted lists, proofs, raw transactions.                               *)

ListPages(list) == {list, Reverse(list), << >>}
                   \cup (IF list = << >> THEN {}
                         ELSE {[list EXCEPT ![1].index = TxCount],
                               [list EXCEPT ![1].txid = <<@[1], TxCount>>]})

ListAnswer(a) ==
    IF req.hash # Zero /\ req.hash # a.hash THEN "not_ready" ELSE "nil"

\* Every requested transaction must be admitted; the outcome of merging
\* their proofs is the subject of BasmProof.
ProofAnswer(list) ==
    IF Range(req.txids) \subseteq Range(IDs(list)) THEN "nil" ELSE "not_found"

\* readBlock's second half, then the list's or the proof's own checks.
readAdmitted ==
    LET a == page[1]
    IN /\ pc = "admitted"
       /\ \/ /\ \E list \in ListPages(view.anchors[a.height + 1].list) :
                   LET e == IF ~ValidateAnchorList(a, list) THEN "invalid_data"
                            ELSE IF req.kind = "list" THEN ListAnswer(a)
                            ELSE ProofAnswer(list)
                   IN IF e # "nil" THEN Fail(e) /\ UNCHANGED moments
                      ELSE /\ admitted' = list
                           /\ Complete([kind |-> req.kind, anchors |-> page])
                           /\ UNCHANGED <<page, headers, checked, raw, err>>
          \/ /\ \E e \in {"invalid_data", "limit"} \cup (IF expired THEN {"timeout"} ELSE {}) : Fail(e)
             /\ UNCHANGED moments
       /\ Quiet /\ UNCHANGED view

\* One requested transaction: its bytes, missing, or bytes of another one.
appendRawTransaction ==
    LET i == Len(raw.found) + Len(raw.missing) + 1
    IN /\ pc = "raw"
       /\ \/ /\ i <= Len(req.txids) /\ ~expired
             /\ raw' \in {[raw EXCEPT !.found = Append(@, req.txids[i])],
                          [raw EXCEPT !.missing = Append(@, req.txids[i])]}
             /\ UNCHANGED <<pc, page, headers, checked, admitted, output, err, moments>>
          \/ /\ i <= Len(req.txids)
             /\ \E e \in IF expired THEN {"timeout"} ELSE {"invalid_data", "limit"} : Fail(e)
             /\ UNCHANGED moments
          \/ /\ i > Len(req.txids)
             /\ Complete([kind |-> "raw", anchors |-> << >>])
             /\ UNCHANGED <<page, headers, checked, admitted, raw, err>>
       /\ Quiet /\ UNCHANGED view

----------------------------------------------------------------------------
(* completeBASMRead, closeBASMView, and the handler's answer.              *)

RecheckNone ==
    /\ pc = "recheck"
    /\ pc' = "current"
    /\ UNCHANGED <<page, headers, checked, admitted, raw, output, err>>
    /\ Quiet /\ UNCHANGED <<view, moments>>

\* Every header once more, in order.
recheckCanonicalHeaders ==
    /\ pc = "recheck"
    /\ IF checked = Len(headers)
       THEN /\ pc' = "current"
            /\ UNCHANGED <<page, headers, checked, admitted, raw, output, err>>
       ELSE LET old == headers[checked + 1]
            IN \/ /\ Header(chain, old.height) = old
                  /\ checked' = checked + 1
                  /\ UNCHANGED <<pc, page, headers, admitted, raw, output, err>>
               \/ /\ Header(chain, old.height) # old
                  /\ Fail("not_ready")
               \/ Fail("resolver")
    /\ Quiet /\ UNCHANGED <<view, moments>>

CheckCurrent ==
    /\ pc = "current"
    /\ IF view.rev = history.rev
       THEN /\ pc' = "close"
            /\ UNCHANGED <<page, headers, checked, admitted, raw, output, err>>
       ELSE Fail("not_ready")
    /\ Quiet /\ UNCHANGED <<view, moments>>

\* On an error the caller gets the zero value, also when it is the close or
\* the deadline that failed.
closeBASMView ==
    /\ pc = "close"
    /\ view' = [open |-> FALSE]
    /\ \E closeErr \in {"nil", "close"} :
          err' = IF err # "nil" THEN err
                 ELSE IF closeErr # "nil" THEN closeErr
                 ELSE IF expired THEN "timeout" ELSE "nil"
    /\ output' = IF err' # "nil" THEN Nothing ELSE output
    /\ pc' = "reply"
    /\ Quiet /\ UNCHANGED <<page, headers, checked, admitted, raw, moments>>

\* The handler checks what the provider returned against the request and its
\* own limits.
validTip == \A k \in 1..Len(output.anchors) : output.anchors[k].count <= MaxAdmitted

validateRangeResponse ==
    /\ Len(output.anchors) = req.to - req.from + 1 /\ Len(output.anchors) <= MaxRange
    /\ \A k \in 1..Len(output.anchors) :
          /\ output.anchors[k].topic = "t"
          /\ output.anchors[k].height = req.from + k - 1
          /\ ValidAnchor(output.anchors[k])

validListIdentity ==
    /\ output.anchors[1].height = req.height
    /\ Len(admitted) <= MaxAdmitted
    /\ req.hash # Zero => output.anchors[1].hash = req.hash

validAdmitted ==
    /\ \A i \in 2..Len(admitted) : admitted[i].index > admitted[i - 1].index
    /\ IsInjective(IDs(admitted))

\* The IDs of a proof are those of the request.
validProofIdentity ==
    output.anchors[1].height = req.height /\ Len(req.txids) <= MaxTxIDs

validRawMapping ==
    /\ Len(raw.found) + Len(raw.missing) <= MaxTxIDs
    /\ IsInjective(raw.found \o raw.missing)
    /\ Range(raw.found \o raw.missing) = Range(req.txids)

\* responseBudget: about what an anchor, a reference, an ID and a transaction
\* take in JSON.  A path may be of any size: see writeJSONResponse.
ResponseSize ==
    CASE req.kind = "range" -> 5 * Len(output.anchors)
      [] req.kind = "list"  -> 2 * Len(admitted)
      [] req.kind = "proof" -> Len(req.txids)
      [] req.kind = "raw"   -> 6 * Len(raw.found) + Len(raw.missing)
      [] OTHER -> 3

\* The budget is looked at before the order of an admitted list.
validateResponse ==
    IF \/ output.kind # req.kind
       \/ req.kind = "tip" /\ ~validTip
       \/ req.kind = "range" /\ ~validateRangeResponse
       \/ req.kind = "list" /\ ~validListIdentity
       \/ req.kind = "proof" /\ ~validProofIdentity
       \/ req.kind = "raw" /\ ~validRawMapping
    THEN "invalid_data"
    ELSE IF ResponseSize > MaxResponse THEN "limit"
    ELSE IF req.kind = "list" /\ ~validAdmitted THEN "invalid_data"
    ELSE "nil"

\* writeMappedError: errors that are not the provider's own are opaque.
Status(e) == IF e \in {"close", "resolver"} THEN "invalid_data" ELSE e

\* The context goes first, then the error's status; a response is validated,
\* and measured when it is encoded, before it is sent.
writeJSONResponse ==
    /\ pc = "reply"
    /\ reply' \in IF expired THEN {"timeout"}
                  ELSE IF err # "nil" THEN {Status(err)}
                  ELSE IF validateResponse # "nil" THEN {validateResponse}
                  ELSE {"ok", "limit"}
    /\ pc' = "done"
    /\ UNCHANGED <<world, req, view, page, headers, checked, admitted, raw, output, err, expired, moments>>

Step == \/ openBASMReadView \/ readAnchors \/ validateAnchorRange \/ readAdmitted
        \/ appendRawTransaction \/ recheckCanonicalHeaders \/ CheckCurrent
        \/ closeBASMView \/ writeJSONResponse

Next ==
    \/ \E r \in Requests : Handle(r)
    \/ Step
    \/ StoreBlock
    \/ Reorg \/ StoreAnchor \/ Rollback \/ Rewrite
    \/ Expire

Spec == Init /\ [][Next]_vars

----------------------------------------------------------------------------
\* The call, the view and the response are of their types, and a view is
\* open exactly while readBASM is between opening and closing it.
TypeOK ==
    /\ chain \in Chains
    /\ pc \in {"idle", "open", "anchors", "validate", "admitted", "raw", "recheck",
               "current", "close", "reply", "done"}
    /\ view.open <=> pc \notin {"idle", "open", "reply", "done"}
    /\ checked \in 0..Len(headers) /\ Len(headers) <= MaxRange
    /\ expired \in BOOLEAN
    /\ output = Nothing \/ output.kind = req.kind

Ok == reply = "ok"

\* An answer describes one moment after the whole answer had been read: then
\* every block in it was canonical and every anchor in it was in the stored
\* history, however the chain and the history moved during the read
\* (recheckCanonicalHeaders, CheckCurrent).
ServedWasCurrent ==
    Ok => \E m \in moments :
        \A k \in 1..Len(output.anchors) :
            LET a == output.anchors[k]
            IN /\ a.hash = BlockHash(m[1], a.height)
               /\ Len(m[2].anchors) > a.height
               /\ m[2].anchors[a.height + 1].hash = a.hash
               /\ m[2].anchors[a.height + 1].root = a.root

\* A range is complete, in order, of the requested topic and linked by its
\* cumulative hashes, and a list has exactly the admitted transactions of
\* its anchor, whatever page the storage returned.
ServedIsWhole ==
    Ok =>
      /\ req.kind = "range" =>
            /\ Len(output.anchors) = req.to - req.from + 1
            /\ \A k \in 1..Len(output.anchors) :
                  /\ output.anchors[k].height = req.from + k - 1
                  /\ output.anchors[k].topic = "t"
                  /\ k > 1 => output.anchors[k].tac =
                                HashTACStep(output.anchors[k - 1].tac, output.anchors[k].hash,
                                            output.anchors[k].root)
      /\ req.kind = "list" =>
            /\ IDs(admitted) = IDs(output.anchors[1].list)
            /\ req.hash = Zero \/ req.hash = output.anchors[1].hash
      /\ req.kind = "raw" => /\ Range(raw.found) \cup Range(raw.missing) = Range(req.txids)
                             /\ Len(raw.found) + Len(raw.missing) = Len(req.txids)

\* An error never leaves a value behind for the caller, and a value is only
\* sent when the view was closed without an error in time.
ErrorHasNoOutput ==
    /\ pc \in {"reply", "done"} /\ err # "nil" => output = Nothing
    /\ Ok => output # Nothing /\ ~view.open

\* The handler's second look finds nothing wrong with what the service returned,
\* which has the same limits: it refuses an answer for its size in bytes alone, of
\* which it has an estimate of its own (validateResponse).
HandlerAgrees == pc = "reply" /\ err = "nil" => validateResponse # "invalid_data"

\* An answer of the BASM read service describes one moment after all of it had
\* been read, however the chain and the stored history moved during the read, and
\* it is whole: a range is complete, in order and linked, a list has exactly the
\* admitted transactions of its anchor, a raw answer accounts for every ID asked
\* for.  An error of readBASM or of closing the view leaves no value for the
\* caller, and the handler's validateResponse refuses what the service returns for
\* its size alone.
AnswersAreSound ==
    TypeOK /\ ServedIsWhole /\ ServedWasCurrent /\ ErrorHasNoOutput /\ HandlerAgrees

=============================================================================
