---------------------------- MODULE IdentityTopic ----------------------------
(***************************************************************************)
(* The identity topic manager and the notifications of its lookup service, *)
(* pkg/topics/identity/topic.go, output.go and lookup.go, for the outputs  *)
(* of one transaction.  The context of a call is cancelled at any time     *)
(* between two steps; an SDK call made under a cancelled context may fail  *)
(* or succeed.                                                             *)
(*                                                                         *)
(* An output is described by what ProjectOutput looks at: the length of    *)
(* its script, the number of PushDrop fields and certificate fields, and   *)
(* the checks it does not pass.  A transaction comes with the BEEF bytes   *)
(* of the submission, which the engine parses in any of their forms and    *)
(* hands to the notifications as they came.  The host delivers the         *)
(* notifications: the same one more than once, but no admission after the  *)
(* spend of the same output, as the package's README asks of it.           *)
(***************************************************************************)
EXTENDS Naturals, Sequences, FiniteSets, SequencesExt, Folds

CONSTANTS
    Txs,            \* transactions that are submitted
    ManagerPolicy,  \* AdmissionPolicy of the topic manager
    ServicePolicy,  \* AdmissionPolicy of the lookup service
    MaxDeliveries,  \* bound on notifications
    MaxFailures     \* bound on failures of the projection

Checks == {"envelope", "fields", "certificate", "signature", "verify", "decrypt"}
Output == [bytes : Nat, pushes : Nat, fields : Nat, bad : SUBSET Checks]

TopicAssumption ==
    /\ \A t \in Txs :
          t.outputs \in Seq(Output) /\ t.inputs \in Nat /\ t.beef \in Nat /\ t.atomic \in BOOLEAN
    /\ \A p \in {ManagerPolicy, ServicePolicy} :
          /\ p.MaxScriptBytes \in Nat \ {0}
          /\ p.MaxTotalScriptBytes \in Nat
          /\ p.MaxTotalScriptBytes >= p.MaxScriptBytes
          /\ {p.MaxFields, p.MaxOutputs, p.MaxNotificationBytes} \subseteq Nat \ {0}
    /\ {MaxDeliveries, MaxFailures} \subseteq Nat

VARIABLES
    tx,          \* the transaction
    cancelled,   \* whether the context of the running call is cancelled
    job,         \* the running call: op, stage and output
    admitted,    \* OutputsToAdmit of IdentifyAdmissibleOutputs
    verdict,     \* what IdentifyAdmissibleOutputs returned
    refused,     \* outputs whose notification was refused, not cancelled
    projection,  \* outputs with a record in the projection
    acked,       \* outputs whose admission was acknowledged
    spent,       \* outputs whose spend or eviction was acknowledged
    retired,     \* outputs whose spend or eviction was delivered
    used         \* counters against the bounds

vars == <<tx, cancelled, job, admitted, verdict, refused, projection, acked,
          spent, retired, used>>

NoJob == [op |-> "none", stage |-> "none", index |-> 0]
At(op, stage) == job.op = op /\ job.stage = stage
Indices == DOMAIN tx.outputs

-----------------------------------------------------------------------------
(* ProjectOutput *)

\* The six properties of the envelope are present under their exact names.
UnmarshalEnvelope(o) == "envelope" \notin o.bad

\* The fields and the keyring are objects of strings.
UnmarshalFields(o) == "fields" \notin o.bad

\* Script and field budgets, PushDrop decoding and the JSON envelope.
decodeCertificateEnvelope(o, policy) ==
    /\ o.bytes > 0
    /\ o.bytes <= policy.MaxScriptBytes
    /\ o.pushes >= 2
    /\ o.pushes - 1 <= policy.MaxFields
    /\ UnmarshalEnvelope(o)
    /\ UnmarshalFields(o)

\* Field and keyring counts, base64, public keys, revocation outpoint, signature.
certificate(o, policy) ==
    /\ o.fields <= policy.MaxFields
    /\ "certificate" \notin o.bad

\* The subject's signature over the exact PushDrop fields.
verifyEnvelopeSignature(o) == "signature" \notin o.bad

\* certificate.Verify: the certifier's signature.
VerifyCertificate(o) == "verify" \notin o.bad

\* The public fields are decrypted; there is at least one.
decryptPublicFields(o) == "decrypt" \notin o.bad /\ o.fields > 0

\* What ProjectOutput says of an output when nothing is cancelled.
Projectable(o, policy) ==
    /\ decodeCertificateEnvelope(o, policy)
    /\ certificate(o, policy)
    /\ verifyEnvelopeSignature(o)
    /\ VerifyCertificate(o)
    /\ decryptPublicFields(o)

\* The stages of ProjectOutput between two looks at the context.
Stages == <<"decode", "verify", "decrypt", "record">>

StagePasses(o, policy, stage) ==
    CASE stage = "decode"  -> decodeCertificateEnvelope(o, policy) /\ certificate(o, policy)
      [] stage = "verify"  -> verifyEnvelopeSignature(o) /\ VerifyCertificate(o)
      [] stage = "decrypt" -> decryptPublicFields(o)
      [] OTHER             -> TRUE

\* "verify" calls the SDK under the context; the others ask ctx.Err() first.
StageMaySucceed(o, policy, stage) ==
    StagePasses(o, policy, stage) /\ (cancelled => stage = "verify")
StageMayFail(o, policy, stage) ==
    cancelled \/ ~StagePasses(o, policy, stage)

NextStage(stage) == CHOOSE s \in Range(Stages) : \E i \in 1 .. 3 : Stages[i] = stage /\ Stages[i + 1] = s

-----------------------------------------------------------------------------
(* The transaction-wide checks *)

TotalScriptBytes(t) ==
    FoldLeft(LAMBDA sum, o : sum + o.bytes, 0, t.outputs)

boundSelectedOutputs(t, policy) ==
    /\ Len(t.outputs) <= policy.MaxOutputs
    /\ TotalScriptBytes(t) <= policy.MaxTotalScriptBytes

\* The entry exists with its bytes, is within the budgets, its inputs are whole
\* and its bytes have the selected txid.
selectedTransaction(t, policy) ==
    /\ t.whole
    /\ boundSelectedOutputs(t, policy)

-----------------------------------------------------------------------------
(* IdentifyAdmissibleOutputs *)

Init ==
    /\ tx \in Txs
    /\ cancelled = FALSE
    /\ job = NoJob
    /\ admitted = {}
    /\ verdict = "none"
    /\ refused = {}
    /\ projection = {}
    /\ acked = {}
    /\ spent = {}
    /\ retired = {}
    /\ used = [delivery |-> 0, failure |-> 0]

\* The caller gives up.
Cancel ==
    /\ job.op # "none"
    /\ ~cancelled
    /\ cancelled' = TRUE
    /\ UNCHANGED <<tx, job, admitted, verdict, refused, projection, acked, spent, retired, used>>

StartIdentify ==
    /\ verdict = "none"
    /\ job = NoJob
    /\ job' = [op |-> "identify", stage |-> "loop", index |-> 1]
    /\ cancelled' \in BOOLEAN
    /\ UNCHANGED <<tx, admitted, verdict, refused, projection, acked, spent, retired, used>>

EndIdentify(result) ==
    /\ verdict' = result
    /\ job' = NoJob
    /\ cancelled' = FALSE
    /\ UNCHANGED <<tx, refused, projection, acked, spent, retired, used>>

\* The entry checks and the ctx.Err() at the head of the loop and after it.
IdentifyFails ==
    /\ At("identify", "loop")
    /\ cancelled \/ ~selectedTransaction(tx, ManagerPolicy)
    /\ EndIdentify("error")
    /\ admitted' = {}

\* The body of the loop over the outputs starts.
NextOutput ==
    /\ At("identify", "loop")
    /\ ~cancelled
    /\ selectedTransaction(tx, ManagerPolicy)
    /\ tx.inputs > 0
    /\ job.index \in Indices
    /\ job' = [job EXCEPT !.stage = "decode"]
    /\ UNCHANGED <<tx, cancelled, admitted, verdict, refused, projection, acked, spent,
                   retired, used>>

\* After the last output, and at once for a transaction without inputs.
IdentifyReturns ==
    /\ At("identify", "loop")
    /\ ~cancelled
    /\ selectedTransaction(tx, ManagerPolicy)
    /\ tx.inputs = 0 \/ job.index > Len(tx.outputs)
    /\ EndIdentify("ok")
    /\ UNCHANGED admitted

\* ProjectOutput's error only skips the output, whatever its reason.
SkipOutput ==
    /\ job.op = "identify"
    /\ job.stage \in Range(Stages)
    /\ StageMayFail(tx.outputs[job.index], ManagerPolicy, job.stage)
    /\ job' = [job EXCEPT !.stage = "loop", !.index = @ + 1]
    /\ UNCHANGED <<tx, cancelled, admitted, verdict, refused, projection, acked, spent,
                   retired, used>>

AdmitOutput ==
    /\ At("identify", "record")
    /\ StageMaySucceed(tx.outputs[job.index], ManagerPolicy, job.stage)
    /\ admitted' = admitted \cup {job.index}
    /\ job' = [job EXCEPT !.stage = "loop", !.index = @ + 1]
    /\ UNCHANGED <<tx, cancelled, verdict, refused, projection, acked, spent, retired, used>>

PolicyOf(op) == IF op = "identify" THEN ManagerPolicy ELSE ServicePolicy

\* ProjectOutput, for either caller, goes on to its next stage.
ProjectStep ==
    /\ job.stage \in Range(Stages) \ {"record"}
    /\ StageMaySucceed(tx.outputs[job.index], PolicyOf(job.op), job.stage)
    /\ job' = [job EXCEPT !.stage = NextStage(job.stage)]
    /\ UNCHANGED <<tx, cancelled, admitted, verdict, refused, projection, acked, spent,
                   retired, used>>

-----------------------------------------------------------------------------
(* Notifications *)

\* OutputAdmittedByTopic is called for an output the manager admitted.
StartNotify(i) ==
    /\ verdict = "ok"
    /\ job = NoJob
    /\ i \in admitted \ retired
    /\ used.delivery < MaxDeliveries
    /\ used' = [used EXCEPT !.delivery = @ + 1]
    /\ job' = [op |-> "notify", stage |-> "entry", index |-> i]
    /\ cancelled' \in BOOLEAN
    /\ UNCHANGED <<tx, admitted, verdict, refused, projection, acked, spent, retired>>

\* NewBeefFromAtomicBytes takes the atomic form only, where ParseBeef takes BEEF of
\* either version too; its error and its recovered panic refuse the notification.
parseNotificationBEEF(t) == t.atomic

\* The notification's BEEF is within its budget, is atomic BEEF and has the output.
NotificationOK ==
    /\ tx.beef <= ServicePolicy.MaxNotificationBytes
    /\ parseNotificationBEEF(tx)
    /\ selectedTransaction(tx, ServicePolicy)
    /\ job.index \in Indices
    /\ tx.inputs > 0

NotifyEntry ==
    /\ At("notify", "entry")
    /\ ~cancelled
    /\ NotificationOK
    /\ job' = [job EXCEPT !.stage = "decode"]
    /\ UNCHANGED <<tx, cancelled, admitted, verdict, refused, projection, acked, spent,
                   retired, used>>

EndCall ==
    /\ job' = NoJob
    /\ cancelled' = FALSE
    /\ UNCHANGED <<tx, admitted, verdict, retired>>

\* Every error of the callback is returned: nothing is acknowledged.
NotifyFails ==
    /\ job.op = "notify"
    /\ \/ job.stage = "entry" /\ (cancelled \/ ~NotificationOK)
       \/ /\ job.stage \in Range(Stages)
          /\ StageMayFail(tx.outputs[job.index], ServicePolicy, job.stage)
    /\ refused' = IF cancelled THEN refused ELSE refused \cup {job.index}
    /\ EndCall
    /\ UNCHANGED <<projection, acked, spent, used>>

\* Upsert succeeds: the callback acknowledges the admission.
Upsert ==
    /\ At("notify", "record")
    /\ StageMaySucceed(tx.outputs[job.index], ServicePolicy, job.stage)
    /\ projection' = projection \cup {job.index}
    /\ acked' = acked \cup {job.index}
    /\ EndCall
    /\ UNCHANGED <<refused, spent, used>>

\* Upsert fails, before or after the record was written.
UpsertFails ==
    /\ At("notify", "record")
    /\ StageMaySucceed(tx.outputs[job.index], ServicePolicy, job.stage)
    /\ used.failure < MaxFailures
    /\ used' = [used EXCEPT !.failure = @ + 1]
    /\ projection' \in {projection, projection \cup {job.index}}
    /\ EndCall
    /\ UNCHANGED <<refused, acked, spent>>

\* OutputSpent for tm_identity and OutputEvicted; from now on the host does not
\* deliver the admission again.
StartRemove(i) ==
    /\ verdict = "ok"
    /\ job = NoJob
    /\ i \in admitted
    /\ used.delivery < MaxDeliveries
    /\ used' = [used EXCEPT !.delivery = @ + 1]
    /\ job' = [op |-> "remove", stage |-> "entry", index |-> i]
    /\ cancelled' \in BOOLEAN
    /\ retired' = retired \cup {i}
    /\ UNCHANGED <<tx, admitted, verdict, refused, projection, acked, spent>>

\* The delete is acknowledged although the caller had given up.
DeleteUnchecked ==
    /\ At("remove", "entry")
    /\ projection' = IF cancelled THEN projection ELSE projection \ {job.index}
    /\ spent' = spent \cup {job.index}
    /\ EndCall
    /\ UNCHANGED <<refused, acked, used>>

DeleteRecord ==
    /\ At("remove", "entry")
    /\ ~cancelled
    /\ projection' = projection \ {job.index}
    /\ spent' = spent \cup {job.index}
    /\ EndCall
    /\ UNCHANGED <<refused, acked, used>>

\* The context is cancelled, or the projection fails with or without deleting.
RemoveFails ==
    /\ At("remove", "entry")
    /\ \/ cancelled /\ UNCHANGED <<projection, used>>
       \/ /\ used.failure < MaxFailures
          /\ used' = [used EXCEPT !.failure = @ + 1]
          /\ projection' \in {projection, projection \ {job.index}}
    /\ EndCall
    /\ UNCHANGED <<refused, acked, spent>>

\* OutputNoLongerRetainedInHistory, OutputBlockHeightUpdated, and the
\* notifications of other topics, change nothing.
NotifyOther(i) ==
    /\ verdict = "ok"
    /\ job = NoJob
    /\ used.delivery < MaxDeliveries
    /\ used' = [used EXCEPT !.delivery = @ + 1]
    /\ UNCHANGED <<tx, cancelled, job, admitted, verdict, refused, projection, acked,
                   spent, retired>>

-----------------------------------------------------------------------------
JobStep ==
    \/ IdentifyFails
    \/ NextOutput
    \/ IdentifyReturns
    \/ SkipOutput
    \/ AdmitOutput
    \/ ProjectStep
    \/ NotifyEntry
    \/ NotifyFails
    \/ Upsert
    \/ UpsertFails
    \/ DeleteRecord
    \/ RemoveFails

Next ==
    \/ StartIdentify
    \/ Cancel
    \/ JobStep
    \/ \E i \in Indices : StartNotify(i) \/ StartRemove(i) \/ NotifyOther(i)

Spec == Init /\ [][Next]_vars

-----------------------------------------------------------------------------
TypeOK ==
    /\ tx \in Txs
    /\ cancelled \in BOOLEAN
    /\ job.op \in {"none", "identify", "notify", "remove"}
    /\ job.stage \in Range(Stages) \cup {"none", "loop", "entry"}
    /\ job.stage \in Range(Stages) => job.index \in Indices
    /\ verdict \in {"none", "ok", "error"}
    /\ admitted \cup refused \cup projection \cup acked \cup spent \cup retired \subseteq Indices
    /\ spent \subseteq retired
    /\ acked \subseteq admitted

(***************************************************************************)
(* IdentifyAdmissibleOutputs admits every output that ProjectOutput        *)
(* accepts or returns an error and admits none: an output that was skipped *)
(* because the context was cancelled in the middle of its validation is    *)
(* never taken for an invalid one.                                         *)
(***************************************************************************)
AdmitsAllOrFails ==
    /\ verdict = "ok" =>
          admitted = IF tx.inputs = 0 THEN {}
                     ELSE {i \in Indices : Projectable(tx.outputs[i], ManagerPolicy)}
    /\ verdict = "error" => admitted = {}

(***************************************************************************)
(* When the manager and the lookup service have the same policy, what the  *)
(* service finds wrong with an admitted output is the form of its          *)
(* notification: over MaxNotificationBytes, or submitted as other than     *)
(* atomic BEEF.  Otherwise only a cancelled context or a failing           *)
(* projection keeps it out of the index.                                   *)
(***************************************************************************)
AdmittedIsProjected ==
    \A i \in refused : tx.beef > ServicePolicy.MaxNotificationBytes \/ ~tx.atomic

(***************************************************************************)
(* What lookup.go:114 says of parseNotificationBEEF: it is only given      *)
(* atomic BEEF that the engine produced, so that a notification within its *)
(* budget is not refused.                                                  *)
(***************************************************************************)
OnlyAtomicBEEF ==
    \A i \in refused : tx.beef > ServicePolicy.MaxNotificationBytes

(***************************************************************************)
(* The index holds the current outputs: an acknowledged admission is found *)
(* until the output is retired, and an acknowledged spend or eviction is   *)
(* never found again, although notifications are repeated and cancelled.   *)
(***************************************************************************)
ProjectionIsCurrent ==
    /\ acked \ retired \subseteq projection
    /\ projection \cap spent = {}
    /\ projection \subseteq admitted

\* The manager's verdict, the service's acknowledgements and the index agree,
\* wherever the context of a call is cancelled and whatever is delivered twice.
ProjectionFollowsAdmission ==
    TypeOK /\ AdmitsAllOrFails /\ AdmittedIsProjected /\ ProjectionIsCurrent

=============================================================================
