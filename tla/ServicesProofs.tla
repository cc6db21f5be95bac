--------------------------- MODULE ServicesProofs ---------------------------
(***************************************************************************)
(* Proofs about EngineRegistry, IdentityTopic, LookupHistory and           *)
(* IdentityQuery.                                                          *)
(*                                                                         *)
(* The registry, for any number of goroutines that use it or run           *)
(* SyncAdvertisements, any names and any failures: a call that nothing has *)
(* disturbed shares the current registry with every other call in flight.  *)
(* So while it goes on, no step takes back an advertisement of a           *)
(* registered name or publishes one of a name that is not registered, and  *)
(* what it found missing or unwanted covers all that still is.             *)
(*                                                                         *)
(* The identity topic, for every transaction, every number of outputs,     *)
(* deliveries and failures and every policy that the manager and the       *)
(* lookup service share, as NewTopicManager and NewLookupService do: the   *)
(* argument follows the running call.  While the manager walks over        *)
(* the outputs, everything it has admitted below its index passed every    *)
(* stage of ProjectOutput, and nothing that would pass was left out unless *)
(* the context is cancelled; a cancelled context never becomes live again  *)
(* before the verdict, and the check after the loop turns it into an       *)
(* error.  While the service handles a notification, its output is one the *)
(* manager admitted and nobody has retired.                                *)
(*                                                                         *)
(* Lookup, for any outputs, topics, selectors and formulas, and whatever   *)
(* other requests store and delete: the stack is a chain of outputs, each  *)
(* consumed by the one below it.  A path that has to be found starts, at   *)
(* each frame, with an output that is still to be visited, or the frame    *)
(* holds it, or it starts with the output of the frame above; a path that  *)
(* must be found at the end has had to be found all along.                 *)
(*                                                                         *)
(* Identity queries, for every policy, index and question: the compiled    *)
(* query matches exactly the records that the question means, an empty one *)
(* means no record, and the numbers decide how many of them a projection   *)
(* that keeps to its limit can have left out.                              *)
(***************************************************************************)
EXTENDS IdentityTopic, EngineRegistry, LookupHistory, IdentityQuery,
        SequenceTheorems, FiniteSetTheorems, TLAPS

-----------------------------------------------------------------------------
(* The registry: the inductive invariant *)

Phases == {"idle", "SHIP", "SLAP", "create", "revoke", "done"}

Call == [op : {"idle", "change", "document", "list"}, kind : Protocols,
         name : SUBSET Names, add : BOOLEAN, done : SUBSET Names]
NameSets == [Protocols -> SUBSET Names]
SyncCall == [pc : Phases, need : NameSets, create : NameSets, revoke : SUBSET Advertisement,
             number : 0 .. MaxSyncs, disturbed : BOOLEAN]

SharedTypes ==
  /\ registered \in NameSets
  /\ readers \subseteq Callers
  /\ waiting \subseteq Callers
  /\ ads \subseteq Advertisement
  /\ tally \in [change : Nat, sync : 0 .. MaxSyncs, failure : Nat, overlap : Nat]

CallTypes == call \in [Callers -> Call]
SyncTypes == sync \in [Syncers -> SyncCall]

\* Who waits for the lock and who holds it for reading.
LockInv ==
  \A c \in Callers :
    /\ c \in waiting <=> call[c].op = "change"
    /\ c \in readers <=> call[c].op = "list"

\* Whether call s has asked FindAllAdvertisements for protocol p.
HasFound(s, p) ==
  \/ sync[s].pc \in {"create", "revoke", "done"}
  \/ sync[s].pc = "SLAP" /\ p = "SHIP"

\* What a call wants to create it needs, and what it wants to revoke it does not.
Planned(s) ==
  /\ \A p \in Protocols : sync[s].create[p] \subseteq sync[s].need[p]
  /\ \A ad \in sync[s].revoke : ad.name \notin sync[s].need[ad.protocol]

PlanInv == \A s \in Syncers : Planned(s)

\* An undisturbed call shares the registry with every call in flight.
SnapshotInv ==
  \A s, t \in Syncers :
    sync[s].pc # "idle" /\ ~sync[s].disturbed /\ sync[t].pc # "idle" =>
      sync[t].need = registered

\* Its findings cover what is still missing or unwanted.
CoverInv ==
  \A s \in Syncers : sync[s].pc # "idle" /\ ~sync[s].disturbed =>
    \A p \in Protocols :
      /\ HasFound(s, p) => Missing(registered, p) \subseteq sync[s].create[p]
      /\ HasFound(s, p) => Unwanted(registered, p) \subseteq sync[s].revoke
      /\ sync[s].pc \in {"revoke", "done"} => Missing(registered, p) = {}
      /\ sync[s].pc = "done" => Unwanted(registered, p) = {}

\* What call s found missing has not been published since.
Fresh(s) ==
  \A p \in Protocols : \A ad \in ads :
    /\ sync[s].pc \in {"SLAP", "create"} /\ HasFound(s, p)
    /\ ad.protocol = p /\ ad.domain = "HostingURL"
    => ad.name \notin sync[s].create[p]

\* As long as no two calls have overlapped, at most one is in flight, no name is
\* published twice, and what was found missing has not been published since.
OnceInv ==
  tally.overlap = 0 =>
    /\ OneAdPerName
    /\ \A s, t \in Syncers : InFlight(s) /\ InFlight(t) => s = t
    /\ \A s \in Syncers : Fresh(s)

RegistryIInv ==
  /\ SharedTypes /\ CallTypes /\ SyncTypes /\ LockInv /\ PlanInv
  /\ SnapshotInv /\ CoverInv /\ OnceInv /\ ListIsOneMoment

-----------------------------------------------------------------------------
(* The registry: the initial state *)

\* Whatever is registered and published when the engine starts.
LEMMA RegistryInitially == ASSUME RegistryAssumption, RegistryInit PROVE RegistryIInv
<1> USE DEF RegistryInit
<1>1. NoSets \in NameSets
  BY DEF NoSets, NameSets
<1>2. SharedTypes
  BY DEF SharedTypes, RegistryAssumption, NameSets
<1>3. CallTypes
  BY DEF CallTypes, Call, Idle, Protocols
<1>4. NotSync \in SyncCall
  BY <1>1 DEF NotSync, SyncCall, RegistryAssumption, Phases
<1>5. SyncTypes
  BY <1>4 DEF SyncTypes
<1>6. LockInv /\ ListIsOneMoment
  BY DEF LockInv, Idle, ListIsOneMoment
<1>7. PlanInv
  BY DEF PlanInv, Planned, NotSync, NoSets
<1>8. SnapshotInv /\ CoverInv
  BY DEF SnapshotInv, CoverInv, NotSync
<1>9. OneAdPerName
  BY DEF OneAdPerName, RegistryAssumption, Advertisement
<1>10. OnceInv
  BY <1>9 DEF OnceInv, NotSync, Fresh, InFlight
<1>11. QED
  BY <1>2, <1>3, <1>5, <1>6, <1>7, <1>8, <1>10 DEF RegistryIInv

-----------------------------------------------------------------------------
(* The steps of a caller of the registry *)

CallerStep(c) ==
  \/ \E kind \in Protocols, name \in Names :
        \/ \E add \in BOOLEAN : RequestChange(c, kind, name, add)
        \/ GetReference(c, kind, name)
  \/ \E kind \in Protocols : StartList(c, kind)
  \/ CallStep(c)

\* A step is one of a caller of the registry or of a SyncAdvertisements call.
LEMMA RegistrySteps ==
  ASSUME [RegistryNext]_registryVars
  PROVE  \/ \E c \in Callers : CallerStep(c)
         \/ \E s \in Syncers : StartSync(s) \/ SyncStep(s)
         \/ UNCHANGED registryVars
BY DEF RegistryNext, CallerStep

\* Only the body of Register* and Unregister* changes the registry, and it runs
\* while nobody reads.
LEMMA CallerLeaves ==
  ASSUME SharedTypes, NEW c \in Callers, CallerStep(c)
  PROVE  /\ ads' = ads
         /\ tally'.overlap = tally.overlap
         /\ ~ApplyChange(c) => UNCHANGED <<registered, sync>>
         /\ ApplyChange(c) => Disturb /\ readers = {}
BY DEF CallerStep, CallStep, RequestChange, GetReference, StartList, ApplyChange, WriteLock,
       GetDocumentation, CallMetaData, MetaDataReturns, EndList, SharedTypes, Count

\* The records of the callers keep their types.
LEMMA CallerTypes ==
  ASSUME RegistryAssumption, RegistryIInv, NEW c \in Callers, CallerStep(c)
  PROVE  SharedTypes' /\ CallTypes'
<1> USE DEF RegistryIInv, SharedTypes, CallTypes
<1>1. Idle \in Call
  BY DEF Idle, Call, Protocols
<1>2. ASSUME NEW kind \in Protocols, NEW name \in Names, NEW add \in BOOLEAN,
             RequestChange(c, kind, name, add)
      PROVE  SharedTypes' /\ CallTypes'
  <2>1. [op |-> "change", kind |-> kind, name |-> {name}, add |-> add, done |-> {}] \in Call
    BY <1>2 DEF Call
  <2>2. CallTypes'
    BY <1>2, <2>1 DEF RequestChange
  <2>3. SharedTypes'
    BY <1>2 DEF RequestChange, Count
  <2>4. QED
    BY <2>2, <2>3
<1>3. ASSUME NEW kind \in Protocols, NEW name \in Names, GetReference(c, kind, name)
      PROVE  SharedTypes' /\ CallTypes'
  <2>1. [op |-> "document", kind |-> kind, name |-> {name}, add |-> FALSE, done |-> {}] \in Call
    BY <1>3 DEF Call
  <2>2. QED
    BY <1>3, <2>1 DEF GetReference
<1>4. ASSUME NEW kind \in Protocols, StartList(c, kind)
      PROVE  SharedTypes' /\ CallTypes'
  <2>1. [op |-> "list", kind |-> kind, name |-> {}, add |-> FALSE, done |-> {}] \in Call
    BY <1>4 DEF Call
  <2>2. QED
    BY <1>4, <2>1 DEF StartList
<1>5. ASSUME ApplyChange(c) PROVE SharedTypes' /\ CallTypes'
  <2>1. call[c].name \subseteq Names /\ call[c].kind \in Protocols
    BY DEF Call
  <2>2. registered' \in NameSets
    BY <1>5, <2>1 DEF ApplyChange, NameSets
  <2>3. QED
    BY <1>1, <1>5, <2>2 DEF ApplyChange
<1>6. ASSUME GetDocumentation(c) \/ EndList(c) PROVE SharedTypes' /\ CallTypes'
  BY <1>1, <1>6 DEF GetDocumentation, EndList
<1>7. ASSUME NEW name \in Names, CallMetaData(c, name) PROVE SharedTypes' /\ CallTypes'
  <2>1. [call[c] EXCEPT !.name = {name}] \in Call
    BY DEF Call
  <2>2. QED
    BY <1>7, <2>1 DEF CallMetaData
<1>8. ASSUME MetaDataReturns(c) PROVE SharedTypes' /\ CallTypes'
  <2>1. [call[c] EXCEPT !.done = @ \cup call[c].name, !.name = {}] \in Call
    BY DEF Call
  <2>2. call' = [call EXCEPT ![c] = [call[c] EXCEPT !.done = @ \cup call[c].name, !.name = {}]]
    BY <1>8 DEF MetaDataReturns
  <2>3. QED
    BY <1>8, <2>1, <2>2 DEF MetaDataReturns
<1>9. QED
  BY <1>2, <1>3, <1>4, <1>5, <1>6, <1>7, <1>8 DEF CallerStep, CallStep

\* Lock and RLock, their releases, and what a list method has reported.
LEMMA CallerLocks ==
  ASSUME RegistryIInv, NEW c \in Callers, CallerStep(c)
  PROVE  LockInv' /\ ListIsOneMoment'
<1> USE DEF RegistryIInv, CallTypes, Call, LockInv, ListIsOneMoment, SharedTypes
<1>1. ASSUME NEW kind \in Protocols, NEW name \in Names, NEW add \in BOOLEAN,
             RequestChange(c, kind, name, add) \/ GetReference(c, kind, name)
      PROVE  LockInv' /\ ListIsOneMoment'
  BY <1>1 DEF RequestChange, GetReference
<1>2. ASSUME NEW kind \in Protocols, StartList(c, kind) PROVE LockInv' /\ ListIsOneMoment'
  BY <1>2 DEF StartList
<1>3. ASSUME ApplyChange(c) PROVE LockInv' /\ ListIsOneMoment'
  BY <1>3 DEF ApplyChange, WriteLock, Idle
<1>4. ASSUME GetDocumentation(c) \/ EndList(c) PROVE LockInv' /\ ListIsOneMoment'
  BY <1>4 DEF GetDocumentation, EndList, Idle
<1>5. ASSUME NEW name \in Names, CallMetaData(c, name) PROVE LockInv' /\ ListIsOneMoment'
  BY <1>5 DEF CallMetaData
<1>6. ASSUME MetaDataReturns(c) PROVE LockInv' /\ ListIsOneMoment'
  BY <1>6 DEF MetaDataReturns
<1>7. QED
  BY <1>1, <1>2, <1>3, <1>4, <1>5, <1>6 DEF CallerStep, CallStep

\* What a registration does to the calls in flight.
LEMMA Disturbed ==
  ASSUME SyncTypes, Disturb, NEW s \in Syncers
  PROVE  /\ sync'[s].pc = sync[s].pc /\ sync'[s].need = sync[s].need
         /\ sync'[s].create = sync[s].create /\ sync'[s].revoke = sync[s].revoke
         /\ sync[s].pc # "idle" => sync'[s].disturbed
         /\ sync'[s] \in SyncCall
BY DEF SyncTypes, SyncCall, Disturb

\* A caller of the registry never makes a finding wrong: it disturbs the call.
LEMMA CallerAndSyncs ==
  ASSUME RegistryIInv, NEW c \in Callers, CallerStep(c)
  PROVE  SyncTypes' /\ PlanInv' /\ SnapshotInv' /\ CoverInv' /\ OnceInv'
<1> USE DEF RegistryIInv
<1>1. CASE ApplyChange(c)
  <2>1. ads' = ads /\ Disturb
    BY <1>1, CallerLeaves
  <2>2. SyncTypes'
    BY <2>1, Disturbed DEF SyncTypes, Disturb
  <2>3. PlanInv'
    BY <2>1, Disturbed DEF PlanInv, Planned
  <2>4. SnapshotInv' /\ CoverInv'
    BY <2>1, Disturbed DEF SnapshotInv, CoverInv
  <2>5. OnceInv'
    BY <2>1, Disturbed, CallerLeaves DEF OnceInv, OneAdPerName, HasFound, Fresh, InFlight
  <2>6. QED
    BY <2>2, <2>3, <2>4, <2>5
<1>2. CASE ~ApplyChange(c)
  <2>1. UNCHANGED <<registered, sync, ads>>
    BY <1>2, CallerLeaves
  <2>2. SyncTypes' /\ PlanInv' /\ SnapshotInv'
    BY <2>1 DEF SyncTypes, PlanInv, Planned, SnapshotInv
  <2>3. CoverInv'
    BY <2>1 DEF CoverInv, HasFound, Missing, Unwanted
  <2>4. OnceInv'
    BY <2>1, CallerLeaves DEF OnceInv, HasFound, OneAdPerName, Fresh, InFlight
  <2>5. QED
    BY <2>2, <2>3, <2>4
<1>3. QED
  BY <1>1, <1>2

-----------------------------------------------------------------------------
(* The steps of SyncAdvertisements *)

\* Only this call moves.
OnlyCall(s) ==
  /\ UNCHANGED <<registered, readers, waiting, call>>
  /\ sync' = [sync EXCEPT ![s] = sync'[s]]

\* Assigning the record of one call.
LEMMA AssignCall ==
  ASSUME SyncTypes, NEW s \in Syncers, NEW step, Next1(s, step)
  PROVE  /\ sync'[s] = step
         /\ sync' = [sync EXCEPT ![s] = sync'[s]]
BY DEF SyncTypes, Next1

Publish(s) == Create(s) \/ CreateRefused(s) \/ CreateFails(s)
Withdraw(s) == Revoke(s) \/ RevokeRefused(s) \/ RevokeFails(s)

\* A call on its way keeps its plan, and a failure disturbs it.
Onward(s, next) ==
  /\ sync'[s] \in SyncCall
  /\ sync'[s].pc = next
  /\ sync'[s].need = sync[s].need
  /\ sync'[s].create = sync[s].create
  /\ sync'[s].revoke = sync[s].revoke
  /\ sync[s].disturbed => sync'[s].disturbed

\* The record of a call after its phase, or its phase and a failure.
LEMMA OnwardRecord ==
  ASSUME SyncTypes, NEW s \in Syncers, NEW next \in Phases,
         \/ sync'[s] = [sync[s] EXCEPT !.pc = next]
         \/ sync'[s] = [sync[s] EXCEPT !.pc = next, !.disturbed = TRUE]
  PROVE  Onward(s, next)
<1>1. sync[s] \in SyncCall
  BY DEF SyncTypes
<1>2. CASE sync'[s] = [sync[s] EXCEPT !.pc = next]
  BY <1>1, <1>2 DEF Onward, SyncCall
<1>3. CASE sync'[s] = [sync[s] EXCEPT !.pc = next, !.disturbed = TRUE]
  BY <1>1, <1>3 DEF Onward, SyncCall
<1>4. QED
  BY <1>2, <1>3

\* CreateAdvertisements and its Submit, whatever comes of them.
LEMMA PublishMoves ==
  ASSUME RegistryIInv, NEW s \in Syncers, Publish(s)
  PROVE  /\ OnlyCall(s)
         /\ Onward(s, "revoke")
         /\ sync[s].pc = "create"
         /\ ~Create(s) => sync'[s].disturbed
         /\ ads' \subseteq ads \cup ToCreate(s)
         /\ ads \subseteq ads'
         /\ tally' \in [change : Nat, sync : 0 .. MaxSyncs, failure : Nat, overlap : Nat]
<1> USE DEF RegistryIInv, SharedTypes
<1>a. "revoke" \in Phases /\ sync[s] \in SyncCall
  BY DEF Phases, SyncTypes
<1>1. CASE Create(s)
  <2>1. sync'[s] = [sync[s] EXCEPT !.pc = "revoke"] /\ OnlyCall(s)
    BY <1>1, AssignCall DEF Create, OnlyCall
  <2>2. Onward(s, "revoke")
    BY <1>a, <2>1, OnwardRecord
  <2>3. QED
    BY <1>1, <2>1, <2>2 DEF Create
<1>2. CASE CreateRefused(s) \/ CreateFails(s)
  <2>1. sync'[s] = [sync[s] EXCEPT !.pc = "revoke", !.disturbed = TRUE] /\ OnlyCall(s)
    BY <1>2, AssignCall DEF CreateRefused, CreateFails, OnlyCall
  <2>2. Onward(s, "revoke")
    BY <1>a, <2>1, OnwardRecord
  <2>3. sync'[s].disturbed
    BY <1>a, <2>1 DEF SyncCall
  <2>4. QED
    BY <1>2, <2>1, <2>2, <2>3 DEF CreateRefused, CreateFails, Count
<1>3. QED
  BY <1>1, <1>2 DEF Publish

\* RevokeAdvertisements and its Submit, whatever comes of them.
LEMMA WithdrawMoves ==
  ASSUME RegistryIInv, NEW s \in Syncers, Withdraw(s)
  PROVE  /\ OnlyCall(s)
         /\ Onward(s, "done")
         /\ sync[s].pc = "revoke"
         /\ ~Revoke(s) => sync'[s].disturbed
         /\ ads' \subseteq ads
         /\ ads \subseteq ads' \cup sync[s].revoke
         /\ tally' \in [change : Nat, sync : 0 .. MaxSyncs, failure : Nat, overlap : Nat]
<1> USE DEF RegistryIInv, SharedTypes
<1>a. "done" \in Phases /\ sync[s] \in SyncCall
  BY DEF Phases, SyncTypes
<1>1. CASE Revoke(s)
  <2>1. sync'[s] = [sync[s] EXCEPT !.pc = "done"] /\ OnlyCall(s)
    BY <1>1, AssignCall DEF Revoke, OnlyCall
  <2>2. Onward(s, "done")
    BY <1>a, <2>1, OnwardRecord
  <2>3. QED
    BY <1>1, <2>1, <2>2 DEF Revoke
<1>2. CASE RevokeRefused(s) \/ RevokeFails(s)
  <2>1. sync'[s] = [sync[s] EXCEPT !.pc = "done", !.disturbed = TRUE] /\ OnlyCall(s)
    BY <1>2, AssignCall DEF RevokeRefused, RevokeFails, OnlyCall
  <2>2. Onward(s, "done")
    BY <1>a, <2>1, OnwardRecord
  <2>3. sync'[s].disturbed
    BY <1>a, <2>1 DEF SyncCall
  <2>4. QED
    BY <1>2, <2>1, <2>2, <2>3 DEF RevokeRefused, RevokeFails, Count
<1>3. QED
  BY <1>1, <1>2 DEF Withdraw

\* FindAllAdvertisements for one protocol adds to the plan.
LEMMA FindMoves ==
  ASSUME RegistryIInv, NEW s \in Syncers, NEW p \in Protocols, Find(s, p)
  PROVE  /\ OnlyCall(s)
         /\ ads' = ads
         /\ sync[s].pc = p
         /\ sync'[s].pc = IF p = "SHIP" THEN "SLAP" ELSE "create"
         /\ sync'[s].need = sync[s].need
         /\ sync'[s].create = [sync[s].create EXCEPT ![p] = Missing(sync[s].need, p)]
         /\ sync'[s].revoke = sync[s].revoke \cup Unwanted(sync[s].need, p)
         /\ sync'[s].disturbed = sync[s].disturbed
         /\ sync'[s] \in SyncCall
<1> USE DEF RegistryIInv, SyncTypes
<1>a. sync[s] \in SyncCall
  OBVIOUS
<1>1. sync'[s] = [sync[s] EXCEPT
                    !.pc = IF p = "SHIP" THEN "SLAP" ELSE "create",
                    !.create[p] = Missing(sync[s].need, p),
                    !.revoke = @ \cup Unwanted(sync[s].need, p)]
  BY AssignCall DEF Find
<1>2. OnlyCall(s)
  BY AssignCall DEF Find, OnlyCall
<1>3. Missing(sync[s].need, p) \subseteq Names
  BY <1>a DEF Missing, SyncCall, NameSets
<1>4. [sync[s].create EXCEPT ![p] = Missing(sync[s].need, p)] \in NameSets
  BY <1>a, <1>3 DEF SyncCall, NameSets
<1>5. sync[s].revoke \cup Unwanted(sync[s].need, p) \in SUBSET Advertisement
  BY <1>a DEF Unwanted, SyncCall, SharedTypes
<1>6. sync'[s] = [pc |-> IF p = "SHIP" THEN "SLAP" ELSE "create",
                  need |-> sync[s].need,
                  create |-> [sync[s].create EXCEPT ![p] = Missing(sync[s].need, p)],
                  revoke |-> sync[s].revoke \cup Unwanted(sync[s].need, p),
                  number |-> sync[s].number, disturbed |-> sync[s].disturbed]
  BY <1>a, <1>1 DEF SyncCall
<1>7. sync'[s] \in SyncCall
  BY <1>a, <1>4, <1>5, <1>6 DEF SyncCall, Phases
<1>8. QED
  BY <1>2, <1>6, <1>7 DEF Find

\* The call begins with the registry as it is, or is over.
LEMMA ResetMoves ==
  ASSUME RegistryAssumption, RegistryIInv, NEW s \in Syncers, StartSync(s) \/ FindFails(s) \/ Return(s)
  PROVE  /\ OnlyCall(s)
         /\ ads' = ads
         /\ sync'[s] \in SyncCall
         /\ sync'[s].create = NoSets /\ sync'[s].revoke = {}
         /\ tally' \in [change : Nat, sync : 0 .. MaxSyncs, failure : Nat, overlap : Nat]
         /\ StartSync(s) => sync'[s].pc = "SHIP" /\ sync'[s].need = registered
         /\ ~StartSync(s) => sync'[s].pc = "idle" /\ sync[s].pc # "idle"
<1> USE DEF RegistryIInv, SharedTypes
<1>a. NotSync \in SyncCall
  BY DEF NotSync, SyncCall, RegistryAssumption, Phases, NoSets, NameSets
<1>1. CASE StartSync(s)
  <2> DEFINE other == \E t \in Syncers \ {s} : InFlight(t) /\ sync[t].need # registered
  <2>1. tally.sync + 1 \in 0 .. MaxSyncs
    BY <1>1 DEF StartSync, Left, RegistryAssumption
  <2>2. tally' \in [change : Nat, sync : 0 .. MaxSyncs, failure : Nat, overlap : Nat]
    <3>1. PICK more \in Nat : more = IF AnotherInFlight(s) THEN 1 ELSE 0
      OBVIOUS
    <3>2. tally' = [tally EXCEPT !.sync = @ + 1, !.overlap = @ + more]
      BY <1>1, <3>1 DEF StartSync
    <3>3. tally.overlap + more \in Nat
      BY <3>1
    <3>4. QED
      BY <2>1, <3>2, <3>3
  <2>3. /\ sync'[s] = [NotSync EXCEPT !.pc = "SHIP", !.need = registered,
                                     !.number = tally.sync + 1, !.disturbed = other]
        /\ OnlyCall(s) /\ ads' = ads
    BY <1>1, AssignCall DEF StartSync, OnlyCall
  <2>4. other \in BOOLEAN
    OBVIOUS
  <2>5. sync'[s] = [pc |-> "SHIP", need |-> registered, create |-> NoSets, revoke |-> {},
                    number |-> tally.sync + 1, disturbed |-> other]
    BY <2>3 DEF NotSync
  <2> HIDE DEF other
  <2>6. sync'[s] \in SyncCall
    BY <1>a, <2>1, <2>4, <2>5 DEF SyncCall, Phases, NotSync
  <2>7. /\ sync'[s].create = NoSets /\ sync'[s].revoke = {}
        /\ sync'[s].pc = "SHIP" /\ sync'[s].need = registered
    BY <2>5
  <2>8. QED
    BY <1>1, <2>2, <2>3, <2>6, <2>7
<1>2. CASE FindFails(s) \/ Return(s)
  <2>1. sync'[s] = NotSync /\ OnlyCall(s) /\ ads' = ads
    BY <1>2, AssignCall DEF FindFails, Return, OnlyCall
  <2>2. tally' \in [change : Nat, sync : 0 .. MaxSyncs, failure : Nat, overlap : Nat]
    BY <1>2 DEF FindFails, Return, Count
  <2>3. sync[s].pc # "idle"
    BY <1>2 DEF FindFails, Return, Protocols
  <2>4. ~StartSync(s)
    BY <2>3 DEF StartSync, InFlight
  <2>5. QED
    BY <1>a, <2>1, <2>2, <2>3, <2>4 DEF NotSync
<1>3. QED
  BY <1>1, <1>2

\* The steps of SyncAdvertisements by what they do.
LEMMA SyncKinds ==
  ASSUME NEW s \in Syncers, StartSync(s) \/ SyncStep(s)
  PROVE  \/ StartSync(s) \/ FindFails(s) \/ Return(s)
         \/ \E p \in Protocols : Find(s, p)
         \/ Publish(s) \/ Withdraw(s)
BY DEF SyncStep, Publish, Withdraw

\* A step of SyncAdvertisements moves its own call only, publishes nothing but what
\* it was to create and takes back nothing but what it was to revoke.
LEMMA SyncMoves ==
  ASSUME RegistryAssumption, RegistryIInv, NEW s \in Syncers, StartSync(s) \/ SyncStep(s)
  PROVE  /\ OnlyCall(s)
         /\ ads' \subseteq ads \cup ToCreate(s)
         /\ ads \subseteq ads' \cup sync[s].revoke
         /\ StartSync(s) \/ sync[s].pc # "idle"
         /\ StartSync(s) => ads' = ads
         /\ sync'[s] \in SyncCall
<1>1. CASE StartSync(s) \/ FindFails(s) \/ Return(s)
  BY <1>1, ResetMoves
<1>2. CASE \E p \in Protocols : Find(s, p)
  BY <1>2, FindMoves DEF Protocols, StartSync
<1>3. CASE Publish(s) \/ Withdraw(s)
  BY <1>3, PublishMoves, WithdrawMoves DEF Onward, StartSync
<1>4. QED
  BY <1>1, <1>2, <1>3, SyncKinds

\* The records of the calls and the advertisements keep their types.
LEMMA SyncTypesStay ==
  ASSUME RegistryAssumption, RegistryIInv, NEW s \in Syncers, StartSync(s) \/ SyncStep(s)
  PROVE  SharedTypes' /\ SyncTypes'
<1>1. ToCreate(s) \subseteq Advertisement
  BY DEF ToCreate, Advertisement, SyncCall, Domains, RegistryIInv, SyncTypes
<1>2. SyncTypes'
  BY SyncMoves DEF OnlyCall, RegistryIInv, SyncTypes
<1>3. tally' \in [change : Nat, sync : 0 .. MaxSyncs, failure : Nat, overlap : Nat]
  BY SyncKinds, ResetMoves, PublishMoves, WithdrawMoves DEF Find, RegistryIInv, SharedTypes
<1>4. QED
  BY <1>1, <1>2, <1>3, SyncMoves DEF OnlyCall, RegistryIInv, SharedTypes

\* What a call creates it needs and what it revokes it does not.
LEMMA PlanStays ==
  ASSUME RegistryAssumption, RegistryIInv, NEW s \in Syncers, StartSync(s) \/ SyncStep(s)
  PROVE  PlanInv'
<1> USE DEF RegistryIInv, SyncTypes
<1>a. Planned(s) /\ sync[s] \in SyncCall
  BY DEF PlanInv
<1>1. ASSUME StartSync(s) \/ FindFails(s) \/ Return(s) PROVE Planned(s)'
  BY <1>1, ResetMoves DEF NoSets, Planned
<1>2. ASSUME NEW p \in Protocols, Find(s, p) PROVE Planned(s)'
  <2>1. Missing(sync[s].need, p) \subseteq sync[s].need[p]
    BY DEF Missing
  <2>2. \A ad \in Unwanted(sync[s].need, p) : ad.name \notin sync[s].need[ad.protocol]
    BY DEF Unwanted
  <2>3. sync[s].create \in NameSets
    BY <1>a DEF SyncCall
  <2>4. /\ sync'[s].need = sync[s].need
        /\ sync'[s].create = [sync[s].create EXCEPT ![p] = Missing(sync[s].need, p)]
        /\ sync'[s].revoke = sync[s].revoke \cup Unwanted(sync[s].need, p)
    BY <1>2, FindMoves
  <2>5. QED
    BY <1>a, <2>1, <2>2, <2>3, <2>4 DEF NameSets, Planned
<1>3. ASSUME Publish(s) \/ Withdraw(s) PROVE Planned(s)'
  <2>1. /\ sync'[s].need = sync[s].need
        /\ sync'[s].create = sync[s].create
        /\ sync'[s].revoke = sync[s].revoke
    BY <1>3, PublishMoves, WithdrawMoves DEF Onward
  <2>2. QED
    BY <1>a, <2>1 DEF Planned
<1>4. Planned(s)'
  BY <1>1, <1>2, <1>3, SyncKinds
<1>5. QED
  BY <1>4, SyncMoves DEF PlanInv, Planned, OnlyCall

\* A call starts with the registry as it is, disturbed when another has an older one.
LEMMA SnapshotStays ==
  ASSUME RegistryAssumption, RegistryIInv, NEW s \in Syncers, StartSync(s) \/ SyncStep(s)
  PROVE  SnapshotInv'
<1> USE DEF RegistryIInv, SyncTypes, SnapshotInv
<1>a. registered' = registered /\ \A t \in Syncers \ {s} : sync'[t] = sync[t]
  BY SyncMoves DEF OnlyCall
<1>1. CASE StartSync(s)
  <2>1. /\ sync'[s].need = registered
        /\ ~sync'[s].disturbed =>
              \A t \in Syncers \ {s} : sync[t].pc # "idle" => sync[t].need = registered
    BY <1>1 DEF StartSync, Next1, InFlight, NotSync
  <2>2. QED
    BY <1>a, <2>1
<1>2. CASE SyncStep(s) /\ ~StartSync(s)
  <2>1. CASE sync'[s].pc = "idle"
    BY <1>a, <2>1
  <2>2. CASE /\ sync'[s].need = sync[s].need
             /\ sync[s].pc # "idle"
             /\ sync[s].disturbed => sync'[s].disturbed
    BY <1>a, <2>2
  <2>3. QED
    BY <1>2, <2>1, <2>2, SyncKinds, ResetMoves, FindMoves, PublishMoves, WithdrawMoves
       DEF Onward, Protocols
<1>3. QED
  BY <1>1, <1>2

\* A call whose snapshot is the registry makes nothing missing and nothing unwanted.
LEMMA NothingWorse ==
  ASSUME RegistryAssumption, RegistryIInv, NEW s \in Syncers, StartSync(s) \/ SyncStep(s),
         sync[s].pc # "idle" => sync[s].need = registered, NEW p \in Protocols
  PROVE  /\ Missing(registered, p)' \subseteq Missing(registered, p)
         /\ Unwanted(registered, p)' \subseteq Unwanted(registered, p)
<1> USE DEF RegistryIInv, SyncTypes
<1>1. CASE StartSync(s)
  BY <1>1, SyncMoves DEF OnlyCall, Missing, Unwanted
<1>2. CASE SyncStep(s) /\ sync[s].pc # "idle"
  <2>1. /\ registered' = registered /\ sync[s].need = registered
        /\ ads' \subseteq ads \cup ToCreate(s)
        /\ ads \subseteq ads' \cup sync[s].revoke
    BY <1>2, SyncMoves DEF OnlyCall
  <2>2. \A ad \in ToCreate(s) : ad.name \in registered[ad.protocol]
    BY <2>1 DEF ToCreate, PlanInv, Planned
  <2>3. \A ad \in sync[s].revoke : ad.name \notin registered[ad.protocol]
    BY <2>1 DEF PlanInv, Planned
  <2>4. Missing(registered, p)' \subseteq Missing(registered, p)
    BY <2>1, <2>3 DEF Missing
  <2>5. Unwanted(registered, p)' \subseteq Unwanted(registered, p)
    BY <2>1, <2>2 DEF Unwanted
  <2>6. QED
    BY <2>4, <2>5
<1>3. QED
  BY <1>1, <1>2, SyncMoves

Covers(s) ==
  sync[s].pc # "idle" /\ ~sync[s].disturbed =>
    \A p \in Protocols :
      /\ HasFound(s, p) => Missing(registered, p) \subseteq sync[s].create[p]
      /\ HasFound(s, p) => Unwanted(registered, p) \subseteq sync[s].revoke
      /\ sync[s].pc \in {"revoke", "done"} => Missing(registered, p) = {}
      /\ sync[s].pc = "done" => Unwanted(registered, p) = {}

\* The findings of the call that moves cover what is missing and unwanted after it.
LEMMA MoverCovers ==
  ASSUME RegistryAssumption, RegistryIInv, NEW s \in Syncers, StartSync(s) \/ SyncStep(s)
  PROVE  Covers(s)'
<1> USE DEF RegistryIInv, SyncTypes
<1>a. sync[s] \in SyncCall /\ Covers(s)
  BY DEF CoverInv, Covers
<1>b. sync[s].pc # "idle" /\ ~sync[s].disturbed => sync[s].need = registered
  BY DEF SnapshotInv
<1>c. OnlyCall(s)
  BY SyncMoves
<1>1. CASE StartSync(s) \/ FindFails(s) \/ Return(s)
  BY <1>1, ResetMoves DEF Covers, HasFound
<1>2. ASSUME NEW p \in Protocols, Find(s, p), ~sync[s].disturbed PROVE Covers(s)'
  <2>1. sync[s].need = registered
    BY <1>2, <1>b, FindMoves DEF Protocols
  <2>2. \A q \in Protocols : /\ Missing(registered, q)' = Missing(registered, q)
                             /\ Unwanted(registered, q)' = Unwanted(registered, q)
    BY <1>2, <1>c, FindMoves DEF Missing, Unwanted, OnlyCall
  <2>3. ASSUME NEW q \in Protocols, HasFound(s, q)'
        PROVE  q = p \/ HasFound(s, q)
    BY <1>2, <2>3, FindMoves DEF HasFound, Protocols
  <2>4. sync[s].create \in NameSets
    BY <1>a DEF SyncCall
  <2>5. sync[s].pc # "idle" /\ sync'[s].pc \notin {"revoke", "done"}
    BY <1>2, FindMoves DEF Protocols
  <2>6. ASSUME NEW q \in Protocols, HasFound(s, q)'
        PROVE  /\ Missing(registered, q) \subseteq sync'[s].create[q]
               /\ Unwanted(registered, q) \subseteq sync'[s].revoke
    <3>a. /\ sync'[s].create = [sync[s].create EXCEPT ![p] = Missing(registered, p)]
          /\ sync'[s].revoke = sync[s].revoke \cup Unwanted(registered, p)
      BY <1>2, <2>1, FindMoves
    <3>1. CASE q = p
      BY <2>4, <3>1, <3>a DEF NameSets
    <3>2. CASE q # p
      <4>1. /\ Missing(registered, q) \subseteq sync[s].create[q]
            /\ Unwanted(registered, q) \subseteq sync[s].revoke
        BY <1>2, <1>a, <2>3, <2>5, <2>6, <3>2 DEF Covers
      <4>2. QED
        BY <2>4, <3>2, <3>a, <4>1 DEF NameSets
    <3>3. QED
      BY <3>1, <3>2
  <2>7. QED
    BY <2>2, <2>5, <2>6 DEF Covers
<1>3. CASE sync[s].disturbed /\ (Publish(s) \/ Withdraw(s) \/ \E p \in Protocols : Find(s, p))
  BY <1>3, FindMoves, PublishMoves, WithdrawMoves DEF Onward, Covers
<1>4. CASE Create(s) /\ ~sync[s].disturbed
  <2>1. /\ sync[s].pc = "create" /\ sync'[s].pc = "revoke"
        /\ sync'[s].create = sync[s].create /\ sync'[s].revoke = sync[s].revoke
        /\ ads' = ads \cup ToCreate(s)
    BY <1>4, PublishMoves DEF Create, Onward, Publish
  <2>2. ASSUME NEW p \in Protocols
        PROVE  /\ Missing(registered, p)' \subseteq Missing(registered, p)
               /\ Unwanted(registered, p)' \subseteq Unwanted(registered, p)
    BY <1>4, <1>b, NothingWorse
  <2>3. ASSUME NEW p \in Protocols PROVE Missing(registered, p)' = {}
    <3>1. Missing(registered, p)' \subseteq sync[s].create[p]
      BY <1>4, <1>a, <2>1, <2>2 DEF Covers, HasFound
    <3>2. ASSUME NEW n \in sync[s].create[p]
          PROVE  \E ad \in ads' : ad.protocol = p /\ ad.name = n /\ ad.domain = "HostingURL"
      <4>1. n \in Names
        BY <1>a DEF SyncCall, NameSets
      <4>2. [protocol |-> p, name |-> n, domain |-> "HostingURL", by |-> sync[s].number]
              \in ToCreate(s)
        BY <4>1 DEF ToCreate
      <4>3. QED
        BY <2>1, <4>2
    <3>3. QED
      BY <3>1, <3>2 DEF Missing
  <2>4. QED
    BY <1>4, <1>a, <2>1, <2>2, <2>3 DEF Covers, HasFound
<1>5. CASE Revoke(s) /\ ~sync[s].disturbed
  <2>1. /\ sync[s].pc = "revoke" /\ sync'[s].pc = "done"
        /\ sync'[s].create = sync[s].create /\ sync'[s].revoke = sync[s].revoke
        /\ ads' = ads \ sync[s].revoke
    BY <1>5, WithdrawMoves DEF Revoke, Revocable, Onward, Withdraw
  <2>2. ASSUME NEW p \in Protocols
        PROVE  /\ Missing(registered, p)' \subseteq Missing(registered, p)
               /\ Unwanted(registered, p)' \subseteq Unwanted(registered, p)
    BY <1>5, <1>b, NothingWorse DEF SyncStep
  <2>3. ASSUME NEW p \in Protocols PROVE Unwanted(registered, p)' = {}
    <3>1. Unwanted(registered, p)' \subseteq sync[s].revoke
      BY <1>5, <1>a, <2>1, <2>2 DEF Covers, HasFound
    <3>2. QED
      BY <2>1, <3>1 DEF Unwanted
  <2>4. QED
    BY <1>5, <1>a, <2>1, <2>2, <2>3 DEF Covers, HasFound
<1>6. CASE (Publish(s) /\ ~Create(s)) \/ (Withdraw(s) /\ ~Revoke(s))
  BY <1>6, PublishMoves, WithdrawMoves DEF Covers
<1>7. QED
  BY <1>1, <1>2, <1>3, <1>4, <1>5, <1>6, SyncKinds

\* The findings of every other call still cover what is missing and unwanted.
LEMMA CoverStays ==
  ASSUME RegistryAssumption, RegistryIInv, NEW s \in Syncers, StartSync(s) \/ SyncStep(s)
  PROVE  CoverInv'
<1>1. ASSUME NEW t \in Syncers, t # s PROVE Covers(t)'
  <2>1. sync'[t] = sync[t]
    BY <1>1, SyncMoves DEF OnlyCall, RegistryIInv, SyncTypes
  <2>2. \A p \in Protocols : HasFound(t, p)' <=> HasFound(t, p)
    BY <2>1 DEF HasFound
  <2>3. Covers(t)
    BY DEF RegistryIInv, CoverInv, Covers
  <2>4. CASE sync[t].pc # "idle" /\ ~sync[t].disturbed
    <3>1. sync[s].pc # "idle" => sync[s].need = registered
      BY <2>4 DEF RegistryIInv, SnapshotInv
    <3>2. \A p \in Protocols : /\ Missing(registered, p)' \subseteq Missing(registered, p)
                               /\ Unwanted(registered, p)' \subseteq Unwanted(registered, p)
      BY <3>1, NothingWorse
    <3>3. QED
      BY <2>1, <2>2, <2>3, <2>4, <3>2 DEF Covers
  <2>5. QED
    BY <2>1, <2>4 DEF Covers
<1>2. QED
  BY <1>1, MoverCovers DEF CoverInv, Covers

\* A call counts itself when another is in flight; no other step touches that count.
LEMMA OverlapCounted ==
  ASSUME RegistryAssumption, RegistryIInv, NEW s \in Syncers, StartSync(s) \/ SyncStep(s),
         tally'.overlap = 0
  PROVE  /\ tally.overlap = 0
         /\ StartSync(s) => ~AnotherInFlight(s)
<1> USE DEF RegistryIInv, SharedTypes
<1>1. CASE StartSync(s)
  <2>1. tally'.overlap = tally.overlap + (IF AnotherInFlight(s) THEN 1 ELSE 0)
    BY <1>1 DEF StartSync
  <2>2. tally.overlap \in Nat
    OBVIOUS
  <2>3. QED
    BY <2>1, <2>2
<1>2. CASE SyncStep(s) /\ ~StartSync(s)
  BY <1>2 DEF SyncStep, Find, FindFails, Create, CreateRefused, CreateFails, Revoke,
              RevokeRefused, RevokeFails, Return, Count
<1>3. QED
  BY <1>1, <1>2

\* The only call in flight publishes a name when it found it missing, and once.
LEMMA OnceStays ==
  ASSUME RegistryAssumption, RegistryIInv, NEW s \in Syncers, StartSync(s) \/ SyncStep(s)
  PROVE  OnceInv'
<1> USE DEF RegistryIInv, SyncTypes
<1> SUFFICES ASSUME tally'.overlap = 0 PROVE OnceInv'
  BY DEF OnceInv
<1>a. /\ sync[s] \in SyncCall /\ OneAdPerName /\ Fresh(s)
      /\ \A t, u \in Syncers : InFlight(t) /\ InFlight(u) => t = u
  BY OverlapCounted DEF OnceInv
<1>b. \A t \in Syncers \ {s} : ~InFlight(t) /\ sync'[t] = sync[t]
  <2>1. CASE StartSync(s)
    BY <2>1, OverlapCounted, SyncMoves DEF AnotherInFlight, OnlyCall
  <2>2. CASE ~StartSync(s)
    BY <1>a, <2>2, SyncMoves DEF OnlyCall, InFlight
  <2>3. QED
    BY <2>1, <2>2
<1>1. SUFFICES OneAdPerName' /\ Fresh(s)'
  BY <1>b DEF OnceInv, InFlight, Fresh
<1>2. CASE StartSync(s) \/ FindFails(s) \/ Return(s)
  BY <1>2, <1>a, ResetMoves DEF NoSets, OneAdPerName, Fresh
<1>3. ASSUME NEW p \in Protocols, Find(s, p) PROVE OneAdPerName' /\ Fresh(s)'
  <2>1. /\ sync'[s].create = [sync[s].create EXCEPT ![p] = Missing(sync[s].need, p)]
        /\ sync[s].pc = p /\ ads' = ads
        /\ sync'[s].pc = IF p = "SHIP" THEN "SLAP" ELSE "create"
    BY <1>3, FindMoves
  <2>2. sync[s].create \in NameSets
    BY <1>a DEF SyncCall
  <2>3. ASSUME NEW q \in Protocols, HasFound(s, q)'
        PROVE  q = p \/ (HasFound(s, q) /\ sync[s].pc = "SLAP")
    BY <2>1, <2>3 DEF HasFound, Protocols
  <2>4. ASSUME NEW q \in Protocols, HasFound(s, q)', NEW ad \in ads,
               ad.protocol = q, ad.domain = "HostingURL"
        PROVE  ad.name \notin sync'[s].create[q]
    <3>1. CASE q = p
      BY <2>1, <2>2, <2>4, <3>1 DEF NameSets, Missing
    <3>2. CASE q # p
      BY <1>a, <2>1, <2>2, <2>3, <2>4, <3>2 DEF NameSets, Fresh
    <3>3. QED
      BY <3>1, <3>2
  <2>5. QED
    BY <1>a, <2>1, <2>4 DEF OneAdPerName, Fresh
<1>4. CASE Publish(s)
  <2>1. sync[s].pc = "create" /\ sync'[s].pc = "revoke" /\ ads' \subseteq ads \cup ToCreate(s)
    BY <1>4, PublishMoves DEF Onward
  <2>2. ASSUME NEW a \in ads, NEW b \in ToCreate(s), a.protocol = b.protocol,
               a.domain = "HostingURL"
        PROVE  a.name # b.name
    BY <1>a, <2>1, <2>2 DEF HasFound, ToCreate, Fresh
  <2>3. ASSUME NEW a \in ToCreate(s), NEW b \in ToCreate(s), a.protocol = b.protocol,
               a.name = b.name
        PROVE  a = b
    BY <2>3 DEF ToCreate
  <2>4. QED
    BY <1>a, <2>1, <2>2, <2>3 DEF OneAdPerName, Fresh
<1>5. CASE Withdraw(s)
  BY <1>5, <1>a, WithdrawMoves DEF Onward, OneAdPerName, Fresh
<1>6. QED
  BY <1>2, <1>3, <1>4, <1>5, SyncKinds

-----------------------------------------------------------------------------
(* The registry: the theorem *)

\* Every step keeps the invariant.
LEMMA RegistryStep == ASSUME RegistryAssumption, RegistryIInv, [RegistryNext]_registryVars PROVE RegistryIInv'
<1>1. ASSUME NEW c \in Callers, CallerStep(c) PROVE RegistryIInv'
  BY <1>1, CallerTypes, CallerLocks, CallerAndSyncs DEF RegistryIInv
<1>2. ASSUME NEW s \in Syncers, StartSync(s) \/ SyncStep(s) PROVE RegistryIInv'
  <2>1. CallTypes' /\ LockInv' /\ ListIsOneMoment'
    BY <1>2, SyncMoves DEF RegistryIInv, OnlyCall, CallTypes, LockInv, ListIsOneMoment
  <2>2. QED
    BY <1>2, <2>1, SyncTypesStay, PlanStays, SnapshotStays, CoverStays, OnceStays DEF RegistryIInv
<1>3. CASE UNCHANGED registryVars
  BY <1>3 DEF registryVars, RegistryIInv, SharedTypes, CallTypes, SyncTypes, LockInv, PlanInv, Planned, SnapshotInv,
        CoverInv, OnceInv, ListIsOneMoment, HasFound, Missing, Unwanted, OneAdPerName,
        Fresh, InFlight
<1>4. QED
  BY <1>1, <1>2, <1>3, RegistrySteps

\* What the invariant says of the registry and the advertisements.
LEMMA RegistryConsequences == ASSUME RegistryIInv PROVE RegistryAndAdsAgree
<1> USE DEF RegistryIInv
<1>1. RegistryTypeOK
  BY DEF RegistryTypeOK, SharedTypes, CallTypes, SyncTypes, LockInv, Call, SyncCall, NameSets, Phases,
         Protocols
<1>2. QuietSyncAligns
  BY DEF QuietSyncAligns, Aligned, CoverInv, Unwanted
<1>3. QED
  BY <1>1, <1>2 DEF RegistryAndAdsAgree, OnceInv

\* For any number of goroutines: a SyncAdvertisements call that returns nil
\* undisturbed leaves exactly the registered names advertised, calls one after the
\* other never publish a name twice, and a list method reports one moment.
THEOREM AdsFollowRegistry == RegistryAssumption /\ RegistrySpec => []RegistryAndAdsAgree
<1> SUFFICES ASSUME RegistryAssumption PROVE RegistrySpec => []RegistryAndAdsAgree
  OBVIOUS
<1>1. RegistryInit => RegistryIInv
  BY RegistryInitially
<1>2. RegistryIInv /\ [RegistryNext]_registryVars => RegistryIInv'
  BY RegistryStep
<1>3. RegistryIInv => RegistryAndAdsAgree
  BY RegistryConsequences
<1>4. QED
  BY <1>1, <1>2, <1>3, PTL DEF RegistrySpec

-----------------------------------------------------------------------------
(* The identity topic: the stages of ProjectOutput *)

StageNames == {"decode", "verify", "decrypt", "record"}

\* The stages are the four that ProjectOutput passes through.
LEMMA StagesAre == Range(Stages) = StageNames
BY DEF Stages, Range, StageNames

\* They come in the order in which ProjectOutput looks at the context.
LEMMA StageOrder ==
  /\ NextStage("decode") = "verify"
  /\ NextStage("verify") = "decrypt"
  /\ NextStage("decrypt") = "record"
<1>1. ASSUME NEW i \in 1 .. 3, NEW s \in StageNames
      PROVE  /\ Stages[i] = "decode" => i = 1
             /\ Stages[i] = "verify" => i = 2
             /\ Stages[i] = "decrypt" => i = 3
  BY DEF Stages
<1>2. Stages[2] = "verify" /\ Stages[3] = "decrypt" /\ Stages[4] = "record"
      /\ Stages[1] = "decode"
  BY DEF Stages
<1>3. "verify" \in StageNames /\ "decrypt" \in StageNames /\ "record" \in StageNames
  BY DEF StageNames
<1>4. NextStage("decode") = CHOOSE s \in StageNames : \E i \in 1 .. 3 : Stages[i] = "decode" /\ Stages[i + 1] = s
  BY StagesAre DEF NextStage
<1>5. NextStage("verify") = CHOOSE s \in StageNames : \E i \in 1 .. 3 : Stages[i] = "verify" /\ Stages[i + 1] = s
  BY StagesAre DEF NextStage
<1>6. NextStage("decrypt") = CHOOSE s \in StageNames : \E i \in 1 .. 3 : Stages[i] = "decrypt" /\ Stages[i + 1] = s
  BY StagesAre DEF NextStage
<1>7. QED
  BY <1>1, <1>2, <1>3, <1>4, <1>5, <1>6

\* What an output has passed when ProjectOutput is at a stage.
PassedBefore(o, policy, stage) ==
  /\ stage \in {"verify", "decrypt", "record"} => StagePasses(o, policy, "decode")
  /\ stage \in {"decrypt", "record"} => StagePasses(o, policy, "verify")
  /\ stage = "record" => StagePasses(o, policy, "decrypt")

\* ProjectOutput accepts what passes all of its stages, and nothing else.
LEMMA ProjectableByStages ==
  ASSUME NEW o, NEW policy
  PROVE  Projectable(o, policy) <=>
            /\ StagePasses(o, policy, "decode")
            /\ StagePasses(o, policy, "verify")
            /\ StagePasses(o, policy, "decrypt")
BY DEF Projectable, StagePasses

\* An output that is accepted passes whichever stage it is at.
LEMMA ProjectablePasses ==
  ASSUME NEW o, NEW policy, NEW stage \in StageNames, Projectable(o, policy)
  PROVE  StagePasses(o, policy, stage)
BY ProjectableByStages DEF StageNames, StagePasses

\* Passing a stage carries over to the next one.
LEMMA PassedGrows ==
  ASSUME NEW o, NEW policy, NEW stage \in StageNames \ {"record"},
         PassedBefore(o, policy, stage), StagePasses(o, policy, stage)
  PROVE  /\ NextStage(stage) \in StageNames
         /\ PassedBefore(o, policy, NextStage(stage))
<1>1. CASE stage = "decode"
  BY <1>1, StageOrder DEF PassedBefore, StageNames
<1>2. CASE stage = "verify"
  BY <1>2, StageOrder DEF PassedBefore, StageNames
<1>3. CASE stage = "decrypt"
  BY <1>3, StageOrder DEF PassedBefore, StageNames
<1>4. QED
  BY <1>1, <1>2, <1>3 DEF StageNames

-----------------------------------------------------------------------------
(* The identity topic: the inductive invariant *)

\* The outputs below the index that ProjectOutput accepts.
AcceptedBelow(n) ==
  {i \in Indices : i < n /\ Projectable(tx.outputs[i], ManagerPolicy)}

\* The running call, or none.
JobInv ==
  /\ tx \in Txs
  /\ cancelled \in BOOLEAN
  /\ job \in [op : {"none", "identify", "notify", "remove"},
              stage : StageNames \cup {"none", "loop", "entry"}, index : Nat]
  /\ job.op = "none" => job = NoJob
  /\ job.op = "identify" => job.stage \in StageNames \cup {"loop"} /\ verdict = "none"
  /\ job.op = "notify" => job.stage \in StageNames \cup {"entry"} /\ verdict = "ok"
  /\ job.op = "remove" => job.stage = "entry" /\ verdict = "ok"
  /\ verdict \in {"none", "ok", "error"}

\* Before the verdict: what was admitted so far.
IdentifyInv ==
  /\ job.op = "identify" =>
      /\ job.index \in 1 .. Len(tx.outputs) + 1
      /\ job.index > 1 \/ job.stage # "loop" => tx.inputs > 0
      /\ job.stage # "loop" => job.index \in Indices
      /\ job.stage # "loop" => PassedBefore(tx.outputs[job.index], ManagerPolicy, job.stage)
      /\ admitted \subseteq AcceptedBelow(job.index)
      /\ ~cancelled => admitted = AcceptedBelow(job.index)
  /\ verdict = "none" =>
      /\ job.op # "identify" => admitted = {}
      /\ refused \cup projection \cup acked \cup spent \cup retired = {}

\* After it: the whole verdict.
VerdictInv ==
  /\ AdmitsAllOrFails
  /\ verdict = "ok" => selectedTransaction(tx, ManagerPolicy)
  /\ verdict = "error" => refused \cup projection \cup acked \cup spent \cup retired = {}

\* The notifications: admitted outputs only, and no admission after a spend.
NotificationInv ==
  /\ job.op = "notify" => job.index \in admitted \ retired
  /\ job.op = "remove" => job.index \in admitted \cap retired
  /\ refused \cup projection \cup acked \cup retired \subseteq admitted
  /\ spent \subseteq retired
  /\ projection \cap spent = {}
  /\ acked \ retired \subseteq projection
  /\ AdmittedIsProjected

TopicIInv == JobInv /\ IdentifyInv /\ VerdictInv /\ NotificationInv

-----------------------------------------------------------------------------
(* The identity topic: the initial state and the steps *)

\* The outputs of a submitted transaction are numbered from one.
LEMMA OutputsAreNumbered ==
  ASSUME TopicAssumption, tx \in Txs
  PROVE  /\ Indices = 1 .. Len(tx.outputs)
         /\ Len(tx.outputs) \in Nat
         /\ tx.inputs \in Nat
         /\ tx.beef \in Nat
BY DEF TopicAssumption, Indices

\* Nothing has been admitted or delivered at first.
LEMMA TopicInitially == ASSUME TopicAssumption, Init PROVE TopicIInv
BY DEF TopicAssumption, Init, TopicIInv, JobInv, IdentifyInv, VerdictInv, NotificationInv,
       NoJob, AdmitsAllOrFails, AdmittedIsProjected, StageNames

\* One output more than below the index.
LEMMA AcceptedGrows ==
  ASSUME TopicAssumption, tx \in Txs, NEW n \in Indices
  PROVE  AcceptedBelow(n + 1) =
            IF Projectable(tx.outputs[n], ManagerPolicy)
            THEN AcceptedBelow(n) \cup {n} ELSE AcceptedBelow(n)
BY OutputsAreNumbered DEF AcceptedBelow

\* The steps that begin or end a call, or only cancel its context.
Opening ==
  \/ StartIdentify \/ Cancel
  \/ \E i \in Indices : StartNotify(i) \/ StartRemove(i) \/ NotifyOther(i)
Closing ==
  \/ IdentifyFails \/ IdentifyReturns \/ NotifyFails \/ Upsert \/ UpsertFails
  \/ DeleteRecord \/ RemoveFails
Walking == NextOutput \/ SkipOutput \/ AdmitOutput \/ ProjectStep \/ NotifyEntry

\* Every step begins a call, ends it or goes on in it.
LEMMA TopicSteps == ASSUME Next PROVE Opening \/ Closing \/ Walking
BY DEF Next, JobStep, Opening, Closing, Walking

\* No step changes the transaction.
LEMMA TxIsFixed == ASSUME [Next]_vars PROVE tx' = tx
BY DEF Next, vars, JobStep, StartIdentify, Cancel, StartNotify, StartRemove, NotifyOther,
       IdentifyFails, IdentifyReturns, NotifyFails, Upsert, UpsertFails, DeleteRecord,
       RemoveFails, NextOutput, SkipOutput, AdmitOutput, ProjectStep, NotifyEntry,
       EndIdentify, EndCall

\* A call is at a stage of its own, under the verdict it needs.
LEMMA JobStays == ASSUME TopicAssumption, TopicIInv, [Next]_vars PROVE JobInv'
<1> USE DEF TopicIInv, JobInv
<1>a. tx' \in Txs
  BY TxIsFixed
<1>b. cancelled' \in BOOLEAN
  BY Zenon, TopicSteps DEF Opening, Closing, Walking, StartIdentify, Cancel, StartNotify, StartRemove,
      NotifyOther, IdentifyFails, IdentifyReturns, NotifyFails, Upsert, UpsertFails, DeleteRecord,
      RemoveFails, EndIdentify, EndCall, NextOutput, SkipOutput, AdmitOutput, ProjectStep,
      NotifyEntry, vars
<1>1. ASSUME Opening PROVE JobInv'
  <2>1. CASE StartIdentify \/ Cancel
    BY <1>a, <1>b, <2>1 DEF StartIdentify, Cancel, NoJob, StageNames
  <2>2. ASSUME NEW i \in Indices, StartNotify(i) \/ StartRemove(i) \/ NotifyOther(i) PROVE JobInv'
    <3>1. i \in Nat
      BY OutputsAreNumbered
    <3>2. QED
      BY <1>a, <1>b, <2>2, <3>1 DEF StartNotify, StartRemove, NotifyOther, NoJob, StageNames
  <2>3. QED
    BY <1>1, <2>1, <2>2 DEF Opening
<1>2. ASSUME Closing PROVE JobInv'
  <2>1. job' = NoJob /\ verdict' \in {"none", "ok", "error"}
    BY <1>2 DEF Closing, IdentifyFails, IdentifyReturns, NotifyFails, Upsert, UpsertFails,
              DeleteRecord, RemoveFails, EndIdentify, EndCall
  <2>2. QED
    BY <1>a, <1>b, <2>1 DEF NoJob, StageNames
<1>3. ASSUME NextOutput \/ SkipOutput \/ AdmitOutput \/ NotifyEntry PROVE JobInv'
  <2>1. CASE NextOutput \/ NotifyEntry
    BY <1>a, <1>b, <2>1 DEF NextOutput, NotifyEntry, At, StageNames
  <2>2. CASE SkipOutput \/ AdmitOutput
    <3>1. /\ job.op = "identify" /\ verdict' = verdict
          /\ job' = [job EXCEPT !.stage = "loop", !.index = @ + 1]
      BY <2>2 DEF SkipOutput, AdmitOutput, At
    <3>2. job.index + 1 \in Nat
      OBVIOUS
    <3>3. job' = [op |-> "identify", stage |-> "loop", index |-> job.index + 1]
      BY <3>1
    <3>4. QED
      BY <1>a, <1>b, <3>1, <3>2, <3>3
  <2>3. QED
    BY <1>3, <2>1, <2>2
<1>4. ASSUME ProjectStep PROVE JobInv'
  <2>1. /\ job.stage \in StageNames \ {"record"}
        /\ job' = [job EXCEPT !.stage = NextStage(job.stage)]
        /\ verdict' = verdict
    BY <1>4, StagesAre DEF ProjectStep
  <2>2. NextStage(job.stage) \in StageNames
    BY <2>1, StageOrder DEF StageNames
  <2>3. QED
    BY <1>a, <1>b, <2>1, <2>2 DEF StageNames, NoJob
<1>5. CASE UNCHANGED vars
  BY <1>5 DEF vars
<1>6. QED
  BY <1>1, <1>2, <1>3, <1>4, <1>5, TopicSteps DEF Walking

\* What was admitted below the index is what ProjectOutput accepts, unless the
\* context is cancelled.
LEMMA IdentifyStays == ASSUME TopicAssumption, TopicIInv, [Next]_vars PROVE IdentifyInv'
<1> USE DEF TopicIInv, JobInv, IdentifyInv
<1>a. tx' = tx /\ \A n : AcceptedBelow(n)' = AcceptedBelow(n)
  BY TxIsFixed DEF AcceptedBelow, Indices
<1>b. Indices' = Indices
  BY <1>a DEF Indices
<1>c. /\ Indices = 1 .. Len(tx.outputs)
      /\ Len(tx.outputs) \in Nat
      /\ tx.inputs \in Nat
  BY OutputsAreNumbered
<1>1. ASSUME Opening PROVE IdentifyInv'
  <2>1. AcceptedBelow(1) = {}
    BY <1>c DEF AcceptedBelow
  <2>2. CASE StartIdentify
    <3>1. /\ job.op # "identify" /\ verdict = "none" /\ verdict' = "none"
          /\ job'.op = "identify" /\ job'.stage = "loop" /\ job'.index = 1
          /\ UNCHANGED <<admitted, refused, projection, acked, spent, retired>>
      BY <2>2 DEF StartIdentify, NoJob
    <3>2. admitted = {}
      BY <3>1
    <3>3. QED
      BY <1>a, <1>c, <2>1, <3>1, <3>2
  <2>3. CASE Cancel
    BY <1>a, <1>b, <1>c, <2>3 DEF Cancel
  <2>4. CASE \E i \in Indices : StartNotify(i) \/ StartRemove(i) \/ NotifyOther(i)
    BY <1>a, <2>4 DEF StartNotify, StartRemove, NotifyOther
  <2>5. QED
    BY <1>1, <2>2, <2>3, <2>4 DEF Opening
<1>2. ASSUME Closing PROVE IdentifyInv'
  BY <1>2, <1>a DEF Closing, IdentifyFails, IdentifyReturns, NotifyFails, Upsert, UpsertFails,
              DeleteRecord, RemoveFails, EndIdentify, EndCall, At, NoJob
<1>3. ASSUME NextOutput PROVE IdentifyInv'
  BY <1>3, <1>a, <1>b, <1>c DEF NextOutput, At, PassedBefore
<1>4. ASSUME SkipOutput PROVE IdentifyInv'
  <2>1. /\ job.op = "identify" /\ job.index \in Indices /\ job.stage \in StageNames
        /\ job' = [job EXCEPT !.stage = "loop", !.index = @ + 1]
        /\ UNCHANGED <<admitted, cancelled, verdict, refused, projection, acked, spent, retired>>
    BY <1>4, StagesAre DEF SkipOutput, StageNames
  <2>2. ~cancelled => ~Projectable(tx.outputs[job.index], ManagerPolicy)
    BY <1>4, <2>1, ProjectablePasses DEF SkipOutput, StageMayFail
  <2>3. /\ AcceptedBelow(job.index) \subseteq AcceptedBelow(job.index + 1)
        /\ ~cancelled => AcceptedBelow(job.index + 1) = AcceptedBelow(job.index)
    BY <2>1, <2>2, AcceptedGrows
  <2>4. QED
    BY <1>a, <1>b, <1>c, <2>1, <2>3 DEF StageNames
<1>5. ASSUME AdmitOutput PROVE IdentifyInv'
  <2>1. /\ job.op = "identify" /\ job.stage = "record" /\ job.index \in Indices
        /\ job' = [job EXCEPT !.stage = "loop", !.index = @ + 1]
        /\ admitted' = admitted \cup {job.index}
        /\ UNCHANGED <<cancelled, verdict, refused, projection, acked, spent, retired>>
    BY <1>5 DEF AdmitOutput, At
  <2>2. Projectable(tx.outputs[job.index], ManagerPolicy)
    BY <2>1, ProjectableByStages DEF PassedBefore
  <2>3. AcceptedBelow(job.index + 1) = AcceptedBelow(job.index) \cup {job.index}
    BY <2>1, <2>2, AcceptedGrows
  <2>4. QED
    BY <1>a, <1>b, <1>c, <2>1, <2>3
<1>6. ASSUME ProjectStep PROVE IdentifyInv'
  <2>1. /\ job.stage \in StageNames \ {"record"}
        /\ job' = [job EXCEPT !.stage = NextStage(job.stage)]
        /\ UNCHANGED <<admitted, cancelled, verdict, refused, projection, acked, spent, retired>>
    BY <1>6, StagesAre DEF ProjectStep
  <2>2. job.op = "identify" =>
          /\ NextStage(job.stage) \in StageNames
          /\ PassedBefore(tx.outputs[job.index], ManagerPolicy, NextStage(job.stage))
    BY <1>6, <2>1, PassedGrows DEF ProjectStep, StageMaySucceed, PolicyOf, StageNames
  <2>3. job.stage # "loop" /\ "loop" \notin StageNames
    BY <2>1 DEF StageNames
  <2>4. QED
    BY <1>a, <1>b, <1>c, <2>1, <2>2, <2>3
<1>7. ASSUME NotifyEntry PROVE IdentifyInv'
  BY <1>7 DEF NotifyEntry, At
<1>8. CASE UNCHANGED vars
  BY <1>8, <1>a, <1>b DEF vars
<1>9. QED
  BY <1>1, <1>2, <1>3, <1>4, <1>5, <1>6, <1>7, <1>8, TopicSteps DEF Walking

\* The verdict stands once it is given, and covers all of the outputs.
LEMMA VerdictStays == ASSUME TopicAssumption, TopicIInv, [Next]_vars PROVE VerdictInv'
<1> USE DEF TopicIInv, JobInv, VerdictInv
<1>a. tx' = tx /\ Indices' = Indices
  BY TxIsFixed DEF Indices
<1>b. selectedTransaction(tx, ManagerPolicy)' = selectedTransaction(tx, ManagerPolicy)
  BY <1>a
<1>1. ASSUME Opening PROVE VerdictInv'
  BY <1>1, <1>a, <1>b DEF Opening, StartIdentify, Cancel, StartNotify,
        StartRemove, NotifyOther, AdmitsAllOrFails
<1>2. ASSUME IdentifyFails PROVE VerdictInv'
  BY <1>2, <1>a DEF IdentifyFails, EndIdentify, AdmitsAllOrFails, At, IdentifyInv
<1>3. ASSUME IdentifyReturns PROVE VerdictInv'
  <2>1. /\ job.op = "identify" /\ job.stage = "loop" /\ ~cancelled
        /\ tx.inputs = 0 \/ job.index > Len(tx.outputs)
        /\ selectedTransaction(tx, ManagerPolicy)
        /\ verdict' = "ok" /\ admitted' = admitted
    BY <1>3 DEF IdentifyReturns, EndIdentify, At
  <2>2. admitted = IF tx.inputs = 0 THEN {}
                   ELSE {i \in Indices : Projectable(tx.outputs[i], ManagerPolicy)}
    BY <2>1, OutputsAreNumbered DEF IdentifyInv, AcceptedBelow
  <2>3. QED
    BY <1>a, <1>b, <2>1, <2>2 DEF AdmitsAllOrFails
<1>4. ASSUME NotifyFails \/ Upsert \/ UpsertFails \/ DeleteRecord \/ RemoveFails PROVE VerdictInv'
  BY <1>4, <1>a, <1>b DEF NotifyFails, Upsert, UpsertFails, DeleteRecord, RemoveFails, EndCall,
        At, AdmitsAllOrFails
<1>5. ASSUME Walking PROVE VerdictInv'
  BY <1>5, <1>a, <1>b DEF Walking, NextOutput, SkipOutput, AdmitOutput, ProjectStep, NotifyEntry,
        At, AdmitsAllOrFails
<1>6. CASE UNCHANGED vars
  BY <1>6, <1>a, <1>b DEF vars, AdmitsAllOrFails
<1>7. QED
  BY <1>1, <1>2, <1>3, <1>4, <1>5, <1>6, TopicSteps DEF Closing

\* A notification that is not cancelled is refused only for its size or its form: the
\* output was admitted under the same policy.
LEMMA RefusedForForm ==
  ASSUME TopicAssumption, ManagerPolicy = ServicePolicy, TopicIInv, NotifyFails, ~cancelled
  PROVE  tx.beef > ServicePolicy.MaxNotificationBytes \/ ~tx.atomic
<1> USE DEF TopicIInv, JobInv, NotificationInv
<1>1. /\ job.op = "notify" /\ verdict = "ok" /\ job.index \in admitted
  BY DEF NotifyFails
<1>2. /\ tx.inputs > 0 /\ job.index \in Indices
      /\ Projectable(tx.outputs[job.index], ServicePolicy)
      /\ selectedTransaction(tx, ServicePolicy)
  BY <1>1, OutputsAreNumbered DEF VerdictInv, AdmitsAllOrFails
<1>3. CASE job.stage = "entry"
  <2>1. "entry" \notin StageNames
    BY DEF StageNames
  <2>2. ~NotificationOK
    BY <1>3, <2>1, StagesAre DEF NotifyFails
  <2>3. ServicePolicy.MaxNotificationBytes \in Nat
    BY DEF TopicAssumption
  <2>4. QED
    BY <1>2, <2>2, <2>3, OutputsAreNumbered DEF NotificationOK, parseNotificationBEEF
<1>4. CASE job.stage \in StageNames
  <2>1. StagePasses(tx.outputs[job.index], ServicePolicy, job.stage)
    BY <1>2, <1>4, ProjectablePasses
  <2>2. QED
    BY <1>4, <2>1 DEF NotifyFails, StageMayFail, StageNames
<1>5. QED
  BY <1>1, <1>3, <1>4

\* The index follows the acknowledgements.
LEMMA NotificationStays ==
  ASSUME TopicAssumption, ManagerPolicy = ServicePolicy, TopicIInv, [Next]_vars
  PROVE  NotificationInv'
<1> USE DEF TopicIInv, JobInv, NotificationInv, AdmittedIsProjected
<1>a. tx' = tx
  BY TxIsFixed
<1>1. ASSUME Opening PROVE NotificationInv'
  BY <1>1, <1>a DEF Opening, StartIdentify, Cancel, StartNotify, StartRemove, NotifyOther, NoJob
<1>2. ASSUME IdentifyFails PROVE NotificationInv'
  BY <1>2, <1>a DEF IdentifyFails, EndIdentify, NoJob, At, IdentifyInv
<1>3. ASSUME IdentifyReturns PROVE NotificationInv'
  BY <1>3, <1>a DEF IdentifyReturns, EndIdentify, NoJob, At, IdentifyInv
<1>4. ASSUME NotifyFails PROVE NotificationInv'
  BY <1>4, <1>a, RefusedForForm DEF NotifyFails, EndCall, NoJob
<1>5. ASSUME Upsert \/ UpsertFails PROVE NotificationInv'
  BY <1>5, <1>a DEF Upsert, UpsertFails, EndCall, NoJob, At
<1>6. ASSUME DeleteRecord \/ RemoveFails PROVE NotificationInv'
  BY <1>6, <1>a DEF DeleteRecord, RemoveFails, EndCall, NoJob, At
<1>7. ASSUME Walking PROVE NotificationInv'
  BY <1>7, <1>a DEF Walking, NextOutput, SkipOutput, AdmitOutput, ProjectStep, NotifyEntry,
        At, IdentifyInv
<1>8. CASE UNCHANGED vars
  BY <1>8 DEF vars
<1>9. QED
  BY <1>1, <1>2, <1>3, <1>4, <1>5, <1>6, <1>7, <1>8, TopicSteps DEF Closing

-----------------------------------------------------------------------------
(* The identity topic: the theorem *)

\* The inductive invariant gives what the run checks.
LEMMA TopicConsequences == ASSUME TopicAssumption, TopicIInv PROVE ProjectionFollowsAdmission
<1> USE DEF TopicIInv, JobInv
<1>1. admitted \subseteq Indices
  BY DEF IdentifyInv, VerdictInv, AdmitsAllOrFails, AcceptedBelow
<1>2. job.stage \in StageNames => job.index \in Indices
  BY <1>1 DEF IdentifyInv, NotificationInv, StageNames, NoJob
<1>3. job.stage \in StageNames \cup {"none", "loop", "entry"}
  OBVIOUS
<1>4. TypeOK
  BY <1>1, <1>2, <1>3, StagesAre DEF TypeOK, NotificationInv, IdentifyInv, VerdictInv
<1>5. QED
  BY <1>4 DEF ProjectionFollowsAdmission, VerdictInv, NotificationInv, ProjectionIsCurrent

\* For every transaction and every policy that the topic manager and the lookup
\* service share: IdentifyAdmissibleOutputs admits all that ProjectOutput accepts or
\* fails and admits none; OutputAdmittedByTopic refuses an admitted output only for
\* the size of its notification or because its BEEF is not atomic; and the index holds what was acknowledged and
\* nothing whose spend or eviction was.
THEOREM AdmissionIsProjected ==
  TopicAssumption /\ ManagerPolicy = ServicePolicy /\ Spec => []ProjectionFollowsAdmission
<1> SUFFICES ASSUME TopicAssumption, ManagerPolicy = ServicePolicy
             PROVE  Spec => []ProjectionFollowsAdmission
  OBVIOUS
<1>1. Init => TopicIInv
  BY TopicInitially
<1>2. TopicIInv /\ [Next]_vars => TopicIInv'
  BY JobStays, IdentifyStays, VerdictStays, NotificationStays DEF TopicIInv
<1>3. TopicIInv => ProjectionFollowsAdmission
  BY TopicConsequences
<1>4. QED
  BY <1>1, <1>2, <1>3, PTL DEF Spec

-----------------------------------------------------------------------------
(* Lookup: the inductive invariant.  E stands for the documents stored at  *)
(* some time, A for those that stayed, L for the edges that stayed, s for  *)
(* the stack.                                                              *)

HistoryFrame ==
  [doc : Docs, read : BOOLEAN, left : SUBSET Outpoints, spends : BOOLEAN, mined : BOOLEAN,
   missing : BOOLEAN, paths : SUBSET Seq(Outpoints)]

SourceOf(d) == Source[d[1]][d[2]]

\* Every outpoint of p is selected, the first at depth k.
ChosenFrom(p, k) == \A i \in DOMAIN p : <<p[i], (i - 1) + k>> \in Selected

\* What HistoryIsReal asks of a path below depth k.
RealFrom(p, k, E) ==
  /\ p \in Seq(Outpoints)
  /\ p # <<>>
  /\ ChosenFrom(p, k)
  /\ \A i \in DOMAIN p : \E t \in Topics :
        <<t, p[i]>> \in E /\ (i < Len(p) => p[i + 1] \in Source[t][p[i]])

\* What HistoryIsComplete asks of an output and of two that follow each other.
Lasts(o, E, A) ==
  /\ o \notin NoBeef
  /\ {d \in E : d[2] = o} \subseteq A
  /\ \E d \in A : d[2] = o

Leads(o, c, E, L) ==
  /\ o \notin Mined
  /\ \A t \in Topics : <<t, o>> \in E => <<t, c, o>> \in L

Lasting(p, E, A, L) ==
  \A i \in DOMAIN p : Lasts(p[i], E, A) /\ (i < Len(p) => Leads(p[i], p[i + 1], E, L))

\* Frame k is about a selected output; what it found and what it has left to
\* visit are histories and outputs that its own output consumed.
GoodFrame(f, k, E) ==
  /\ f.doc \in E
  /\ <<f.doc[2], k - 1>> \in Selected
  /\ f.left \subseteq SourceOf(f.doc)
  /\ f.mined => f.doc[2] \in Mined
  /\ \A p \in f.paths : RealFrom(p, k, E) /\ p[1] \in SourceOf(f.doc)

\* A path that must be found starts at an output that is still to be visited, or it
\* was found, or it is about to be found in the frame above.
FindsAll(s, k, E, A, L) ==
  s[k].read =>
    \A q \in Seq(Outpoints) :
      /\ q # <<>>
      /\ ChosenFrom(q, k)
      /\ Lasts(s[k].doc[2], E, A)
      /\ Leads(s[k].doc[2], q[1], E, L)
      /\ Lasting(q, E, A, L)
      => \/ q[1] \in s[k].left
         \/ q \in s[k].paths
         \/ k < Len(s) /\ q[1] = s[k + 1].doc[2]

\* The stack is a chain of outputs, each consumed by the one below it.
Descends(s, k) ==
  k < Len(s) => s[k].read /\ s[k + 1].doc[2] \in SourceOf(s[k].doc)

WalkInv(s, E, A, L) ==
  \A k \in DOMAIN s : GoodFrame(s[k], k, E) /\ FindsAll(s, k, E, A, L) /\ Descends(s, k)

LookupShape ==
  /\ stored \subseteq ever
  /\ ever \subseteq Docs
  /\ always \subseteq stored
  /\ edges \subseteq Topics \X Outpoints \X Outpoints
  /\ status \in {"ask", "run", "answer", "error", "panic", "other"}
  /\ formula \in 1 .. Len(Formulas) + 1
  /\ stack \in Seq(HistoryFrame)
  /\ answers \in Seq([formula : 1 .. Len(Formulas), paths : SUBSET Seq(Outpoints)])
  /\ counted \in [change : Nat, failure : Nat]
  /\ status # "run" => stack = <<>>
  /\ status \in {"ask", "error", "panic"} => answers = <<>>
  /\ status = "answer" => formula = Len(Formulas) + 1

\* Edges are real, and those that stayed are there.
EdgeInv ==
  /\ \A t \in Topics, o, c \in Outpoints : <<t, o, c>> \in edges => o \in Source[t][c]
  /\ linked \subseteq edges

\* The walk is that of the formula it belongs to.
RootInv ==
  stack # <<>> =>
    /\ formula <= Len(Formulas)
    /\ Formulas[formula].selector
    /\ stack[1].doc[2] = Formulas[formula].outpoint

\* The formulas that are done have answers, in their order.
DoneInv ==
  /\ \A i \in DOMAIN answers :
        /\ answers[i].formula < formula
        /\ \A j \in DOMAIN answers : i < j => answers[i].formula < answers[j].formula
        /\ LET f == Formulas[answers[i].formula]
           IN f.selector => \A p \in answers[i].paths : RealFrom(p, 0, ever) /\ p[1] = f.outpoint
  /\ status \in {"run", "answer"} =>
        \A f \in 1 .. formula - 1 : Formulas[f].selector =>
          \A p \in Seq(Outpoints) :
            /\ p # <<>>
            /\ p[1] = Formulas[f].outpoint
            /\ ChosenFrom(p, 0)
            /\ Lasting(p, ever, always, linked)
            => \E i \in DOMAIN answers : answers[i].formula = f /\ p \in answers[i].paths
  /\ status = "ask" => formula = 1

LookupIInv ==
  LookupShape /\ EdgeInv /\ WalkInv(stack, ever, always, linked) /\ RootInv /\ DoneInv

-----------------------------------------------------------------------------
(* Paths and frames *)

\* A real path stays real.
LEMMA RealStays ==
  ASSUME NEW E, NEW E2, E \subseteq E2, NEW p, NEW k, RealFrom(p, k, E)
  PROVE  RealFrom(p, k, E2)
  BY DEF RealFrom

\* A path that must be found at the end had to be found all along.
LEMMA LastingLasted ==
  ASSUME NEW E, NEW E2, E \subseteq E2, NEW A, NEW A2, A2 \subseteq A, NEW L, NEW L2, L2 \subseteq L
  PROVE  /\ \A o : Lasts(o, E2, A2) => Lasts(o, E, A)
         /\ \A o, c : Leads(o, c, E2, L2) => Leads(o, c, E, L)
         /\ \A p : Lasting(p, E2, A2, L2) => Lasting(p, E, A, L)
<1>1. \A o : Lasts(o, E2, A2) => Lasts(o, E, A)
  BY DEF Lasts
<1>2. \A o, c : Leads(o, c, E2, L2) => Leads(o, c, E, L)
  BY DEF Leads
<1>3. \A p : Lasting(p, E2, A2, L2) => Lasting(p, E, A, L)
  BY <1>1, <1>2 DEF Lasting
<1>4. QED
  BY <1>1, <1>2, <1>3

\* Whatever else is stored or deleted leaves the walk as good as it was.
LEMMA WalkStays ==
  ASSUME NEW E, NEW E2, E \subseteq E2, NEW A, NEW A2, A2 \subseteq A, NEW L, NEW L2, L2 \subseteq L, NEW s,
         WalkInv(s, E, A, L)
  PROVE  WalkInv(s, E2, A2, L2)
<1> SUFFICES ASSUME NEW k \in DOMAIN s
             PROVE  GoodFrame(s[k], k, E2) /\ FindsAll(s, k, E2, A2, L2) /\ Descends(s, k)
  BY DEF WalkInv
<1>1. GoodFrame(s[k], k, E) /\ FindsAll(s, k, E, A, L) /\ Descends(s, k)
  BY DEF WalkInv
<1>2. GoodFrame(s[k], k, E2)
  BY <1>1, RealStays DEF GoodFrame
<1>3. FindsAll(s, k, E2, A2, L2)
  BY <1>1, LastingLasted DEF FindsAll
<1>4. QED
  BY <1>1, <1>2, <1>3

\* The first outpoint of a path and the rest of it.
LEMMA PathParts ==
  ASSUME NEW p \in Seq(Outpoints), p # <<>>
  PROVE  /\ p[1] \in Outpoints
         /\ Len(p) \in Nat /\ Len(p) >= 1 /\ DOMAIN p = 1 .. Len(p)
         /\ Tail(p) \in Seq(Outpoints)
         /\ p = <<p[1]>> \o Tail(p)
         /\ Len(Tail(p)) = Len(p) - 1
         /\ DOMAIN Tail(p) = 1 .. Len(p) - 1
         /\ \A i \in 1 .. Len(p) - 1 : Tail(p)[i] = p[i + 1]
         /\ Tail(p) = <<>> => p = <<p[1]>>
<1>1. /\ p[1] \in Outpoints
      /\ Len(p) \in Nat /\ Len(p) >= 1 /\ DOMAIN p = 1 .. Len(p)
  BY LenProperties, EmptySeq, ElementOfSeq
<1>2. /\ Tail(p) \in Seq(Outpoints)
      /\ Len(Tail(p)) = Len(p) - 1
      /\ \A i \in 1 .. Len(p) - 1 : Tail(p)[i] = p[i + 1]
  BY <1>1, HeadTailProperties
<1>3. DOMAIN Tail(p) = 1 .. Len(p) - 1
  BY <1>2, LenProperties
<1>4. PICK t \in Seq(Outpoints) : t = Tail(p)
  BY <1>2
<1>5. PICK h : h = <<p[1]>>
  OBVIOUS
<1>6. Len(h) = 1 /\ h[1] = p[1] /\ h \in Seq(Outpoints)
  BY <1>5, <1>1
<1>7. p = h \o t
  <2>1. /\ h \o t \in Seq(Outpoints)
        /\ Len(h \o t) = 1 + Len(t)
        /\ \A i \in 1 .. 1 + Len(t) : (h \o t)[i] = IF i <= 1 THEN h[i] ELSE t[i - 1]
    <3>1. /\ h \o t \in Seq(Outpoints)
          /\ Len(h \o t) = Len(h) + Len(t)
          /\ \A i \in 1 .. Len(h) + Len(t) :
                (h \o t)[i] = IF i <= Len(h) THEN h[i] ELSE t[i - Len(h)]
      BY <1>6, ConcatProperties
    <3>2. QED
      BY <3>1, <1>6
  <2>2. Len(h \o t) = Len(p)
    BY <2>1, <1>4, <1>2, <1>1
  <2>3. \A i \in 1 .. Len(p) : (h \o t)[i] = p[i]
    <3> SUFFICES ASSUME NEW i \in 1 .. Len(p) PROVE (h \o t)[i] = p[i]
      OBVIOUS
    <3>1. (h \o t)[i] = IF i <= 1 THEN h[i] ELSE t[i - 1]
      BY <2>1, <2>2
    <3>2. CASE i = 1
      BY <3>1, <3>2, <1>6
    <3>3. CASE i > 1
      <4>1. i - 1 \in 1 .. Len(p) - 1 /\ (i - 1) + 1 = i
        BY <3>3, <1>1
      <4>2. t[i - 1] = p[(i - 1) + 1]
        BY <4>1, <1>2, <1>4
      <4>3. QED
        BY <4>1, <4>2, <3>1, <3>3
    <3>4. i = 1 \/ i > 1
      BY <1>1
    <3>5. QED
      BY ONLY <3>2, <3>3, <3>4
  <2>4. QED
    BY <2>1, <2>2, <2>3, SeqEqual
<1>8. Tail(p) = <<>> => p = <<p[1]>>
  BY <1>7, <1>5, <1>4, <1>6, ConcatEmptySeq
<1>9. QED
  BY <1>1, <1>2, <1>3, <1>7, <1>4, <1>5, <1>8

\* What a path asks of itself it asks of its rest.
LEMMA RestOfPath ==
  ASSUME NEW p \in Seq(Outpoints), p # <<>>, NEW k \in Nat, NEW E, NEW A, NEW L,
         ChosenFrom(p, k), Lasting(p, E, A, L), Tail(p) # <<>>
  PROVE  /\ ChosenFrom(Tail(p), k + 1)
         /\ Lasting(Tail(p), E, A, L)
         /\ Lasts(p[1], E, A)
         /\ Leads(p[1], Tail(p)[1], E, L)
<1>1. PICK t : t = Tail(p)
  OBVIOUS
<1>2. /\ t \in Seq(Outpoints) /\ t # <<>>
      /\ Len(p) \in Nat /\ DOMAIN p = 1 .. Len(p)
      /\ Len(t) = Len(p) - 1 /\ DOMAIN t = 1 .. Len(p) - 1
      /\ \A i \in 1 .. Len(p) - 1 : t[i] = p[i + 1]
  BY <1>1, PathParts
<1>3. Len(p) >= 2
  BY <1>2, EmptySeq, LenProperties
<1>4. ChosenFrom(t, k + 1)
  <2> SUFFICES ASSUME NEW i \in DOMAIN t PROVE <<t[i], (i - 1) + (k + 1)>> \in Selected
    BY DEF ChosenFrom
  <2>1. i + 1 \in DOMAIN p /\ t[i] = p[i + 1] /\ ((i + 1) - 1) + k = (i - 1) + (k + 1)
    BY <1>2
  <2>2. <<p[i + 1], ((i + 1) - 1) + k>> \in Selected
    BY <2>1 DEF ChosenFrom
  <2>3. QED
    BY <2>1, <2>2
<1>5. Lasting(t, E, A, L)
  <2> SUFFICES ASSUME NEW i \in DOMAIN t
               PROVE  Lasts(t[i], E, A) /\ (i < Len(t) => Leads(t[i], t[i + 1], E, L))
    BY DEF Lasting
  <2>1. i + 1 \in DOMAIN p /\ t[i] = p[i + 1]
        /\ (i < Len(t) => i + 1 < Len(p) /\ t[i + 1] = p[(i + 1) + 1])
    BY <1>2
  <2>2. QED
    BY <2>1 DEF Lasting
<1>6. 1 \in DOMAIN p /\ 1 < Len(p) /\ t[1] = p[1 + 1]
  BY <1>2, <1>3
<1>7. Lasts(p[1], E, A) /\ Leads(p[1], t[1], E, L)
  BY <1>6 DEF Lasting
<1>8. QED
  BY <1>1, <1>4, <1>5, <1>7

\* The paths of a frame are sequences of outpoints.
LEMMA PathsAreSequences ==
  ASSUME NEW f \in HistoryFrame
  PROVE  Paths(f) \subseteq Seq(Outpoints)
<1>1. PICK h : h = <<f.doc[2]>>
  OBVIOUS
<1>2. h \in Seq(Outpoints)
  BY <1>1 DEF HistoryFrame, Docs
<1>3. \A p \in f.paths : h \o p \in Seq(Outpoints)
  BY <1>2, ConcatProperties DEF HistoryFrame
<1>4. QED
  BY <1>1, <1>2, <1>3 DEF Paths

\* The paths that a frame hands down are real and start at its own output.
LEMMA PathsAreReal ==
  ASSUME NEW f \in HistoryFrame, NEW k \in Nat, k >= 1, NEW E, GoodFrame(f, k, E), E \subseteq Docs
  PROVE  \A p \in Paths(f) : RealFrom(p, k - 1, E) /\ p[1] = f.doc[2]
<1> DEFINE o == f.doc[2]
<1>0. f.doc \in E /\ f.doc \in Docs /\ f.doc = <<f.doc[1], o>> /\ f.doc[1] \in Topics /\ o \in Outpoints
  BY DEF GoodFrame, Docs, HistoryFrame
<1>1. PICK h : h = <<o>>
  OBVIOUS
<1>2. h \in Seq(Outpoints) /\ Len(h) = 1 /\ h[1] = o /\ h # <<>> /\ DOMAIN h = 1 .. 1
  BY <1>0, <1>1
<1>3. RealFrom(h, k - 1, E)
  <2>1. ChosenFrom(h, k - 1)
    BY <1>2 DEF GoodFrame, ChosenFrom
  <2>2. \A i \in DOMAIN h : \E t \in Topics :
          <<t, h[i]>> \in E /\ (i < Len(h) => h[i + 1] \in Source[t][h[i]])
    BY <1>0, <1>2
  <2>3. QED
    BY <2>1, <2>2, <1>2 DEF RealFrom
<1>4. ASSUME NEW p \in f.paths
      PROVE  RealFrom(h \o p, k - 1, E) /\ (h \o p)[1] = o
  <2>1. RealFrom(p, k, E) /\ p[1] \in SourceOf(f.doc)
    BY <1>4 DEF GoodFrame
  <2>2. p \in Seq(Outpoints) /\ p # <<>> /\ Len(p) \in Nat /\ Len(p) >= 1 /\ DOMAIN p = 1 .. Len(p)
    BY <2>1, LenProperties, EmptySeq DEF RealFrom
  <2>3. PICK r : r = h \o p
    OBVIOUS
  <2>4. /\ r \in Seq(Outpoints) /\ Len(r) = 1 + Len(p)
        /\ \A i \in 1 .. 1 + Len(p) : r[i] = IF i <= 1 THEN h[i] ELSE p[i - 1]
    <3>1. /\ h \o p \in Seq(Outpoints)
          /\ Len(h \o p) = Len(h) + Len(p)
          /\ \A i \in 1 .. Len(h) + Len(p) :
                (h \o p)[i] = IF i <= Len(h) THEN h[i] ELSE p[i - Len(h)]
      BY <1>2, <2>2, ConcatProperties
    <3>2. QED
      BY <3>1, <1>2, <2>3
  <2>5. /\ DOMAIN r = 1 .. 1 + Len(p) /\ r # <<>>
        /\ r[1] = o
        /\ \A i \in 1 .. Len(p) : r[i + 1] = p[i]
    <3>1. DOMAIN r = 1 .. 1 + Len(p) /\ r # <<>>
      BY <2>4, <2>2, LenProperties, EmptySeq
    <3>2. r[1] = o
      BY <2>4, <2>2, <1>2
    <3>3. ASSUME NEW i \in 1 .. Len(p) PROVE r[i + 1] = p[i]
      <4>1. i + 1 \in 1 .. 1 + Len(p) /\ ~(i + 1 <= 1) /\ (i + 1) - 1 = i
        BY <2>2
      <4>2. QED
        BY <4>1, <2>4
    <3>4. QED
      BY <3>1, <3>2, <3>3
  <2>6. ASSUME NEW i \in DOMAIN r, i # 1
        PROVE  \E j \in 1 .. Len(p) : i = j + 1 /\ r[i] = p[j]
    <3>1. i - 1 \in 1 .. Len(p) /\ i = (i - 1) + 1
      BY <2>6, <2>5, <2>2
    <3>2. QED
      BY <3>1, <2>5
  <2>7. ChosenFrom(r, k - 1)
    <3> SUFFICES ASSUME NEW i \in DOMAIN r PROVE <<r[i], (i - 1) + (k - 1)>> \in Selected
      BY DEF ChosenFrom
    <3>1. CASE i = 1
      BY <3>1, <2>5 DEF GoodFrame
    <3>2. CASE i # 1
      <4>1. PICK j \in 1 .. Len(p) : i = j + 1 /\ r[i] = p[j]
        BY <3>2, <2>6
      <4>2. <<p[j], (j - 1) + k>> \in Selected
        BY <2>1, <2>2 DEF RealFrom, ChosenFrom
      <4>3. (i - 1) + (k - 1) = (j - 1) + k
        BY <4>1
      <4>4. QED
        BY <4>1, <4>2, <4>3
    <3>3. QED
      BY <3>1, <3>2
  <2>8. ASSUME NEW i \in DOMAIN r
        PROVE  \E t \in Topics : <<t, r[i]>> \in E /\ (i < Len(r) => r[i + 1] \in Source[t][r[i]])
    <3>1. CASE i = 1
      <4>1. r[2] = p[1]
        BY <2>5, <2>2
      <4>2. <<f.doc[1], r[1]>> \in E /\ r[1 + 1] \in Source[f.doc[1]][r[1]]
        BY <4>1, <2>5, <2>1, <1>0 DEF SourceOf
      <4>3. QED
        BY <4>2, <3>1, <1>0
    <3>2. CASE i # 1
      <4>1. PICK j \in 1 .. Len(p) : i = j + 1 /\ r[i] = p[j]
        BY <3>2, <2>6
      <4>2. PICK t \in Topics : <<t, p[j]>> \in E /\ (j < Len(p) => p[j + 1] \in Source[t][p[j]])
        BY <2>1, <2>2 DEF RealFrom
      <4>3. i < Len(r) => j < Len(p) /\ j + 1 \in 1 .. Len(p) /\ i + 1 = (j + 1) + 1
        BY <4>1, <2>4, <2>2
      <4>4. i < Len(r) => r[i + 1] = p[j + 1]
        BY <4>3, <2>5
      <4>5. QED
        BY <4>1, <4>2, <4>3, <4>4
    <3>3. QED
      BY <3>1, <3>2
  <2>9. QED
    BY <2>3, <2>4, <2>5, <2>7, <2>8 DEF RealFrom
<1>5. QED
  BY <1>1, <1>2, <1>3, <1>4 DEF Paths

\* A frame that has visited everything hands down every path that must be found.
LEMMA PathsAreComplete ==
  ASSUME NEW s \in Seq(HistoryFrame), s # <<>>, NEW E, NEW A, NEW L,
         FindsAll(s, Len(s), E, A, L), s[Len(s)].read, s[Len(s)].left = {},
         s[Len(s)].mined => s[Len(s)].doc[2] \in Mined,
         NEW p \in Seq(Outpoints), p # <<>>, p[1] = s[Len(s)].doc[2],
         ChosenFrom(p, Len(s) - 1), Lasting(p, E, A, L)
  PROVE  p \in Paths(s[Len(s)])
<1>0. PICK n \in Nat : n = Len(s) /\ n >= 1
  BY LenProperties, EmptySeq
<1>1. CASE Tail(p) = <<>>
  BY <1>1, PathParts DEF Paths
<1>2. CASE Tail(p) # <<>>
  <2>1. PICK q \in Seq(Outpoints) : q = Tail(p) /\ p = <<p[1]>> \o q /\ q # <<>>
    BY <1>2, PathParts
  <2>2. n - 1 \in Nat /\ (n - 1) + 1 = n
    BY <1>0
  <2>3. ChosenFrom(q, n) /\ Lasting(q, E, A, L) /\ Lasts(p[1], E, A) /\ Leads(p[1], q[1], E, L)
    BY <2>1, <2>2, <1>0, <1>2, RestOfPath
  <2>4. q \in s[n].paths
    <3>1. FindsAll(s, n, E, A, L) /\ s[n].read /\ s[n].left = {} /\ s[n].doc[2] = p[1] /\ ~(n < Len(s))
      BY <1>0
    <3>2. q[1] \in s[n].left \/ q \in s[n].paths \/ (n < Len(s) /\ q[1] = s[n + 1].doc[2])
      <4>1. Lasts(s[n].doc[2], E, A) /\ Leads(s[n].doc[2], q[1], E, L)
        BY <3>1, <2>3
      <4>2. QED
        BY <4>1, <3>1, <2>1, <2>3, Zenon DEF FindsAll
    <3>3. QED
      BY <3>1, <3>2
  <2>5. ~s[n].mined
    BY <2>3, <1>0 DEF Leads
  <2>6. QED
    BY <2>1, <2>4, <2>5, <1>0 DEF Paths
<1>3. QED
  BY <1>1, <1>2

-----------------------------------------------------------------------------
(* The stack *)

\* Only the frame on top is replaced.
LEMMA TopReplaced ==
  ASSUME NEW S, NEW s \in Seq(S), s # <<>>, NEW f \in S, NEW t, t = [s EXCEPT ![Len(s)] = f]
  PROVE  /\ t \in Seq(S) /\ Len(t) = Len(s) /\ Len(s) \in Nat /\ Len(s) >= 1
         /\ t[Len(s)] = f
         /\ \A k \in 1 .. Len(s) - 1 : t[k] = s[k]
<1>1. Len(s) \in Nat /\ Len(s) >= 1 /\ DOMAIN s = 1 .. Len(s)
  BY LenProperties, EmptySeq
<1>2. Len(s) \in 1 .. Len(s)
  BY <1>1
<1>3. t \in Seq(S) /\ Len(t) = Len(s)
  BY <1>2, ExceptSeq
<1>4. t[Len(s)] = f /\ \A k \in 1 .. Len(s) - 1 : t[k] = s[k]
  <2>1. PICK n \in Nat : n = Len(s)
    BY <1>1
  <2>2. n \in DOMAIN s /\ t = [s EXCEPT ![n] = f]
    BY <1>1, <2>1
  <2>3. t[n] = f /\ \A k \in DOMAIN s : k # n => t[k] = s[k]
    BY <2>2
  <2>4. \A k \in 1 .. n - 1 : k \in DOMAIN s /\ k # n
    <3>1. DOMAIN s = 1 .. n
      BY <1>1, <2>1
    <3>2. QED
      BY ONLY <3>1, n \in Nat
  <2>5. QED
    BY <2>1, <2>3, <2>4
<1>5. QED
  BY <1>1, <1>3, <1>4

\* The frames below the one on top.
LEMMA FramesBelow ==
  ASSUME NEW s \in Seq(HistoryFrame), NEW n \in Nat, Len(s) = n + 1
  PROVE  /\ Front(s) \in Seq(HistoryFrame) /\ Len(Front(s)) = n
         /\ \A k \in 1 .. n : Front(s)[k] = s[k]
<1>1. n <= Len(s) /\ \A i \in 1 .. n : s[i] \in HistoryFrame
  BY ElementOfSeq
<1>2. Front(s) = [i \in 1 .. n |-> s[i]]
  BY <1>1 DEF Front
<1>3. QED
  BY <1>1, <1>2, IsASeq

\* What is below a change of the stack is as good as before, as long as the output of
\* frame n stays the same.
LEMMA BelowStays ==
  ASSUME NEW s \in Seq(HistoryFrame), NEW t \in Seq(HistoryFrame),
         NEW n \in Nat, n <= Len(s), n <= Len(t),
         \A k \in 1 .. n - 1 : t[k] = s[k],
         t[n].doc = s[n].doc,
         NEW E, NEW A, NEW L, WalkInv(s, E, A, L),
         NEW k \in 1 .. n - 1
  PROVE  GoodFrame(t[k], k, E) /\ FindsAll(t, k, E, A, L) /\ Descends(t, k)
<1>1. Len(s) \in Nat /\ Len(t) \in Nat /\ DOMAIN s = 1 .. Len(s)
  BY LenProperties
<1>2. k \in DOMAIN s /\ k < Len(s) /\ k < Len(t) /\ k + 1 \in 1 .. n
  BY <1>1
<1>3. t[k] = s[k]
  OBVIOUS
<1>4. t[k + 1].doc = s[k + 1].doc
  <2>1. CASE k + 1 = n
    BY <2>1
  <2>2. CASE k + 1 # n
    <3>1. k + 1 \in 1 .. n - 1
      BY <2>2, <1>2
    <3>2. QED
      BY <3>1
  <2>3. QED
    BY <2>1, <2>2
<1>5. GoodFrame(s[k], k, E) /\ FindsAll(s, k, E, A, L) /\ Descends(s, k)
  BY <1>2 DEF WalkInv
<1>6. GoodFrame(t[k], k, E)
  BY <1>3, <1>5
<1>7. FindsAll(t, k, E, A, L)
  BY <1>2, <1>3, <1>4, <1>5 DEF FindsAll
<1>8. Descends(t, k)
  BY <1>2, <1>3, <1>4, <1>5 DEF Descends
<1>9. QED
  BY <1>6, <1>7, <1>8

\* A new frame on top.
LEMMA TopChanges ==
  ASSUME NEW s \in Seq(HistoryFrame), NEW t \in Seq(HistoryFrame),
         NEW n \in Nat, n >= 1, n <= Len(s), n = Len(t),
         \A k \in 1 .. n - 1 : t[k] = s[k],
         t[n].doc = s[n].doc,
         NEW E, NEW A, NEW L, WalkInv(s, E, A, L),
         GoodFrame(t[n], n, E), FindsAll(t, n, E, A, L)
  PROVE  WalkInv(t, E, A, L)
<1> SUFFICES ASSUME NEW k \in DOMAIN t
             PROVE  GoodFrame(t[k], k, E) /\ FindsAll(t, k, E, A, L) /\ Descends(t, k)
  BY DEF WalkInv
<1>1. k \in 1 .. n
  BY LenProperties
<1>2. CASE k = n
  BY <1>2 DEF Descends
<1>3. CASE k # n
  <2>1. k \in 1 .. n - 1 /\ n <= Len(t)
    BY <1>1, <1>3
  <2>2. QED
    BY <2>1, BelowStays
<1>4. QED
  BY <1>2, <1>3

-----------------------------------------------------------------------------
(* Each step keeps the invariant *)

LEMMA LookupInitially ==
  ASSUME LookupAssumption, LookupInit
  PROVE  LookupIInv
<1>1. LookupShape
  <2>1. edges \subseteq Topics \X Outpoints \X Outpoints
    BY DEF LookupInit, EdgesOf
  <2>2. formula \in 1 .. Len(Formulas) + 1
    BY LenProperties DEF LookupAssumption, LookupInit
  <2>3. stack \in Seq(HistoryFrame)
        /\ answers \in Seq([formula : 1 .. Len(Formulas), paths : SUBSET Seq(Outpoints)])
    BY DEF LookupInit
  <2>4. QED
    BY <2>1, <2>2, <2>3 DEF LookupInit, LookupShape
<1>2. EdgeInv
  BY DEF LookupInit, EdgesOf, EdgeInv
<1>3. WalkInv(stack, ever, always, linked) /\ RootInv
  BY DEF LookupInit, WalkInv, RootInv
<1>4. DoneInv
  BY DEF LookupInit, DoneInv
<1>5. QED
  BY <1>1, <1>2, <1>3, <1>4 DEF LookupIInv

\* Documents come into `ever' and leave `always'.
LEMMA HistoryGrows ==
  ASSUME [LookupNext]_lookupVars
  PROVE  ever \subseteq ever' /\ always' \subseteq always /\ linked' \subseteq linked
  BY DEF LookupNext, LookupStep, lookupVars, Admit, Delete, UpdateConsumedBy, LookupOther, LookupFormulas,
         LookupFails, FindRoot, AnswerAsIs, SkipFormula, ReadEdges, FindChild, SkipChild,
         ReturnChild, MissingBeef, NilBeef, AppendAnswer, Answer

\* The frame on top.
LEMMA TopIsFrame ==
  ASSUME LookupShape, stack # <<>>
  PROVE  /\ Len(stack) \in Nat /\ Len(stack) >= 1
         /\ Top = stack[Len(stack)] /\ Top \in HistoryFrame
<1>1. Len(stack) \in Nat /\ Len(stack) >= 1
  BY LenProperties, EmptySeq DEF LookupShape
<1>2. Len(stack) \in 1 .. Len(stack)
  BY <1>1
<1>3. QED
  BY <1>1, <1>2, ElementOfSeq DEF LookupShape, Top, Last

\* What a step does to the stack, with the frames that change.
LEMMA ReadsFrame ==
  ASSUME LookupShape, NEW mined \in BOOLEAN, ReadEdges(mined)
  PROVE  LET n == Len(stack) IN
         /\ stack # <<>> /\ n \in Nat /\ n >= 1
         /\ stack' \in Seq(HistoryFrame) /\ Len(stack') = n
         /\ \A k \in 1 .. n - 1 : stack'[k] = stack[k]
         /\ stack[n] \in HistoryFrame /\ ~stack[n].read
         /\ stack'[n].doc = stack[n].doc /\ stack'[n].paths = stack[n].paths
         /\ stack'[n].left = {o \in Outpoints : <<stack[n].doc[1], o, stack[n].doc[2]>> \in edges}
         /\ stack'[n].mined => stack[n].doc[2] \in Mined
<1>1. stack # <<>> /\ ~Top.read
  BY DEF ReadEdges
<1>2. PICK n \in Nat : n = Len(stack) /\ n >= 1 /\ Top = stack[n] /\ Top \in HistoryFrame
  BY <1>1, TopIsFrame
<1>3. PICK left : left = {o \in Outpoints : <<Top.doc[1], o, Top.doc[2]>> \in edges}
  OBVIOUS
<1>4. PICK f : f = [Top EXCEPT !.read = TRUE, !.left = left, !.spends = left # {}, !.mined = mined]
  OBVIOUS
<1>5. /\ f \in HistoryFrame /\ f.doc = Top.doc /\ f.paths = Top.paths
      /\ f.left = left /\ f.mined = mined
  BY <1>2, <1>3, <1>4 DEF HistoryFrame
<1>6. stack' = [stack EXCEPT ![Len(stack)] = f] /\ (mined => Top.doc[2] \in Mined)
  BY <1>3, <1>4 DEF ReadEdges, SetTop
<1>7. stack \in Seq(HistoryFrame)
  BY DEF LookupShape
<1>8. /\ stack' \in Seq(HistoryFrame) /\ Len(stack') = Len(stack) /\ stack'[Len(stack)] = f
      /\ \A k \in 1 .. Len(stack) - 1 : stack'[k] = stack[k]
  BY ONLY <1>1, <1>5, <1>6, <1>7, TopReplaced
<1>9. QED
  BY <1>1, <1>2, <1>3, <1>5, <1>6, <1>8

LEMMA SkipsChild ==
  ASSUME LookupShape, NEW o \in Outpoints, SkipChild(o)
  PROVE  LET n == Len(stack) IN
         /\ stack # <<>> /\ n \in Nat /\ n >= 1
         /\ stack' \in Seq(HistoryFrame) /\ Len(stack') = n
         /\ \A k \in 1 .. n - 1 : stack'[k] = stack[k]
         /\ stack[n] \in HistoryFrame /\ stack[n].read
         /\ stack'[n].doc = stack[n].doc /\ stack'[n].paths = stack[n].paths
         /\ stack'[n].left = stack[n].left \ {o} /\ stack'[n].mined = stack[n].mined
<1>1. stack # <<>> /\ Top.read
  BY DEF SkipChild
<1>2. PICK n \in Nat : n = Len(stack) /\ n >= 1 /\ Top = stack[n] /\ Top \in HistoryFrame
  BY <1>1, TopIsFrame
<1>3. PICK f : f = [Top EXCEPT !.left = @ \ {o}]
  OBVIOUS
<1>4. /\ f \in HistoryFrame /\ f.doc = Top.doc /\ f.paths = Top.paths
      /\ f.left = Top.left \ {o} /\ f.mined = Top.mined
  BY <1>2, <1>3 DEF HistoryFrame
<1>5. stack' = [stack EXCEPT ![Len(stack)] = f]
  BY <1>3 DEF SkipChild, SetTop
<1>6. stack \in Seq(HistoryFrame)
  BY DEF LookupShape
<1>7. /\ stack' \in Seq(HistoryFrame) /\ Len(stack') = Len(stack) /\ stack'[Len(stack)] = f
      /\ \A k \in 1 .. Len(stack) - 1 : stack'[k] = stack[k]
  BY ONLY <1>1, <1>4, <1>5, <1>6, TopReplaced
<1>8. QED
  BY <1>1, <1>2, <1>4, <1>7

LEMMA FindsChild ==
  ASSUME LookupShape, NEW o \in Outpoints, NEW d \in Docs, FindChild(o, d)
  PROVE  LET n == Len(stack) IN
         /\ stack # <<>> /\ n \in Nat /\ n >= 1
         /\ stack' \in Seq(HistoryFrame) /\ Len(stack') = n + 1
         /\ \A k \in 1 .. n - 1 : stack'[k] = stack[k]
         /\ stack[n] \in HistoryFrame /\ stack[n].read /\ o \in stack[n].left
         /\ stack'[n].doc = stack[n].doc /\ stack'[n].paths = stack[n].paths
         /\ stack'[n].left = stack[n].left \ {o} /\ stack'[n].read
         /\ stack'[n].mined = stack[n].mined
         /\ stack'[n + 1] = Frame(d)
<1>1. stack # <<>> /\ Top.read /\ o \in Top.left
  BY DEF FindChild
<1>2. PICK n \in Nat : n = Len(stack) /\ n >= 1 /\ Top = stack[n] /\ Top \in HistoryFrame
  BY <1>1, TopIsFrame
<1>3. PICK f : f = [Top EXCEPT !.left = @ \ {o}]
  OBVIOUS
<1>4. /\ f \in HistoryFrame /\ f.doc = Top.doc /\ f.paths = Top.paths
      /\ f.left = Top.left \ {o} /\ f.read /\ f.mined = Top.mined
  BY <1>1, <1>2, <1>3 DEF HistoryFrame
<1>5. PICK r : r = [stack EXCEPT ![Len(stack)] = f]
  OBVIOUS
<1>6. stack \in Seq(HistoryFrame) /\ Frame(d) \in HistoryFrame
  BY DEF LookupShape, Frame, HistoryFrame
<1>7. /\ r \in Seq(HistoryFrame) /\ Len(r) = Len(stack) /\ r[Len(stack)] = f
      /\ \A k \in 1 .. Len(stack) - 1 : r[k] = stack[k]
  BY ONLY <1>1, <1>4, <1>5, <1>6, TopReplaced
<1>8. stack' = Append(r, Frame(d))
  BY <1>3, <1>5 DEF FindChild, SetTop
<1>9. /\ stack' \in Seq(HistoryFrame) /\ Len(stack') = Len(r) + 1 /\ stack'[Len(r) + 1] = Frame(d)
      /\ \A k \in 1 .. Len(r) : stack'[k] = r[k]
  BY ONLY <1>6, <1>7, <1>8, AppendProperties
<1>10. /\ stack' \in Seq(HistoryFrame) /\ Len(stack') = n + 1 /\ stack'[n + 1] = Frame(d)
       /\ stack'[n] = f /\ \A k \in 1 .. n - 1 : stack'[k] = stack[k]
  BY <1>2, <1>7, <1>9
<1>11. QED
  BY <1>1, <1>2, <1>4, <1>10

LEMMA ReturnsChild ==
  ASSUME LookupShape, ReturnChild
  PROVE  LET n == Len(stack) - 1 IN
         /\ stack # <<>> /\ n \in Nat /\ n >= 1 /\ Len(stack) = n + 1
         /\ stack' \in Seq(HistoryFrame) /\ Len(stack') = n
         /\ \A k \in 1 .. n - 1 : stack'[k] = stack[k]
         /\ stack[n] \in HistoryFrame /\ stack[n + 1] \in HistoryFrame
         /\ stack[n + 1].read /\ stack[n + 1].left = {}
         /\ stack'[n].doc = stack[n].doc /\ stack'[n].left = stack[n].left
         /\ stack'[n].paths = IF stack[n + 1].doc[2] \in NoBeef
                              THEN stack[n].paths ELSE stack[n].paths \cup Paths(stack[n + 1])
         /\ stack'[n].read = stack[n].read /\ stack'[n].mined = stack[n].mined
<1>1. stack \in Seq(HistoryFrame) /\ Len(stack) > 1 /\ Top.read /\ Top.left = {}
  BY DEF LookupShape, ReturnChild, Collected
<1>2. PICK n \in Nat : n = Len(stack) - 1 /\ Len(stack) = n + 1 /\ n >= 1
  BY <1>1, LenProperties
<1>3. n \in 1 .. Len(stack) /\ n + 1 \in 1 .. Len(stack) /\ stack # <<>>
  BY <1>1, <1>2, EmptySeq
<1>4. stack[n] \in HistoryFrame /\ stack[n + 1] \in HistoryFrame /\ Top = stack[n + 1]
  BY <1>1, <1>2, <1>3, ElementOfSeq DEF Top, Last
<1>5. Paths(stack[n + 1]) \subseteq Seq(Outpoints)
  BY <1>4, PathsAreSequences
<1>6. PICK f : f = IF stack[n + 1].doc[2] \in NoBeef
                   THEN [stack[n] EXCEPT !.missing = TRUE]
                   ELSE [stack[n] EXCEPT !.paths = @ \cup Paths(stack[n + 1])]
  OBVIOUS
<1>7. /\ f \in HistoryFrame /\ f.doc = stack[n].doc /\ f.left = stack[n].left
      /\ f.read = stack[n].read /\ f.mined = stack[n].mined
      /\ f.paths = IF stack[n + 1].doc[2] \in NoBeef
                   THEN stack[n].paths ELSE stack[n].paths \cup Paths(stack[n + 1])
  <2>1. CASE stack[n + 1].doc[2] \in NoBeef
    BY <2>1, <1>4, <1>6 DEF HistoryFrame
  <2>2. CASE stack[n + 1].doc[2] \notin NoBeef
    BY <2>2, <1>4, <1>5, <1>6 DEF HistoryFrame
  <2>3. QED
    BY <2>1, <2>2
<1>8. PICK r : r = Front(stack)
  OBVIOUS
<1>9. /\ stack' \in Seq(HistoryFrame) /\ Len(stack') = n /\ stack'[n] = f
      /\ \A k \in 1 .. n - 1 : stack'[k] = stack[k]
  <2>1. r \in Seq(HistoryFrame) /\ Len(r) = n /\ \A k \in 1 .. n : r[k] = stack[k]
    BY <1>1, <1>2, <1>8, FramesBelow
  <2>2. r # <<>> /\ f \in HistoryFrame
    BY <2>1, <1>2, <1>7, EmptySeq
  <2>3. stack' = [r EXCEPT ![Len(r)] = f]
    BY <2>1, <1>2, <1>4, <1>6, <1>8 DEF ReturnChild
  <2>4. r \in Seq(HistoryFrame)
    BY <2>1
  <2>5. /\ stack' \in Seq(HistoryFrame) /\ Len(stack') = Len(r) /\ stack'[Len(r)] = f
        /\ \A k \in 1 .. Len(r) - 1 : stack'[k] = r[k]
    BY ONLY <2>2, <2>3, <2>4, TopReplaced
  <2>6. QED
    BY <2>1, <2>5
<1>10. QED
  BY <1>1, <1>2, <1>3, <1>4, <1>7, <1>9

\* ReadEdges finds every output that must be visited.
LEMMA WalkReads ==
  ASSUME LookupAssumption, LookupIInv, NEW mined \in BOOLEAN, ReadEdges(mined)
  PROVE  WalkInv(stack', ever, always, linked)
<1>1. LookupShape /\ EdgeInv /\ WalkInv(stack, ever, always, linked)
  BY DEF LookupIInv
<1>2. PICK s \in Seq(HistoryFrame) : s = stack
  BY <1>1 DEF LookupShape
<1>3. PICK n \in Nat : n = Len(s) /\ n >= 1
  BY <1>1, <1>2, ReadsFrame
<1>4. PICK t : t = stack'
  OBVIOUS
<1>5. /\ t \in Seq(HistoryFrame) /\ Len(t) = n /\ \A k \in 1 .. n - 1 : t[k] = s[k]
      /\ s[n] \in HistoryFrame /\ t[n].doc = s[n].doc /\ t[n].paths = s[n].paths
      /\ t[n].left = {o \in Outpoints : <<s[n].doc[1], o, s[n].doc[2]>> \in edges}
      /\ t[n].mined => s[n].doc[2] \in Mined
  BY <1>1, <1>2, <1>3, <1>4, ReadsFrame
<1>6. n \in DOMAIN s
  BY <1>3, LenProperties
<1>7. GoodFrame(s[n], n, ever) /\ WalkInv(s, ever, always, linked)
  BY <1>1, <1>2, <1>6 DEF WalkInv
<1>8. PICK d \in Docs : d = s[n].doc /\ d \in ever /\ d = <<d[1], d[2]>> /\ d[1] \in Topics /\ d[2] \in Outpoints
  BY <1>5, <1>7 DEF HistoryFrame, Docs, GoodFrame
<1>9. t[n].left \subseteq SourceOf(d)
  BY <1>1, <1>5, <1>8 DEF EdgeInv, SourceOf
<1>10. GoodFrame(t[n], n, ever)
  BY <1>5, <1>7, <1>8, <1>9 DEF GoodFrame
<1>11. FindsAll(t, n, ever, always, linked)
  <2> SUFFICES ASSUME NEW q \in Seq(Outpoints), q # <<>>, Lasts(d[2], ever, always), Leads(d[2], q[1], ever, linked)
               PROVE  q[1] \in t[n].left
    BY <1>5, <1>8 DEF FindsAll
  <2>1. q[1] \in Outpoints
    BY PathParts
  <2>2. <<d[1], q[1], d[2]>> \in linked
    BY <1>8 DEF Leads
  <2>3. <<d[1], q[1], d[2]>> \in edges
    BY <2>2, <1>1 DEF EdgeInv
  <2>4. QED
    BY <2>1, <2>3, <1>5, <1>8
<1>12. n <= Len(s) /\ n = Len(t)
  BY <1>3, <1>5
<1>13. WalkInv(t, ever, always, linked)
  BY <1>3, <1>5, <1>7, <1>10, <1>11, <1>12, TopChanges
<1>14. QED
  BY <1>4, <1>13

\* An output that is left out was not selected or did not stay.
LEMMA WalkSkips ==
  ASSUME LookupAssumption, LookupIInv, NEW o \in Outpoints, SkipChild(o)
  PROVE  WalkInv(stack', ever, always, linked)
<1>1. LookupShape /\ WalkInv(stack, ever, always, linked)
  BY DEF LookupIInv
<1>2. PICK s \in Seq(HistoryFrame) : s = stack
  BY <1>1 DEF LookupShape
<1>3. PICK n \in Nat : n = Len(s) /\ n >= 1
  BY <1>1, <1>2, SkipsChild
<1>4. PICK t : t = stack'
  OBVIOUS
<1>5. /\ t \in Seq(HistoryFrame) /\ Len(t) = n /\ \A k \in 1 .. n - 1 : t[k] = s[k]
      /\ s[n].read /\ t[n].doc = s[n].doc /\ t[n].paths = s[n].paths
      /\ t[n].left = s[n].left \ {o} /\ t[n].mined = s[n].mined
  BY <1>1, <1>2, <1>3, <1>4, SkipsChild
<1>6. n \in DOMAIN s
  BY <1>3, LenProperties
<1>7. GoodFrame(s[n], n, ever) /\ FindsAll(s, n, ever, always, linked) /\ WalkInv(s, ever, always, linked)
  BY <1>1, <1>2, <1>6 DEF WalkInv
<1>8. GoodFrame(t[n], n, ever)
  BY <1>5, <1>7 DEF GoodFrame
<1>9. ASSUME NEW q \in Seq(Outpoints), q # <<>>, ChosenFrom(q, n), Lasting(q, ever, always, linked), q[1] = o
      PROVE  FALSE
  <2>1. 1 \in DOMAIN q
    BY <1>9, PathParts
  <2>2. <<o, (1 - 1) + n>> \in Selected /\ (1 - 1) + n = n
    BY <2>1, <1>9 DEF ChosenFrom
  <2>3. historySelector(o, Depth)
    BY <2>2, <1>2, <1>3 DEF historySelector, Depth
  <2>4. PICK d \in always : d[2] = o
    BY <2>1, <1>9 DEF Lasting, Lasts
  <2>5. d \in Found(o)
    BY <2>4, <1>1 DEF Found, LookupShape
  <2>6. QED
    BY <2>3, <2>5 DEF SkipChild
<1>10. FindsAll(t, n, ever, always, linked)
  <2> SUFFICES ASSUME NEW q \in Seq(Outpoints), q # <<>>, ChosenFrom(q, n), Lasts(s[n].doc[2], ever, always),
                      Leads(s[n].doc[2], q[1], ever, linked), Lasting(q, ever, always, linked)
               PROVE  q[1] \in t[n].left \/ q \in t[n].paths
    BY <1>5 DEF FindsAll
  <2>1. q[1] \in s[n].left \/ q \in s[n].paths \/ n < Len(s)
    BY <1>5, <1>7 DEF FindsAll
  <2>2. q[1] # o
    BY <1>9
  <2>3. QED
    BY <2>1, <2>2, <1>3, <1>5
<1>11. n <= Len(s) /\ n = Len(t)
  BY <1>3, <1>5
<1>12. WalkInv(t, ever, always, linked)
  BY <1>3, <1>5, <1>7, <1>8, <1>10, <1>11, TopChanges
<1>13. QED
  BY <1>4, <1>12

\* The child takes over the paths that start at its output.
LEMMA WalkDescends ==
  ASSUME LookupAssumption, LookupIInv, NEW o \in Outpoints, NEW c \in Docs, FindChild(o, c)
  PROVE  WalkInv(stack', ever, always, linked)
<1>1. LookupShape /\ WalkInv(stack, ever, always, linked)
  BY DEF LookupIInv
<1>2. PICK s \in Seq(HistoryFrame) : s = stack
  BY <1>1 DEF LookupShape
<1>3. PICK n \in Nat : n = Len(s) /\ n >= 1
  BY <1>1, <1>2, FindsChild
<1>4. PICK t : t = stack'
  OBVIOUS
<1>5. /\ t \in Seq(HistoryFrame) /\ Len(t) = n + 1 /\ \A k \in 1 .. n - 1 : t[k] = s[k]
      /\ s[n].read /\ o \in s[n].left /\ t[n].doc = s[n].doc /\ t[n].paths = s[n].paths
      /\ t[n].left = s[n].left \ {o} /\ t[n].read /\ t[n + 1] = Frame(c)
      /\ t[n].mined = s[n].mined
  BY <1>1, <1>2, <1>3, <1>4, FindsChild
<1>6. n \in DOMAIN s
  BY <1>3, LenProperties
<1>7. GoodFrame(s[n], n, ever) /\ FindsAll(s, n, ever, always, linked) /\ WalkInv(s, ever, always, linked)
  BY <1>1, <1>2, <1>6 DEF WalkInv
<1>8. c \in ever /\ c[2] = o /\ <<o, n>> \in Selected
  BY <1>1, <1>2, <1>3 DEF FindChild, Found, historySelector, Depth, LookupShape
<1>9. t[n + 1].doc = c /\ ~t[n + 1].read /\ t[n + 1].left = {} /\ t[n + 1].paths = {} /\ ~t[n + 1].mined
  BY <1>5 DEF Frame
<1>10. GoodFrame(t[n], n, ever) /\ Descends(t, n)
  BY <1>5, <1>7, <1>8, <1>9 DEF GoodFrame, Descends
<1>11. FindsAll(t, n, ever, always, linked)
  <2> SUFFICES ASSUME NEW q \in Seq(Outpoints), q # <<>>, ChosenFrom(q, n), Lasts(s[n].doc[2], ever, always),
                      Leads(s[n].doc[2], q[1], ever, linked), Lasting(q, ever, always, linked)
               PROVE  q[1] \in t[n].left \/ q \in t[n].paths \/ (n < Len(t) /\ q[1] = t[n + 1].doc[2])
    BY <1>5 DEF FindsAll
  <2>1. q[1] \in s[n].left \/ q \in s[n].paths \/ n < Len(s)
    BY <1>5, <1>7 DEF FindsAll
  <2>2. n < Len(t) /\ ~(n < Len(s))
    BY <1>3, <1>5
  <2>3. QED
    BY <2>1, <2>2, <1>5, <1>8, <1>9
<1>12. GoodFrame(t[n + 1], n + 1, ever) /\ FindsAll(t, n + 1, ever, always, linked) /\ Descends(t, n + 1)
  <2>1. (n + 1) - 1 = n /\ ~(n + 1 < Len(t))
    BY <1>5
  <2>2. GoodFrame(t[n + 1], n + 1, ever)
    BY <2>1, <1>8, <1>9 DEF GoodFrame
  <2>3. QED
    BY <2>1, <2>2, <1>9 DEF FindsAll, Descends
<1>13. ASSUME NEW k \in DOMAIN t
       PROVE  GoodFrame(t[k], k, ever) /\ FindsAll(t, k, ever, always, linked) /\ Descends(t, k)
  <2>1. k \in 1 .. n + 1
    BY <1>5, LenProperties
  <2>2. CASE k = n + 1
    BY <2>2, <1>12
  <2>3. CASE k = n
    BY <2>3, <1>10, <1>11
  <2>4. CASE k \in 1 .. n - 1
    <3>1. n <= Len(s) /\ n <= Len(t)
      BY <1>3, <1>5
    <3>2. QED
      BY <3>1, <2>4, <1>5, <1>7, BelowStays
  <2>5. QED
    BY <2>1, <2>2, <2>3, <2>4
<1>14. WalkInv(t, ever, always, linked)
  BY <1>13 DEF WalkInv
<1>15. QED
  BY <1>4, <1>14

\* The child hands down every path that starts at its output.
LEMMA WalkReturns ==
  ASSUME LookupAssumption, LookupIInv, ReturnChild
  PROVE  WalkInv(stack', ever, always, linked)
<1>1. LookupShape /\ WalkInv(stack, ever, always, linked) /\ ever \subseteq Docs
  BY DEF LookupIInv, LookupShape
<1>2. PICK s \in Seq(HistoryFrame) : s = stack
  BY <1>1 DEF LookupShape
<1>3. PICK n \in Nat : Len(s) = n + 1 /\ n >= 1 /\ n = Len(s) - 1
  BY <1>1, <1>2, ReturnsChild
<1>4. PICK t : t = stack'
  OBVIOUS
<1>5. /\ t \in Seq(HistoryFrame) /\ Len(t) = n /\ \A k \in 1 .. n - 1 : t[k] = s[k]
      /\ s[n + 1] \in HistoryFrame /\ s[n + 1].read /\ s[n + 1].left = {}
      /\ t[n].doc = s[n].doc /\ t[n].left = s[n].left
      /\ t[n].paths = IF s[n + 1].doc[2] \in NoBeef
                      THEN s[n].paths ELSE s[n].paths \cup Paths(s[n + 1])
      /\ t[n].mined = s[n].mined
  BY <1>1, <1>2, <1>3, <1>4, ReturnsChild
<1>6. n \in DOMAIN s /\ n + 1 \in DOMAIN s /\ n < Len(s)
  BY <1>3, LenProperties
<1>7. /\ GoodFrame(s[n], n, ever) /\ FindsAll(s, n, ever, always, linked) /\ WalkInv(s, ever, always, linked)
      /\ Descends(s, n) /\ GoodFrame(s[n + 1], n + 1, ever) /\ FindsAll(s, n + 1, ever, always, linked)
  BY <1>1, <1>2, <1>6 DEF WalkInv
<1>8. s[n].read /\ s[n + 1].doc[2] \in SourceOf(s[n].doc)
  BY <1>6, <1>7 DEF Descends
<1>9. \A p \in Paths(s[n + 1]) : RealFrom(p, n, ever) /\ p[1] = s[n + 1].doc[2]
  <2>1. n + 1 \in Nat /\ n + 1 >= 1 /\ (n + 1) - 1 = n
    BY <1>3
  <2>2. \A p \in Paths(s[n + 1]) : RealFrom(p, (n + 1) - 1, ever) /\ p[1] = s[n + 1].doc[2]
    BY <2>1, <1>1, <1>5, <1>7, PathsAreReal
  <2>3. QED
    BY <2>1, <2>2
<1>10. GoodFrame(t[n], n, ever)
  BY <1>5, <1>7, <1>8, <1>9 DEF GoodFrame
<1>11. FindsAll(t, n, ever, always, linked)
  <2> SUFFICES ASSUME NEW q \in Seq(Outpoints), q # <<>>, ChosenFrom(q, n), Lasts(s[n].doc[2], ever, always),
                      Leads(s[n].doc[2], q[1], ever, linked), Lasting(q, ever, always, linked)
               PROVE  q[1] \in t[n].left \/ q \in t[n].paths
    BY <1>5 DEF FindsAll
  <2>1. q[1] \in s[n].left \/ q \in s[n].paths \/ q[1] = s[n + 1].doc[2]
    BY <1>7, <1>8 DEF FindsAll
  <2>2. ASSUME q[1] = s[n + 1].doc[2] PROVE q \in Paths(s[n + 1])
    <3>1. s # <<>>
      BY <1>3, EmptySeq
    <3>2. ChosenFrom(q, Len(s) - 1) /\ FindsAll(s, Len(s), ever, always, linked)
          /\ s[Len(s)].read /\ s[Len(s)].left = {} /\ q[1] = s[Len(s)].doc[2]
          /\ (s[Len(s)].mined => s[Len(s)].doc[2] \in Mined)
      BY <1>3, <1>5, <1>7, <2>2 DEF GoodFrame
    <3>3. q \in Paths(s[Len(s)])
      BY <3>1, <3>2, PathsAreComplete
    <3>4. QED
      BY <3>3, <1>3
  <2>3. q[1] \notin NoBeef
    <3>1. 1 \in DOMAIN q
      BY PathParts
    <3>2. QED
      BY <3>1 DEF Lasting, Lasts
  <2>4. QED
    BY <2>1, <2>2, <2>3, <1>5
<1>12. n <= Len(s) /\ n = Len(t)
  BY <1>3, <1>5
<1>13. WalkInv(t, ever, always, linked)
  BY <1>3, <1>5, <1>7, <1>10, <1>11, <1>12, TopChanges
<1>14. QED
  BY <1>4, <1>13

\* A walk begins at the output of its formula.
LEMMA WalkBegins ==
  ASSUME LookupAssumption, LookupIInv, NEW d \in Docs, FindRoot(d)
  PROVE  /\ WalkInv(stack', ever, always, linked)
         /\ stack' \in Seq(HistoryFrame) /\ stack'[1].doc = d
<1>1. LookupShape /\ d \in ever /\ <<d[2], 0>> \in Selected
  BY DEF LookupIInv, LookupShape, FindRoot, Found, historySelector
<1>2. PICK f : f = Frame(d)
  OBVIOUS
<1>3. f \in HistoryFrame /\ f.doc = d /\ ~f.read /\ f.left = {} /\ f.paths = {} /\ ~f.mined
  BY <1>2 DEF Frame, HistoryFrame
<1>4. PICK t : t = stack' /\ t = <<f>>
  BY <1>2 DEF FindRoot
<1>5. t \in Seq(HistoryFrame) /\ Len(t) = 1 /\ t[1] = f /\ DOMAIN t = {1}
  BY <1>3, <1>4
<1>6. GoodFrame(t[1], 1, ever) /\ FindsAll(t, 1, ever, always, linked) /\ Descends(t, 1)
  BY <1>1, <1>3, <1>5 DEF GoodFrame, FindsAll, Descends
<1>7. QED
  BY <1>3, <1>4, <1>5, <1>6 DEF WalkInv

\* Every step keeps the walk.
LEMMA WalkStep ==
  ASSUME LookupAssumption, LookupIInv, [LookupNext]_lookupVars
  PROVE  WalkInv(stack', ever', always', linked')
<1>1. ever \subseteq ever' /\ always' \subseteq always /\ linked' \subseteq linked /\ WalkInv(stack, ever, always, linked)
  BY HistoryGrows DEF LookupIInv
<1>2. CASE stack' = stack
  BY <1>1, <1>2, WalkStays
<1>3. CASE stack' = <<>>
  BY <1>3 DEF WalkInv
<1>4. ASSUME WalkInv(stack', ever, always, linked) PROVE WalkInv(stack', ever', always', linked')
  BY <1>1, <1>4, WalkStays
<1>5. CASE \E mined \in BOOLEAN : ReadEdges(mined)
  BY <1>5, <1>4, WalkReads
<1>6. CASE \E o \in Outpoints : SkipChild(o)
  BY <1>6, <1>4, WalkSkips
<1>7. CASE \E o \in Outpoints, d \in Docs : FindChild(o, d)
  BY <1>7, <1>4, WalkDescends
<1>8. CASE ReturnChild
  BY <1>8, <1>4, WalkReturns
<1>9. CASE \E d \in Docs : FindRoot(d)
  BY <1>9, <1>4, WalkBegins
<1>10. QED
  BY <1>2, <1>3, <1>5, <1>6, <1>7, <1>8, <1>9
     DEF LookupNext, LookupStep, lookupVars, Admit, Delete, UpdateConsumedBy, LookupOther, LookupFormulas,
         LookupFails, AnswerAsIs, SkipFormula, MissingBeef, NilBeef, AppendAnswer, Answer

\* An answer is appended for the formula that is done.
LEMMA AnswerAppended ==
  ASSUME LookupShape, LookupAssumption, formula <= Len(Formulas),
         NEW paths \in SUBSET Seq(Outpoints),
         answers' = Append(answers, [formula |-> formula, paths |-> paths])
  PROVE  /\ answers' \in Seq([formula : 1 .. Len(Formulas), paths : SUBSET Seq(Outpoints)])
         /\ Len(answers) \in Nat /\ Len(answers') = Len(answers) + 1
         /\ DOMAIN answers = 1 .. Len(answers) /\ DOMAIN answers' = 1 .. Len(answers) + 1
         /\ \A i \in 1 .. Len(answers) : answers'[i] = answers[i]
         /\ answers'[Len(answers) + 1].formula = formula
         /\ answers'[Len(answers) + 1].paths = paths
<1> DEFINE S == [formula : 1 .. Len(Formulas), paths : SUBSET Seq(Outpoints)]
<1>1. PICK a : a = [formula |-> formula, paths |-> paths]
  OBVIOUS
<1>2. formula \in 1 .. Len(Formulas)
  BY LenProperties DEF LookupShape, LookupAssumption
<1>3. a \in S /\ a.formula = formula /\ a.paths = paths
  BY <1>1, <1>2
<1>4. answers \in Seq(S) /\ answers' = Append(answers, a)
  BY <1>1 DEF LookupShape
<1>5. a \in S
  BY <1>3
<1> HIDE DEF S
<1>6. /\ answers' \in Seq(S) /\ Len(answers') = Len(answers) + 1
      /\ \A i \in 1 .. Len(answers) : answers'[i] = answers[i]
      /\ answers'[Len(answers) + 1] = a
  BY ONLY <1>4, <1>5, AppendProperties
<1>7. /\ Len(answers) \in Nat /\ DOMAIN answers = 1 .. Len(answers)
      /\ DOMAIN answers' = 1 .. Len(answers')
  BY <1>4, <1>6, LenProperties
<1>8. QED
  BY <1>3, <1>6, <1>7 DEF S

\* The types, and what the status says of stack and answers.
LEMMA LookupShapeStep ==
  ASSUME LookupAssumption, LookupIInv, [LookupNext]_lookupVars
  PROVE  LookupShape'
<1>1. LookupShape /\ RootInv /\ Len(Formulas) \in Nat
  BY LenProperties DEF LookupIInv, LookupAssumption
<1>2. CASE UNCHANGED lookupVars
  BY <1>1, <1>2 DEF LookupShape, lookupVars
<1>3. ASSUME NEW d \in Docs, Admit(d) PROVE LookupShape'
  <2>1. EdgesOf({d}) \subseteq Topics \X Outpoints \X Outpoints
    BY DEF EdgesOf
  <2>2. counted' \in [change : Nat, failure : Nat]
    BY <1>1, <1>3 DEF LookupShape, Admit
  <2>3. stored' \subseteq ever' /\ ever' \subseteq Docs /\ always' \subseteq stored'
        /\ edges' \subseteq Topics \X Outpoints \X Outpoints
    BY <1>1, <1>3, <2>1 DEF LookupShape, Admit
  <2>4. QED
    BY <1>1, <1>3, <2>2, <2>3 DEF LookupShape, Admit
<1>4. ASSUME NEW d \in Docs, Delete(d) PROVE LookupShape'
  BY <1>1, <1>4 DEF LookupShape, Delete
<1>5. ASSUME NEW t \in Topics, NEW o \in Outpoints, NEW consumers \in SUBSET Consumers(t, o),
             UpdateConsumedBy(t, o, consumers)
      PROVE  LookupShape'
  <2>1. edges' \subseteq Topics \X Outpoints \X Outpoints
    BY <1>1, <1>5 DEF LookupShape, UpdateConsumedBy, Consumers
  <2>2. counted' \in [change : Nat, failure : Nat]
    BY <1>1, <1>5 DEF LookupShape, UpdateConsumedBy
  <2>3. QED
    BY <1>1, <1>5, <2>1, <2>2 DEF LookupShape, UpdateConsumedBy
<1>6. CASE LookupOther
  BY <1>1, <1>6 DEF LookupShape, LookupOther
<1>7. CASE LookupFormulas
  BY <1>1, <1>7 DEF LookupShape, LookupFormulas
<1>8. CASE LookupFails
  BY <1>1, <1>8 DEF LookupShape, LookupFails
<1>9. ASSUME NEW d \in Docs, FindRoot(d) PROVE LookupShape'
  <2>1. stack' \in Seq(HistoryFrame)
    BY <1>9, WalkBegins
  <2>2. QED
    BY <1>1, <1>9, <2>1 DEF LookupShape, FindRoot
<1>10. CASE AnswerAsIs
  <2>1. PICK q : q = {<<Formulas[formula].outpoint>>}
    OBVIOUS
  <2>2. /\ status = "run" /\ formula <= Len(Formulas)
        /\ answers' = Append(answers, [formula |-> formula, paths |-> q])
    BY <1>10, <2>1 DEF AnswerAsIs
  <2>3. q \in SUBSET Seq(Outpoints)
    <3>1. formula \in 1 .. Len(Formulas)
      BY <1>1, <2>2 DEF LookupShape
    <3>2. Formulas[formula] \in [outpoint : Outpoints, selector : BOOLEAN]
      BY <3>1, ElementOfSeq DEF LookupAssumption
    <3>3. QED
      BY <3>2, <2>1
  <2>4. answers' \in Seq([formula : 1 .. Len(Formulas), paths : SUBSET Seq(Outpoints)])
    BY <2>2, <2>3, <1>1, AnswerAppended
  <2>5. QED
    BY <1>1, <1>10, <2>2, <2>4 DEF LookupShape, AnswerAsIs
<1>11. CASE SkipFormula
  BY <1>1, <1>11 DEF LookupShape, SkipFormula
<1>12. ASSUME stack # <<>>, stack' \in Seq(HistoryFrame),
              UNCHANGED <<stored, edges, status, formula, answers, always, ever, linked, counted>>
       PROVE  LookupShape'
  BY <1>1, <1>12 DEF LookupShape
<1>13. CASE \E mined \in BOOLEAN : ReadEdges(mined)
  BY <1>1, <1>12, <1>13, ReadsFrame DEF ReadEdges
<1>14. ASSUME NEW o \in Outpoints, NEW d \in Docs, FindChild(o, d) PROVE LookupShape'
  BY <1>1, <1>12, <1>14, FindsChild DEF FindChild
<1>15. ASSUME NEW o \in Outpoints, SkipChild(o) PROVE LookupShape'
  BY <1>1, <1>12, <1>15, SkipsChild DEF SkipChild
<1>16. CASE ReturnChild
  BY <1>1, <1>12, <1>16, ReturnsChild DEF ReturnChild
<1>17. CASE MissingBeef \/ NilBeef
  <2>1. CASE MissingBeef
    BY <1>1, <2>1 DEF LookupShape, MissingBeef
  <2>2. CASE NilBeef
    BY <1>1, <2>2 DEF LookupShape, NilBeef
  <2>3. QED
    BY <1>17, <2>1, <2>2
<1>18. CASE AppendAnswer
  <2>1. stack # <<>> /\ Len(stack) = 1
    <3>1. stack \in Seq(HistoryFrame) /\ Len(stack) = 1
      BY <1>18, <1>1 DEF AppendAnswer, LookupShape
    <3>2. Len(<<>>) = 0
      BY EmptySeq
    <3>3. QED
      BY <3>1, <3>2
  <2>2. PICK q : q = Paths(Top)
    OBVIOUS
  <2>3. q \in SUBSET Seq(Outpoints)
    BY <2>1, <2>2, <1>1, TopIsFrame, PathsAreSequences
  <2>4. formula <= Len(Formulas) /\ answers' = Append(answers, [formula |-> formula, paths |-> q])
    BY <2>1, <2>2, <1>1, <1>18 DEF RootInv, AppendAnswer
  <2>5. answers' \in Seq([formula : 1 .. Len(Formulas), paths : SUBSET Seq(Outpoints)])
    BY <2>3, <2>4, <1>1, AnswerAppended
  <2>6. status = "run"
    BY <2>1, <1>1 DEF LookupShape
  <2>7. QED
    BY <1>1, <1>18, <2>4, <2>5, <2>6 DEF LookupShape, AppendAnswer
<1>19. CASE Answer
  BY <1>1, <1>19 DEF LookupShape, Answer, RootInv
<1>20. QED
  BY <1>2, <1>3, <1>4, <1>5, <1>6, <1>7, <1>8, <1>9, <1>10, <1>11, <1>13, <1>14, <1>15, <1>16,
     <1>17, <1>18, <1>19 DEF LookupNext, LookupStep

\* Edges are written with their output, and replaced by others of the same source.
LEMMA EdgeStep ==
  ASSUME LookupAssumption, LookupIInv, [LookupNext]_lookupVars
  PROVE  EdgeInv'
<1>1. LookupShape /\ EdgeInv
  BY DEF LookupIInv
<1>2. CASE UNCHANGED <<edges, linked>>
  BY <1>1, <1>2 DEF EdgeInv
<1>3. ASSUME NEW d \in Docs, Admit(d) PROVE EdgeInv'
  <2>1. edges' = edges \cup EdgesOf({d}) /\ linked' = linked
    BY <1>3 DEF Admit
  <2>2. QED
    BY <1>1, <2>1 DEF EdgeInv, EdgesOf
<1>4. ASSUME NEW t \in Topics, NEW o \in Outpoints, NEW consumers \in SUBSET Consumers(t, o),
             UpdateConsumedBy(t, o, consumers)
      PROVE  EdgeInv'
  <2>1. /\ \A c \in consumers : o \in Source[t][c]
        /\ edges' = {e \in edges : <<e[1], e[2]>> # <<t, o>>} \cup {<<t, o, c>> : c \in consumers}
        /\ linked' \subseteq edges'
    BY <1>4 DEF UpdateConsumedBy, Consumers
  <2>2. ASSUME NEW u \in Topics, NEW a \in Outpoints, NEW c \in Outpoints, <<u, a, c>> \in edges'
        PROVE  a \in Source[u][c]
    BY <1>1, <2>1, <2>2 DEF EdgeInv
  <2>3. QED
    BY <2>1, <2>2 DEF EdgeInv
<1>5. QED
  BY <1>2, <1>3, <1>4
     DEF LookupNext, LookupStep, lookupVars, Delete, LookupOther, LookupFormulas, LookupFails,
         FindRoot, AnswerAsIs, SkipFormula, ReadEdges, FindChild, SkipChild, ReturnChild,
         MissingBeef, NilBeef, AppendAnswer, Answer

\* The walk stays that of its formula.
LEMMA RootStep ==
  ASSUME LookupAssumption, LookupIInv, [LookupNext]_lookupVars
  PROVE  RootInv'
<1>1. LookupShape /\ RootInv
  BY DEF LookupIInv
<1>2. CASE stack' = <<>>
  BY <1>2 DEF RootInv
<1>3. CASE UNCHANGED <<stack, formula>>
  BY <1>1, <1>3 DEF RootInv
<1>4. ASSUME NEW d \in Docs, FindRoot(d) PROVE RootInv'
  <2>1. stack'[1].doc = d
    BY <1>4, WalkBegins
  <2>2. QED
    BY <1>4, <2>1 DEF FindRoot, RootInv, Found
<1>5. ASSUME NEW n \in Nat, n >= 1, stack # <<>>, formula' = formula,
             stack'[n].doc = stack[n].doc, \A k \in 1 .. n - 1 : stack'[k] = stack[k]
      PROVE  RootInv'
  <2>1. CASE n = 1
    BY <1>1, <1>5, <2>1 DEF RootInv
  <2>2. CASE n # 1
    <3>1. 1 \in 1 .. n - 1
      BY <1>5, <2>2
    <3>2. stack'[1] = stack[1]
      BY <3>1, <1>5
    <3>3. QED
      BY <3>2, <1>1, <1>5 DEF RootInv
  <2>3. QED
    BY <2>1, <2>2
<1>6. CASE \E mined \in BOOLEAN : ReadEdges(mined)
  <2>1. PICK n \in Nat : n = Len(stack) /\ n >= 1
    BY <1>1, <1>6, ReadsFrame
  <2>2. stack # <<>> /\ stack'[n].doc = stack[n].doc /\ \A k \in 1 .. n - 1 : stack'[k] = stack[k]
    BY <1>1, <1>6, <2>1, ReadsFrame
  <2>3. QED
    BY <1>5, <1>6, <2>1, <2>2 DEF ReadEdges
<1>7. ASSUME NEW o \in Outpoints, NEW d \in Docs, FindChild(o, d) PROVE RootInv'
  <2>1. PICK n \in Nat : n = Len(stack) /\ n >= 1
    BY <1>1, <1>7, FindsChild
  <2>2. stack # <<>> /\ stack'[n].doc = stack[n].doc /\ \A k \in 1 .. n - 1 : stack'[k] = stack[k]
    BY <1>1, <1>7, <2>1, FindsChild
  <2>3. QED
    BY <1>5, <1>7, <2>1, <2>2 DEF FindChild
<1>8. ASSUME NEW o \in Outpoints, SkipChild(o) PROVE RootInv'
  <2>1. PICK n \in Nat : n = Len(stack) /\ n >= 1
    BY <1>1, <1>8, SkipsChild
  <2>2. stack # <<>> /\ stack'[n].doc = stack[n].doc /\ \A k \in 1 .. n - 1 : stack'[k] = stack[k]
    BY <1>1, <1>8, <2>1, SkipsChild
  <2>3. QED
    BY <1>5, <1>8, <2>1, <2>2 DEF SkipChild
<1>9. CASE ReturnChild
  <2>1. PICK n \in Nat : n = Len(stack) - 1 /\ n >= 1
    BY <1>1, <1>9, ReturnsChild
  <2>2. stack # <<>> /\ stack'[n].doc = stack[n].doc /\ \A k \in 1 .. n - 1 : stack'[k] = stack[k]
    BY <1>1, <1>9, <2>1, ReturnsChild
  <2>3. QED
    BY <1>5, <1>9, <2>1, <2>2 DEF ReturnChild
<1>10. CASE AnswerAsIs
  <2>1. stack = <<>>
    BY <1>1, <1>10 DEF AnswerAsIs, RootInv
  <2>2. QED
    BY <2>1, <1>2, <1>10 DEF AnswerAsIs
<1>11. QED
  BY <1>2, <1>3, <1>4, <1>6, <1>7, <1>8, <1>9, <1>10
     DEF LookupNext, LookupStep, lookupVars, Admit, Delete, UpdateConsumedBy, LookupOther, LookupFormulas,
         LookupFails, SkipFormula, MissingBeef, NilBeef, AppendAnswer, Answer

\* What was found for the formulas that are done stays as it is.
LEMMA DoneStays ==
  ASSUME LookupIInv, ever \subseteq ever', always' \subseteq always, linked' \subseteq linked, UNCHANGED <<formula, answers>>,
         status' \in {"run", "answer"} => status \in {"run", "answer"}, status' # "ask"
  PROVE  DoneInv'
<1>1. DoneInv
  BY DEF LookupIInv
<1>2. ASSUME NEW i \in DOMAIN answers
      PROVE  /\ answers[i].formula < formula
             /\ \A j \in DOMAIN answers : i < j => answers[i].formula < answers[j].formula
             /\ LET f == Formulas[answers[i].formula]
                IN f.selector => \A p \in answers[i].paths : RealFrom(p, 0, ever') /\ p[1] = f.outpoint
  BY <1>1, RealStays DEF DoneInv
<1>3. ASSUME status' \in {"run", "answer"}, NEW f \in 1 .. formula - 1, Formulas[f].selector,
             NEW p \in Seq(Outpoints), p # <<>>, p[1] = Formulas[f].outpoint, ChosenFrom(p, 0),
             Lasting(p, ever', always', linked')
      PROVE  \E i \in DOMAIN answers : answers[i].formula = f /\ p \in answers[i].paths
  <2>1. Lasting(p, ever, always, linked)
    BY <1>3, LastingLasted
  <2>2. QED
    BY <2>1, <1>1, <1>3 DEF DoneInv
<1>4. QED
  BY <1>2, <1>3 DEF DoneInv

\* A formula is done when its answer is appended.
LEMMA DoneAppends ==
  ASSUME LookupAssumption, LookupIInv, status = "run", formula <= Len(Formulas),
         UNCHANGED <<ever, always, linked, status>>, formula' = formula + 1,
         NEW paths \in SUBSET Seq(Outpoints),
         answers' = Append(answers, [formula |-> formula, paths |-> paths]),
         Formulas[formula].selector =>
           /\ \A p \in paths : RealFrom(p, 0, ever) /\ p[1] = Formulas[formula].outpoint
           /\ \A p \in Seq(Outpoints) :
                /\ p # <<>>
                /\ p[1] = Formulas[formula].outpoint
                /\ ChosenFrom(p, 0)
                /\ Lasting(p, ever, always, linked)
                => p \in paths
  PROVE  DoneInv'
<1>1. LookupShape /\ DoneInv /\ formula \in Nat /\ formula' \in Nat
  BY LenProperties DEF LookupIInv, LookupShape
<1>2. PICK n \in Nat : n = Len(answers)
  BY <1>1, AnswerAppended
<1>3. /\ DOMAIN answers = 1 .. n /\ DOMAIN answers' = 1 .. n + 1
      /\ \A i \in 1 .. n : answers'[i] = answers[i]
      /\ answers'[n + 1].formula = formula /\ answers'[n + 1].paths = paths
  BY <1>1, <1>2, AnswerAppended
<1>4. ASSUME NEW i \in 1 .. n
      PROVE  /\ answers[i].formula < formula /\ answers[i].formula < formula'
             /\ \A j \in 1 .. n : i < j => answers[i].formula < answers[j].formula
             /\ LET f == Formulas[answers[i].formula]
                IN f.selector => \A p \in answers[i].paths : RealFrom(p, 0, ever) /\ p[1] = f.outpoint
  <2>1. answers[i].formula \in Nat
    <3>1. answers[i] \in [formula : 1 .. Len(Formulas), paths : SUBSET Seq(Outpoints)]
      BY <1>1, <1>2, ElementOfSeq DEF LookupShape
    <3>2. QED
      BY <3>1
  <2>2. answers[i].formula < formula
    BY <1>1, <1>3 DEF DoneInv
  <2>3. answers[i].formula < formula'
    BY <1>1, <2>1, <2>2
  <2>4. QED
    BY <1>1, <1>3, <2>2, <2>3 DEF DoneInv
<1>5. ASSUME NEW i \in DOMAIN answers'
      PROVE  /\ answers'[i].formula < formula'
             /\ \A j \in DOMAIN answers' : i < j => answers'[i].formula < answers'[j].formula
             /\ LET f == Formulas[answers'[i].formula]
                IN f.selector => \A p \in answers'[i].paths : RealFrom(p, 0, ever') /\ p[1] = f.outpoint
  <2>1. CASE i \in 1 .. n
    <3>1. \A j \in DOMAIN answers' : j \in 1 .. n \/ j = n + 1
      BY <1>3
    <3>2. QED
      BY <2>1, <3>1, <1>3, <1>4
  <2>2. CASE i = n + 1
    <3>1. \A j \in DOMAIN answers' : ~(i < j)
      BY <2>2, <1>3
    <3>2. answers'[i].formula < formula'
      BY <2>2, <1>1, <1>3
    <3>3. QED
      BY <2>2, <3>1, <3>2, <1>3
  <2>3. QED
    BY <2>1, <2>2, <1>3
<1>6. ASSUME NEW f \in 1 .. formula' - 1, Formulas[f].selector,
             NEW p \in Seq(Outpoints), p # <<>>, p[1] = Formulas[f].outpoint, ChosenFrom(p, 0),
             Lasting(p, ever', always', linked')
      PROVE  \E i \in DOMAIN answers' : answers'[i].formula = f /\ p \in answers'[i].paths
  <2>1. CASE f = formula
    <3>1. p \in paths
      BY <2>1, <1>6
    <3>2. n + 1 \in DOMAIN answers'
      BY <1>3
    <3>3. QED
      BY <3>1, <3>2, <2>1, <1>3
  <2>2. CASE f # formula
    <3>1. f \in 1 .. formula - 1
      BY <2>2, <1>1
    <3>2. PICK i \in DOMAIN answers : answers[i].formula = f /\ p \in answers[i].paths
      BY <3>1, <1>1, <1>6 DEF DoneInv
    <3>3. i \in 1 .. n /\ i \in DOMAIN answers'
      BY <1>3
    <3>4. QED
      BY <3>2, <3>3, <1>3
  <2>3. QED
    BY <2>1, <2>2
<1>7. QED
  BY <1>5, <1>6 DEF DoneInv

\* A formula that is skipped has no path that must be found.
LEMMA DoneSkips ==
  ASSUME LookupAssumption, LookupIInv, SkipFormula
  PROVE  DoneInv'
<1>1. LookupShape /\ DoneInv /\ formula \in Nat /\ status = "run" /\ formula' = formula + 1
      /\ UNCHANGED <<status, answers, always, ever, linked>>
  BY LenProperties DEF LookupIInv, LookupShape, SkipFormula
<1>2. ASSUME NEW i \in DOMAIN answers
      PROVE  answers[i].formula < formula'
  <2>1. answers[i].formula \in Nat
    <3>1. i \in 1 .. Len(answers)
      BY <1>1, LenProperties DEF LookupShape
    <3>2. answers[i] \in [formula : 1 .. Len(Formulas), paths : SUBSET Seq(Outpoints)]
      BY <3>1, <1>1, ElementOfSeq DEF LookupShape
    <3>3. QED
      BY <3>2
  <2>2. answers[i].formula < formula
    BY <1>1 DEF DoneInv
  <2>3. QED
    BY <2>1, <2>2, <1>1
<1>3. ASSUME NEW f \in 1 .. formula' - 1, Formulas[f].selector,
             NEW p \in Seq(Outpoints), p # <<>>, p[1] = Formulas[f].outpoint, ChosenFrom(p, 0),
             Lasting(p, ever, always, linked)
      PROVE  \E i \in DOMAIN answers : answers[i].formula = f /\ p \in answers[i].paths
  <2>1. CASE f = formula
    <3>1. 1 \in DOMAIN p /\ (1 - 1) + 0 = 0
      BY <1>3, PathParts
    <3>2. historySelector(p[1], 0)
      BY <3>1, <1>3 DEF ChosenFrom, historySelector
    <3>3. Lasts(p[1], ever, always)
      BY <3>1, <1>3 DEF Lasting
    <3>4. p[1] \notin NoBeef /\ Found(p[1]) # {}
      BY <3>3, <1>1 DEF Lasts, Found, LookupShape
    <3>5. QED
      BY <2>1, <3>2, <3>4, <1>3 DEF SkipFormula
  <2>2. CASE f # formula
    <3>1. f \in 1 .. formula - 1
      BY <2>2, <1>1
    <3>2. QED
      BY <3>1, <1>1, <1>3 DEF DoneInv
  <2>3. QED
    BY <2>1, <2>2
<1>4. QED
  BY <1>1, <1>2, <1>3 DEF DoneInv

\* A walk that is over has found what its formula asked for.
LEMMA DoneWalks ==
  ASSUME LookupAssumption, LookupIInv, AppendAnswer
  PROVE  DoneInv'
<1>1. LookupShape /\ RootInv /\ WalkInv(stack, ever, always, linked) /\ ever \subseteq Docs
  BY DEF LookupIInv, LookupShape
<1>2. PICK s \in Seq(HistoryFrame) : s = stack
  BY <1>1 DEF LookupShape
<1>3. Len(s) = 1 /\ s # <<>> /\ 1 \in DOMAIN s
  <2>1. Len(s) = 1 /\ Len(<<>>) = 0
    BY <1>2, EmptySeq DEF AppendAnswer
  <2>2. s # <<>>
    BY <2>1
  <2>3. DOMAIN s = 1 .. 1
    BY <2>1, LenProperties
  <2>4. QED
    BY <2>1, <2>2, <2>3
<1>4. Top = s[1] /\ s[1] \in HistoryFrame /\ s[1].read /\ s[1].left = {}
  BY <1>1, <1>2, <1>3, TopIsFrame DEF AppendAnswer, Collected
<1>5. GoodFrame(s[1], 1, ever) /\ FindsAll(s, 1, ever, always, linked)
  BY <1>1, <1>2, <1>3 DEF WalkInv
<1>6. formula <= Len(Formulas) /\ s[1].doc[2] = Formulas[formula].outpoint
  BY <1>1, <1>2, <1>3 DEF RootInv
<1>7. PICK paths \in SUBSET Seq(Outpoints) : paths = Paths(s[1])
  BY <1>4, PathsAreSequences
<1>8. \A p \in paths : RealFrom(p, 0, ever) /\ p[1] = Formulas[formula].outpoint
  <2>1. \A p \in Paths(s[1]) : RealFrom(p, 1 - 1, ever) /\ p[1] = s[1].doc[2]
    <3>1. 1 \in Nat /\ 1 >= 1
      OBVIOUS
    <3>2. PICK k \in Nat : k = 1 /\ k >= 1
      BY <3>1
    <3>3. s[1] \in HistoryFrame /\ GoodFrame(s[1], k, ever) /\ ever \subseteq Docs
      BY <1>1, <1>4, <1>5, <3>2
    <3>4. \A p \in Paths(s[1]) : RealFrom(p, k - 1, ever) /\ p[1] = s[1].doc[2]
      BY <3>2, <3>3, PathsAreReal
    <3>5. QED
      BY <3>2, <3>4
  <2>2. 1 - 1 = 0
    OBVIOUS
  <2>3. QED
    BY <2>1, <2>2, <1>6, <1>7
<1>9. ASSUME NEW p \in Seq(Outpoints), p # <<>>, p[1] = Formulas[formula].outpoint,
             ChosenFrom(p, 0), Lasting(p, ever, always, linked)
      PROVE  p \in paths
  <2>1. /\ FindsAll(s, Len(s), ever, always, linked) /\ s[Len(s)].read /\ s[Len(s)].left = {}
        /\ p[1] = s[Len(s)].doc[2] /\ ChosenFrom(p, Len(s) - 1)
        /\ (s[Len(s)].mined => s[Len(s)].doc[2] \in Mined)
    BY <1>3, <1>4, <1>5, <1>6, <1>9 DEF GoodFrame
  <2>2. p \in Paths(s[Len(s)])
    BY <2>1, <1>3, <1>9, PathsAreComplete
  <2>3. QED
    BY <2>2, <1>3, <1>7
<1>10. /\ status = "run" /\ formula' = formula + 1 /\ UNCHANGED <<ever, always, linked, status>>
       /\ answers' = Append(answers, [formula |-> formula, paths |-> paths])
  BY <1>1, <1>2, <1>3, <1>4, <1>7 DEF AppendAnswer, LookupShape
<1>11. QED
  BY <1>6, <1>8, <1>9, <1>10, DoneAppends

LEMMA DoneStep ==
  ASSUME LookupAssumption, LookupIInv, [LookupNext]_lookupVars
  PROVE  DoneInv'
<1>1. LookupShape /\ DoneInv /\ ever \subseteq ever' /\ always' \subseteq always /\ linked' \subseteq linked
  BY HistoryGrows DEF LookupIInv
<1>2. CASE UNCHANGED lookupVars
  BY <1>1, <1>2 DEF DoneInv, lookupVars
<1>3. CASE UNCHANGED <<formula, answers>> /\ status \in {"run", "answer"} /\ status' # "ask"
  BY <1>1, <1>3, DoneStays
<1>4. CASE LookupOther
  BY <1>1, <1>4 DEF LookupOther, DoneInv
<1>5. CASE LookupFormulas
  BY <1>1, <1>5 DEF LookupFormulas, DoneInv
<1>6. CASE answers' = <<>> /\ status' \in {"error", "panic"}
  BY <1>6 DEF DoneInv
<1>7. CASE AnswerAsIs
  <2>1. PICK paths : paths = {<<Formulas[formula].outpoint>>}
    OBVIOUS
  <2>2. /\ status = "run" /\ formula <= Len(Formulas) /\ formula' = formula + 1
        /\ UNCHANGED <<ever, always, linked, status>> /\ ~Formulas[formula].selector
        /\ answers' = Append(answers, [formula |-> formula, paths |-> paths])
    BY <1>7, <2>1 DEF AnswerAsIs
  <2>3. paths \in SUBSET Seq(Outpoints)
    <3>1. formula \in 1 .. Len(Formulas)
      BY <1>1, <2>2, LenProperties DEF LookupShape, LookupAssumption
    <3>2. Formulas[formula] \in [outpoint : Outpoints, selector : BOOLEAN]
      BY <3>1, ElementOfSeq DEF LookupAssumption
    <3>3. QED
      BY <3>2, <2>1
  <2>4. QED
    BY <2>2, <2>3, DoneAppends
<1>8. CASE SkipFormula
  BY <1>8, DoneSkips
<1>9. CASE AppendAnswer
  BY <1>9, DoneWalks
<1>10. ASSUME stack # <<>> PROVE status = "run"
  BY <1>1, <1>10 DEF LookupShape
<1>11. CASE \E d \in Docs : Admit(d) \/ Delete(d) \/ FindRoot(d)
  BY <1>11, <1>3 DEF Admit, Delete, FindRoot
<1>12. CASE \E t \in Topics, o \in Outpoints : \E consumers \in SUBSET Consumers(t, o) :
              UpdateConsumedBy(t, o, consumers)
  BY <1>12, <1>3 DEF UpdateConsumedBy
<1>13. CASE (\E mined \in BOOLEAN : ReadEdges(mined)) \/ ReturnChild \/ \E o \in Outpoints : SkipChild(o)
  <2>1. stack # <<>> /\ UNCHANGED <<formula, answers, status>>
    BY <1>1, <1>13, ReadsFrame, ReturnsChild, SkipsChild DEF ReadEdges, ReturnChild, SkipChild
  <2>2. QED
    BY <2>1, <1>3, <1>10
<1>14. CASE \E o \in Outpoints, d \in Docs : FindChild(o, d)
  BY <1>14, <1>3, <1>10 DEF FindChild
<1>15. CASE LookupFails \/ MissingBeef \/ NilBeef
  BY <1>15, <1>6 DEF LookupFails, MissingBeef, NilBeef
<1>16. CASE Answer
  BY <1>16, <1>3 DEF Answer
<1>17. QED
  BY <1>2, <1>4, <1>5, <1>7, <1>8, <1>9, <1>11, <1>12, <1>13, <1>14, <1>15, <1>16
     DEF LookupNext, LookupStep

LEMMA LookupConsequences ==
  ASSUME LookupAssumption, LookupIInv
  PROVE  HistoryIsExact
<1>1. LookupShape /\ DoneInv /\ Len(Formulas) \in Nat
  BY LenProperties DEF LookupIInv, LookupAssumption
<1>2. ASSUME NEW i \in DOMAIN answers
      PROVE  answers[i].formula \in 1 .. Len(Formulas) /\ answers[i].paths \subseteq Seq(Outpoints)
  <2>1. i \in 1 .. Len(answers)
    BY <1>1, LenProperties DEF LookupShape
  <2>2. answers[i] \in [formula : 1 .. Len(Formulas), paths : SUBSET Seq(Outpoints)]
    BY <2>1, <1>1, ElementOfSeq DEF LookupShape
  <2>3. QED
    BY <2>2
<1>3. LookupTypeOK
  <2>1. ASSUME NEW k \in DOMAIN stack PROVE stack[k].doc \in Docs /\ stack[k].left \subseteq Outpoints
    <3>1. k \in 1 .. Len(stack)
      BY <1>1, LenProperties DEF LookupShape
    <3>2. stack[k] \in HistoryFrame
      BY <3>1, <1>1, ElementOfSeq DEF LookupShape
    <3>3. QED
      BY <3>2 DEF HistoryFrame
  <2>2. QED
    BY <1>1, <1>2, <2>1, LookupIInv DEF LookupIInv, EdgeInv, LookupShape, LookupTypeOK
<1>4. \A p \in Seq(Outpoints) : Chosen(p) <=> ChosenFrom(p, 0)
  <2> SUFFICES ASSUME NEW p \in Seq(Outpoints) PROVE Chosen(p) <=> ChosenFrom(p, 0)
    OBVIOUS
  <2>1. \A i \in DOMAIN p : (i - 1) + 0 = i - 1
    BY LenProperties
  <2>2. QED
    BY <2>1 DEF Chosen, ChosenFrom
<1>5. HistoryIsReal
  <2> SUFFICES ASSUME NEW i \in DOMAIN answers, Formulas[answers[i].formula].selector,
                      NEW p \in answers[i].paths
               PROVE  /\ p[1] = Formulas[answers[i].formula].outpoint
                      /\ Chosen(p)
                      /\ \A j \in DOMAIN p : \E t \in Topics :
                            /\ <<t, p[j]>> \in ever
                            /\ j < Len(p) => p[j + 1] \in Source[t][p[j]]
    BY DEF HistoryIsReal, Range
  <2>1. RealFrom(p, 0, ever) /\ p[1] = Formulas[answers[i].formula].outpoint
    BY <1>1 DEF DoneInv
  <2>2. p \in Seq(Outpoints)
    BY <2>1 DEF RealFrom
  <2>3. QED
    BY <2>1, <2>2, <1>4 DEF RealFrom
<1>6. HistoryIsComplete
  <2> SUFFICES ASSUME status = "answer", NEW f \in DOMAIN Formulas, Formulas[f].selector,
                      NEW p \in PathsFrom(Formulas[f].outpoint), Chosen(p),
                      \A i \in DOMAIN p :
                        /\ p[i] \notin NoBeef
                        /\ {d \in ever : d[2] = p[i]} \subseteq always
                        /\ \E d \in always : d[2] = p[i]
                        /\ i < Len(p) =>
                              /\ p[i] \notin Mined
                              /\ \A t \in Topics :
                                    <<t, p[i]>> \in ever => <<t, p[i + 1], p[i]>> \in linked
               PROVE  \E a \in Range(answers) : a.formula = f /\ p \in a.paths
    BY DEF HistoryIsComplete
  <2>1. p \in Seq(Outpoints) /\ p # <<>> /\ p[1] = Formulas[f].outpoint
    <3>1. PICK s \in Selected : p \in [1 .. s[2] + 1 -> Outpoints] /\ p[1] = Formulas[f].outpoint
      BY DEF PathsFrom
    <3>2. PICK n \in Nat : n = s[2] + 1 /\ n >= 1
      BY DEF LookupAssumption
    <3>3. p = [i \in 1 .. n |-> p[i]] /\ \A i \in 1 .. n : p[i] \in Outpoints
      BY <3>1, <3>2
    <3>4. p \in Seq(Outpoints)
      BY <3>3, IsASeq
    <3>5. DOMAIN p = 1 .. n /\ 1 \in DOMAIN p
      BY <3>1, <3>2
    <3>6. p # <<>>
      BY <3>4, <3>5, LenProperties, EmptySeq
    <3>7. QED
      BY <3>1, <3>4, <3>6
  <2>2. Lasting(p, ever, always, linked)
    BY DEF Lasting, Lasts, Leads
  <2>3. f \in 1 .. formula - 1
    BY <1>1, LenProperties DEF LookupShape, LookupAssumption
  <2>4. PICK i \in DOMAIN answers : answers[i].formula = f /\ p \in answers[i].paths
    BY <1>1, <1>4, <2>1, <2>2, <2>3 DEF DoneInv
  <2>5. QED
    BY <2>4 DEF Range
<1>7. AnswersInOrder
  BY <1>1 DEF DoneInv, AnswersInOrder, LookupShape
<1>8. QED
  BY <1>3, <1>5, <1>6, <1>7 DEF HistoryIsExact

\* Lookup, whatever other requests store, delete and relink meanwhile and whichever
\* edges were missing when it began, returns only real history, returns all of it that
\* documents and edges led to throughout, as far as a Merkle path, and keeps to the
\* order of the formulas; a lookup that fails or panics returns nothing.
THEOREM HistoriesAreExact == LookupAssumption /\ LookupSpec => []HistoryIsExact
<1> SUFFICES ASSUME LookupAssumption PROVE LookupSpec => []HistoryIsExact
  OBVIOUS
<1>1. LookupInit => LookupIInv
  BY LookupInitially
<1>2. LookupIInv /\ [LookupNext]_lookupVars => LookupIInv'
  <2> SUFFICES ASSUME LookupIInv, [LookupNext]_lookupVars PROVE LookupIInv'
    OBVIOUS
  <2>1. LookupShape' /\ EdgeInv' /\ WalkInv(stack', ever', always', linked') /\ RootInv' /\ DoneInv'
    BY LookupShapeStep, EdgeStep, WalkStep, RootStep, DoneStep
  <2>2. QED
    BY <2>1 DEF LookupIInv
<1>3. LookupIInv => HistoryIsExact
  BY LookupConsequences
<1>4. QED
  BY <1>1, <1>2, <1>3, PTL DEF LookupSpec

-----------------------------------------------------------------------------
(* Identity queries: the inductive invariant *)

Valid(v) == ~PaginationInvalid(v) /\ ~SelectorInvalid(v)

\* What the projection returned: matches, a page of them or all.
FoundInv ==
  /\ found \subseteq FindMatches(query)
  /\ \/ found = FindMatches(query)
     \/ Cardinality(found) = PageSize(FindMatches(query), query)

QueryIInv ==
  /\ indexed \subseteq Records
  /\ progress \in {"idle", "compiled", "found", "answered", "error"}
  /\ values \in Queries
  /\ progress \in {"idle", "error"} =>
       query = NoQuery \/ (Valid(values) /\ query = compilePagination(Select(values), values))
  /\ progress \in {"compiled", "found", "answered"} =>
       Valid(values) /\ query = compilePagination(Select(values), values)
  /\ progress \in {"idle", "compiled"} => found = {}
  /\ progress # "answered" => answer = {}
  /\ progress = "found" => ~Empty(query) /\ FoundInv
  /\ progress = "error" => found \subseteq Records
  /\ progress = "answered" =>
       \/ Empty(query) /\ found = {} /\ answer = {}
       \/ ~Empty(query) /\ FoundInv /\ ~OverBudget /\ answer = found

-----------------------------------------------------------------------------
(* The meaning of a compiled query *)

\* The fields of a compiled query.
LEMMA CompiledFields ==
  ASSUME NEW v, NEW q, q = compilePagination(Select(v), v)
  PROVE  /\ q.kind = Kind(v)
         /\ q.serial = IF Kind(v) = "serialNumber" THEN ValueOr(v.serialNumber, "") ELSE ""
         /\ q.key = IF Kind(v) \in {"identityKey", "identityKeyAndTypes"} THEN ValueOr(v.identityKey, "") ELSE ""
         /\ q.types = IF Kind(v) = "identityKeyAndTypes" THEN ValueOr(v.certificateTypes, {}) ELSE {}
         /\ q.certifiers = IF Kind(v) = "serialNumber" THEN {} ELSE ValueOr(v.certifiers, {})
         /\ q.predicates = IF Kind(v) = "attributes" THEN compileAttributes(v.attributes[1]) ELSE {}
         /\ q.unbounded = (ValueOr(v.limit, 0) = 0)
         /\ q.limit = IF ValueOr(v.limit, 0) = 0 THEN MaxResults + 1 ELSE ValueOr(v.limit, 0)
         /\ q.offset = ValueOr(v.offset, 0)
  BY DEF compilePagination, Select, NoQuery

\* FindMatches finds what the question means, and an empty query means nothing.
LEMMA CompiledMeans ==
  ASSUME RecordAssumption, SearchAssumption, indexed \subseteq Records,
         NEW v \in Queries, Valid(v), NEW q, q = compilePagination(Select(v), v)
  PROVE  /\ Empty(q) => \A r \in Records : ~Means(v, r)
         /\ ~Empty(q) => FindMatches(q) = {r \in indexed : Means(v, r)}
<1>1. CASE Given(v.serialNumber)
  <2>1. Kind(v) = "serialNumber"
    BY <1>1 DEF Kind
  <2>2. /\ q.kind = "serialNumber" /\ q.serial = v.serialNumber[1]
        /\ q.certifiers = {} /\ q.predicates = {}
    <3>1. ValueOr(v.serialNumber, "") = v.serialNumber[1]
      BY <1>1 DEF ValueOr
    <3>2. QED
      BY <2>1, <3>1, CompiledFields
  <2>3. \A r : Means(v, r) <=> r.serial = v.serialNumber[1]
    BY <1>1 DEF Means
  <2>4. Empty(q) <=> q.serial = ""
    BY <2>2 DEF Empty
  <2>5. FindMatches(q) = {r \in indexed : r.serial = q.serial}
    BY <2>2 DEF FindMatches
  <2>6. QED
    BY <2>2, <2>3, <2>4, <2>5 DEF RecordAssumption
<1>2. CASE ~Given(v.serialNumber) /\ Given(v.attributes)
  <2>1. Kind(v) = "attributes" /\ ~Malformed(v.attributes)
    BY <1>2 DEF Kind, Valid, SelectorInvalid
  <2>2. PICK preds : preds = compileAttributes(v.attributes[1])
    OBVIOUS
  <2>3. /\ q.kind = "attributes" /\ q.predicates = preds
        /\ q.certifiers = ValueOr(v.certifiers, {})
    BY <2>1, <2>2, CompiledFields
  <2>4. \A r : Means(v, r) <=> MeansAttributes(v.attributes[1], r) /\ Trusted(v, r)
    BY <1>2 DEF Means
  <2>5. \A r \in Records :
          MeansAttributes(v.attributes[1], r) <=> preds # {} /\ \A p \in preds : Holds(p, r)
    BY <1>2, <2>1, <2>2 DEF SearchAssumption
  <2>6. \A r : Trusted(v, r) <=> (q.certifiers # {} => r.certifier \in q.certifiers)
    BY <2>3 DEF Trusted, ValueOr
  <2>7. Empty(q) <=> preds = {}
    BY <2>3 DEF Empty
  <2>8. FindMatches(q) =
          {r \in indexed : (q.certifiers # {} => r.certifier \in q.certifiers)
                           /\ \A p \in preds : Holds(p, r)}
    BY <2>3 DEF FindMatches
  <2>9. Empty(q) => \A r \in Records : ~Means(v, r)
    BY <2>4, <2>5, <2>7
  <2>10. ASSUME ~Empty(q), NEW r \in indexed
         PROVE  Means(v, r) <=> /\ q.certifiers # {} => r.certifier \in q.certifiers
                                /\ \A p \in preds : Holds(p, r)
    BY <2>10, <2>4, <2>5, <2>6, <2>7
  <2>11. QED
    BY <2>8, <2>9, <2>10
<1>3. CASE ~Given(v.serialNumber) /\ ~Given(v.attributes) /\ ~Given(v.identityKey)
  <2>1. Kind(v) = "certifiers" /\ Given(v.certifiers)
    BY <1>3 DEF Kind, Valid, SelectorInvalid
  <2>2. q.kind = "certifiers" /\ q.predicates = {} /\ q.certifiers = v.certifiers[1]
    <3>1. ValueOr(v.certifiers, {}) = v.certifiers[1]
      BY <2>1 DEF ValueOr
    <3>2. QED
      BY <2>1, <3>1, CompiledFields
  <2>3. \A r : Means(v, r) <=> r.certifier \in v.certifiers[1]
    BY <1>3 DEF Means
  <2>4. Empty(q) <=> q.certifiers = {}
    BY <2>2 DEF Empty
  <2>5. FindMatches(q) = {r \in indexed : q.certifiers # {} => r.certifier \in q.certifiers}
    BY <2>2 DEF FindMatches
  <2>6. QED
    BY <2>2, <2>3, <2>4, <2>5
<1>4. CASE ~Given(v.serialNumber) /\ ~Given(v.attributes) /\ Given(v.identityKey)
  <2>1. \A r : Means(v, r) <=> /\ r.key = v.identityKey[1]
                               /\ Given(v.certificateTypes) => r.type \in v.certificateTypes[1]
                               /\ Trusted(v, r)
    BY <1>4 DEF Means
  <2>2. /\ Kind(v) = IF Given(v.certificateTypes) THEN "identityKeyAndTypes" ELSE "identityKey"
        /\ Kind(v) \in {"identityKey", "identityKeyAndTypes"}
    BY <1>4 DEF Kind
  <2>3. /\ q.kind = Kind(v) /\ q.predicates = {} /\ q.key = v.identityKey[1]
        /\ q.certifiers = ValueOr(v.certifiers, {})
    <3>1. ValueOr(v.identityKey, "") = v.identityKey[1]
      BY <1>4 DEF ValueOr
    <3>2. QED
      BY <2>2, <3>1, CompiledFields
  <2>4. \A r : Trusted(v, r) <=> (q.certifiers # {} => r.certifier \in q.certifiers)
    BY <2>3 DEF Trusted, ValueOr
  <2>5. CASE Given(v.certificateTypes)
    <3>1. q.kind = "identityKeyAndTypes" /\ q.types = v.certificateTypes[1]
      BY <2>2, <2>5, CompiledFields DEF ValueOr
    <3>2. Empty(q) <=> q.types = {}
      BY <3>1 DEF Empty
    <3>3. FindMatches(q) = {r \in indexed : /\ r.key = q.key /\ r.type \in q.types
                                            /\ q.certifiers # {} => r.certifier \in q.certifiers}
      BY <3>1, <2>3 DEF FindMatches
    <3>4. \A r : Means(v, r) <=> /\ r.key = q.key /\ r.type \in q.types
                                 /\ q.certifiers # {} => r.certifier \in q.certifiers
      BY <3>1, <2>1, <2>3, <2>4, <2>5
    <3>5. QED
      BY <3>2, <3>3, <3>4
  <2>6. CASE ~Given(v.certificateTypes)
    <3>1. q.kind = "identityKey"
      BY <2>2, <2>3, <2>6
    <3>2. ~Empty(q)
      BY <3>1 DEF Empty
    <3>3. FindMatches(q) = {r \in indexed : /\ r.key = q.key
                                            /\ q.certifiers # {} => r.certifier \in q.certifiers}
      BY <3>1, <2>3 DEF FindMatches
    <3>4. \A r : Means(v, r) <=> /\ r.key = q.key
                                 /\ q.certifiers # {} => r.certifier \in q.certifiers
      BY <2>1, <2>3, <2>4, <2>6
    <3>5. QED
      BY <3>2, <3>3, <3>4
  <2>7. QED
    BY <2>5, <2>6
<1>5. QED
  BY <1>1, <1>2, <1>3, <1>4

\* The greatest and least of two numbers.
LEMMA TwoNumbers ==
  ASSUME NEW a \in Int, NEW b \in Int
  PROVE  /\ Max({a, b}) = IF a >= b THEN a ELSE b
         /\ Min({a, b}) = IF a <= b THEN a ELSE b
<1>1. PICK m \in {a, b} : \A y \in {a, b} : m >= y
  <2>1. CASE a >= b
    BY <2>1
  <2>2. CASE b >= a
    BY <2>2
  <2>3. QED
    BY <2>1, <2>2
<1>2. Max({a, b}) \in {a, b} /\ \A y \in {a, b} : Max({a, b}) >= y
  BY <1>1 DEF Max
<1>3. PICK k \in {a, b} : \A y \in {a, b} : k <= y
  <2>1. CASE a >= b
    BY <2>1
  <2>2. CASE b >= a
    BY <2>2
  <2>3. QED
    BY <2>1, <2>2
<1>4. Min({a, b}) \in {a, b} /\ \A y \in {a, b} : Min({a, b}) <= y
  BY <1>3 DEF Min
<1>5. Max({a, b}) \in Int /\ Max({a, b}) >= a /\ Max({a, b}) >= b /\ (Max({a, b}) = a \/ Max({a, b}) = b)
  BY <1>2
<1>6. Min({a, b}) \in Int /\ Min({a, b}) <= a /\ Min({a, b}) <= b /\ (Min({a, b}) = a \/ Min({a, b}) = b)
  BY <1>4
<1>7. QED
  BY <1>5, <1>6

\* What a valid question asks for by numbers.
LEMMA ValidNumbers ==
  ASSUME QueryPolicyAssumption, NEW v, Valid(v), NEW q, q = compilePagination(Select(v), v)
  PROVE  /\ MaxResults \in Nat /\ MaxResults >= 1 /\ MaxOffset \in Nat
         /\ ValueOr(v.limit, 0) \in 0 .. MaxResults
         /\ q.offset = ValueOr(v.offset, 0) /\ q.offset \in 0 .. MaxOffset
         /\ q.unbounded <=> ValueOr(v.limit, 0) = 0
         /\ q.limit = IF ValueOr(v.limit, 0) = 0 THEN MaxResults + 1 ELSE ValueOr(v.limit, 0)
         /\ q.limit \in 1 .. MaxResults + 1
<1>1. MaxResults \in Nat /\ MaxResults >= 1 /\ MaxOffset \in Nat
  BY DEF QueryPolicyAssumption
<1>2. ValueOr(v.limit, 0) \in 0 .. MaxResults /\ ValueOr(v.offset, 0) \in 0 .. MaxOffset
  BY DEF Valid, PaginationInvalid
<1>3. /\ q.unbounded = (ValueOr(v.limit, 0) = 0)
      /\ q.limit = IF ValueOr(v.limit, 0) = 0 THEN MaxResults + 1 ELSE ValueOr(v.limit, 0)
      /\ q.offset = ValueOr(v.offset, 0)
  BY CompiledFields
<1>4. q.unbounded <=> ValueOr(v.limit, 0) = 0
  BY <1>3
<1>5. q.limit \in 1 .. MaxResults + 1
  BY ONLY <1>1, <1>2, <1>3
<1>6. QED
  BY <1>1, <1>2, <1>3, <1>4, <1>5

-----------------------------------------------------------------------------

LEMMA QueryInitially ==
  ASSUME QueryInit
  PROVE  QueryIInv
  BY DEF QueryInit, QueryIInv

LEMMA QueryStep ==
  ASSUME QueryIInv, [QueryNext]_queryVars
  PROVE  QueryIInv'
<1>1. CASE UNCHANGED queryVars
  BY <1>1 DEF queryVars, QueryIInv, FoundInv, FindMatches, OverBudget
<1>2. CASE RejectQuery
  BY <1>2 DEF RejectQuery, QueryIInv
<1>3. CASE CompileQuery
  BY <1>3 DEF CompileQuery, QueryIInv, Valid
<1>4. CASE AnswerEmpty
  BY <1>4 DEF AnswerEmpty, QueryIInv
<1>5. ASSUME progress = "compiled", ~Empty(query), progress' = "found",
             UNCHANGED <<indexed, values, query, answer>>, FoundInv'
      PROVE  QueryIInv'
  BY <1>5 DEF QueryIInv
<1>6. CASE ProjectionFinds
  <2>1. FindMatches(query)' = FindMatches(query) /\ query' = query
    BY <1>6 DEF ProjectionFinds, FindMatches
  <2>2. found' \subseteq FindMatches(query) /\ Cardinality(found') = PageSize(FindMatches(query), query)
    BY <1>6 DEF ProjectionFinds, kSubset
  <2>3. FoundInv'
    BY <2>1, <2>2 DEF FoundInv, PageSize
  <2>4. QED
    BY <1>5, <1>6, <2>3 DEF ProjectionFinds
<1>7. CASE FindIgnoresLimit
  <2>1. FindMatches(query)' = FindMatches(query) /\ query' = query
    BY <1>7 DEF FindIgnoresLimit, FindMatches
  <2>2. FoundInv'
    BY <1>7, <2>1 DEF FoundInv, FindIgnoresLimit
  <2>3. QED
    BY <1>5, <1>7, <2>2 DEF FindIgnoresLimit
<1>8. CASE ProjectionFails
  BY <1>8 DEF ProjectionFails, QueryIInv
<1>9. CASE Refuse
  <2>1. found \subseteq Records
    BY <1>9 DEF Refuse, QueryIInv, FoundInv, FindMatches
  <2>2. QED
    BY <1>9, <2>1 DEF Refuse, QueryIInv
<1>10. CASE AnswerQuery
  <2>1. FindMatches(query)' = FindMatches(query) /\ UNCHANGED <<query, found>>
    BY <1>10 DEF AnswerQuery, FindMatches
  <2>2. FoundInv' /\ ~OverBudget'
    BY <1>10, <2>1 DEF AnswerQuery, QueryIInv, FoundInv, OverBudget, PageSize
  <2>3. QED
    BY <1>10, <2>2 DEF AnswerQuery, QueryIInv
<1>11. QED
  BY <1>1, <1>2, <1>3, <1>4, <1>6, <1>7, <1>8, <1>9, <1>10 DEF QueryNext

LEMMA QueryConsequences ==
  ASSUME QueryPolicyAssumption, RecordAssumption, SearchAssumption, QueryIInv
  PROVE  AnswersTheQuestion
<1>1. PICK v \in Queries : v = values
  BY DEF QueryIInv
<1>2. PICK q : q = query
  OBVIOUS
<1>3. PICK meant : meant = {r \in indexed : Means(v, r)}
  OBVIOUS
<1>4. indexed \subseteq Records /\ IsFiniteSet(indexed)
  BY FS_Subset DEF QueryIInv, RecordAssumption
<1>5. meant \subseteq indexed /\ IsFiniteSet(meant) /\ Cardinality(meant) \in Nat
  <2>1. meant \subseteq indexed
    BY <1>3
  <2>2. QED
    BY <2>1, <1>4, FS_Subset, FS_CardinalityType
<1>6. QueryTypeOK
  <2>1. query.limit \in 0 .. MaxResults + 1 /\ query.offset \in 0 .. MaxOffset
    <3>1. CASE query = NoQuery
      <4>1. query.limit = 0 /\ query.offset = 0
        BY <3>1 DEF NoQuery
      <4>2. MaxResults \in Nat /\ MaxOffset \in Nat
        BY DEF QueryPolicyAssumption
      <4>3. QED
        BY <4>1, <4>2
    <3>2. CASE Valid(v) /\ q = compilePagination(Select(v), v)
      <4>1. q.limit \in 1 .. MaxResults + 1 /\ q.offset \in 0 .. MaxOffset /\ MaxResults \in Nat
        BY <3>2, ValidNumbers
      <4>2. QED
        BY <4>1, <1>2
    <3>3. QED
      BY <1>1, <1>2, <3>1, <3>2 DEF QueryIInv
  <2>2. found \subseteq Records /\ answer \subseteq found
    BY DEF QueryIInv, FoundInv, FindMatches
  <2>3. QED
    BY <2>1, <2>2 DEF QueryTypeOK, QueryIInv
<1>7. ASSUME progress = "answered"
      PROVE  /\ \A r \in answer : Means(v, r)
             /\ ~Given(v.limit) /\ ~Given(v.offset) => answer = meant
             /\ Cardinality(answer) <= MaxResults
             /\ ValueOr(v.limit, 0) # 0 => Cardinality(answer) <= ValueOr(v.limit, 0)
             /\ Cardinality(found) = PageSize(FindMatches(q), q) =>
                  LET left == Max({0, Cardinality(meant) - ValueOr(v.offset, 0)})
                      limit == ValueOr(v.limit, 0)
                  IN /\ limit = 0 => Cardinality(answer) = left /\ left <= MaxResults
                     /\ limit # 0 => Cardinality(answer) = Min({limit, left})
  <2>1. Valid(v) /\ q = compilePagination(Select(v), v)
    BY <1>1, <1>2, <1>7 DEF QueryIInv
  <2>2. PICK limit \in 0 .. MaxResults : limit = ValueOr(v.limit, 0)
    BY <2>1, ValidNumbers
  <2>3. PICK offset \in 0 .. MaxOffset : offset = ValueOr(v.offset, 0)
    BY <2>1, ValidNumbers
  <2>4. /\ MaxResults \in Nat /\ MaxResults >= 1 /\ q.offset = offset
        /\ q.unbounded <=> limit = 0
        /\ q.limit = IF limit = 0 THEN MaxResults + 1 ELSE limit
    BY <2>1, <2>2, <2>3, ValidNumbers
  <2>5. PICK m \in Nat : m = Cardinality(meant)
    BY <1>5
  <2>6. PICK left \in Nat : left = Max({0, m - offset}) /\ left = IF 0 >= m - offset THEN 0 ELSE m - offset
    <3>1. m - offset \in Int /\ 0 \in Int
      BY <2>5, <2>3
    <3>2. Max({0, m - offset}) = IF 0 >= m - offset THEN 0 ELSE m - offset
      BY <3>1, TwoNumbers
    <3>3. QED
      BY <3>1, <3>2
  <2>7. limit \in Int /\ Min({limit, left}) = IF limit <= left THEN limit ELSE left
    <3>1. limit \in Int /\ left \in Int
      BY <2>2, <2>6
    <3>2. QED
      BY <3>1, TwoNumbers
  <2>8. CASE Empty(q)
    <3>1. found = {} /\ answer = {} /\ meant = {}
      <4>1. \A r \in Records : ~Means(v, r)
        BY <2>1, <2>8, <1>4, CompiledMeans
      <4>2. QED
        BY <4>1, <2>8, <1>2, <1>3, <1>4, <1>7 DEF QueryIInv
    <3>2. Cardinality(answer) = 0 /\ m = 0
      BY <3>1, <2>5, FS_EmptySet
    <3>3. left = 0
      BY <3>2, <2>6, <2>3
    <3>4. limit # 0 => Min({limit, left}) = 0
      BY <3>3, <2>2, <2>7
    <3>5. LET rest == Max({0, Cardinality(meant) - ValueOr(v.offset, 0)})
          IN rest = 0
      BY <3>3, <2>3, <2>5, <2>6
    <3>6. PICK rest : rest = Max({0, Cardinality(meant) - ValueOr(v.offset, 0)})
      OBVIOUS
    <3>7. rest = 0 /\ left = 0 /\ Min({limit, rest}) = Min({limit, left})
      BY <3>3, <3>5, <3>6
    <3>8. /\ limit = 0 => Cardinality(answer) = rest /\ rest <= MaxResults
          /\ limit # 0 => Cardinality(answer) = Min({limit, rest})
      BY ONLY <3>2, <3>4, <3>7, <2>4
    <3>9. /\ \A r \in answer : Means(v, r)
          /\ answer = meant
          /\ Cardinality(answer) <= MaxResults
          /\ ValueOr(v.limit, 0) # 0 => Cardinality(answer) <= ValueOr(v.limit, 0)
      <4>1. Cardinality(answer) <= MaxResults /\ Cardinality(answer) <= limit
        BY ONLY <3>2, <2>2, <2>4
      <4>2. QED
        BY <3>1, <4>1, <2>2
    <3>10. QED
      BY <3>6, <3>8, <3>9, <2>2
  <2>9. CASE ~Empty(q)
    <3>1. FindMatches(q) = meant
      BY <2>1, <2>9, <1>3, <1>4, CompiledMeans
    <3>2. /\ answer = found /\ found \subseteq meant /\ ~OverBudget
          /\ (found = meant \/ Cardinality(found) = PageSize(meant, q))
      BY <3>1, <2>9, <1>2, <1>7 DEF QueryIInv, FoundInv
    <3>3. PICK n \in Nat : n = Cardinality(found) /\ n <= m /\ (n = m => found = meant)
      BY <3>2, <1>5, <2>5, FS_Subset, FS_CardinalityType
    <3>4. n <= q.limit /\ (limit = 0 => n <= MaxResults)
      BY <3>2, <3>3, <2>4, <1>2 DEF OverBudget
    <3>5. PageSize(meant, q) = IF q.limit <= left THEN q.limit ELSE left
      <4>1. q.limit \in Int /\ left \in Int
        BY <2>2, <2>4, <2>6
      <4>2. Min({q.limit, left}) = IF q.limit <= left THEN q.limit ELSE left
        BY <4>1, TwoNumbers
      <4>3. PageSize(meant, q) = Min({q.limit, left})
        BY <2>4, <2>5, <2>6 DEF PageSize
      <4>4. QED
        BY <4>2, <4>3
    <3>6. \A r \in answer : Means(v, r)
      BY <3>2, <1>3
    <3>7. ~Given(v.limit) /\ ~Given(v.offset) => answer = meant
      <4> SUFFICES ASSUME ~Given(v.limit), ~Given(v.offset), found # meant PROVE FALSE
        BY <3>2
      <4>1. limit = 0 /\ offset = 0
        BY <2>2, <2>3 DEF ValueOr
      <4>2. left = m
        BY <4>1, <2>6
      <4>3. n = PageSize(meant, q)
        BY <3>2, <3>3
      <4>4. q.limit = MaxResults + 1 /\ n <= MaxResults /\ MaxResults \in Nat
        BY <4>1, <3>4, <2>4
      <4>5. n = IF MaxResults + 1 <= m THEN MaxResults + 1 ELSE m
        BY <4>2, <4>3, <4>4, <3>5
      <4>6. n = m
        BY ONLY <4>4, <4>5, n \in Nat, m \in Nat
      <4>7. QED
        BY <4>6, <3>3
    <3>8. n <= MaxResults /\ (limit # 0 => n <= limit)
      BY <3>4, <2>2, <2>4, <3>3
    <3>9. ASSUME n = PageSize(meant, q)
          PROVE  /\ limit = 0 => n = left /\ left <= MaxResults
                 /\ limit # 0 => n = Min({limit, left})
      BY <3>9, <3>4, <3>5, <2>2, <2>4, <2>6, <2>7
    <3>10. QED
      BY <3>1, <3>2, <3>3, <3>6, <3>7, <3>8, <3>9, <2>2, <2>3, <2>5, <2>6
  <2>10. QED
    BY <2>8, <2>9
<1>8. AnswerMeansQuestion
  BY <1>1, <1>3, <1>7 DEF AnswerMeansQuestion
<1>9. NeverTruncated
  BY <1>1, <1>2, <1>3, <1>7 DEF NeverTruncated
<1>10. AnswerWithinPolicy
  <2>1. ValueOr(v.limit, 0) # 0 => ValueOr(v.limit, 0) = v.limit[1]
    BY DEF ValueOr
  <2>2. QED
    BY <2>1, <1>1, <1>7 DEF AnswerWithinPolicy
<1>11. QED
  BY <1>6, <1>8, <1>9, <1>10 DEF AnswersTheQuestion

\* The identity lookup answers what was asked, in full or with an error and within
\* its policy, for every policy, question and index and whatever the projection
\* returns.  That compiled attributes mean what the attributes mean is a hypothesis:
\* it is about the fold over their characters, and TLC evaluates it.
THEOREM QuestionsAreAnswered ==
  QueryPolicyAssumption /\ RecordAssumption /\ SearchAssumption /\ QuerySpec => []AnswersTheQuestion
<1> SUFFICES ASSUME QueryPolicyAssumption, RecordAssumption, SearchAssumption
             PROVE  QuerySpec => []AnswersTheQuestion
  OBVIOUS
<1>1. QueryInit => QueryIInv
  BY QueryInitially
<1>2. QueryIInv /\ [QueryNext]_queryVars => QueryIInv'
  BY QueryStep
<1>3. QueryIInv => AnswersTheQuestion
  BY QueryConsequences
<1>4. QED
  BY <1>1, <1>2, <1>3, PTL DEF QuerySpec

=============================================================================
