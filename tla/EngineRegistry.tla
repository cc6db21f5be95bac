--------------------------- MODULE EngineRegistry ---------------------------
(***************************************************************************)
(* The registry of topic managers and lookup services of                   *)
(* pkg/core/engine/engine.go, the sync.RWMutex that guards it, and         *)
(* SyncAdvertisements, which makes the published SHIP and SLAP             *)
(* advertisements follow the registry.                                     *)
(*                                                                         *)
(* registered["SHIP"] is e.managers and registered["SLAP"] is              *)
(* e.lookupServices: each map is indexed by the protocol that advertises   *)
(* its names.  A critical section without a call to a plug-in is one step, *)
(* because nothing can be observed inside it; the list methods call        *)
(* GetMetaData inside theirs and take several.  As in Go, a goroutine      *)
(* blocked in Lock keeps new readers out.                                  *)
(*                                                                         *)
(* The Advertiser is a plug-in.  What it publishes is an advertisement at  *)
(* our own address; FindAllAdvertisements may also return ones published   *)
(* for an earlier HostingURL.                                              *)
(***************************************************************************)
EXTENDS Naturals, FiniteSets

CONSTANTS
    Names,        \* names of topic managers and lookup services
    Callers,      \* goroutines that use the registry
    Syncers,      \* goroutines that run SyncAdvertisements
    Carrier,      \* the topic an advertisement of each protocol is sent to
    Published,    \* advertisements that may exist when the engine starts
    Reentrant,    \* whether GetMetaData may call back into the engine
    MaxChanges,   \* bound on registrations and removals
    MaxSyncs,     \* bound on SyncAdvertisements calls
    MaxOutages   \* bound on failures of the advertiser and of Submit

Protocols == {"SHIP", "SLAP"}
Domains   == {"HostingURL", "EarlierURL"}
NoSets    == [p \in Protocols |-> {}]

Advertisement ==
    [protocol : Protocols, name : Names, domain : Domains,
     by : 0 .. MaxSyncs]   \* the call that published it, 0 for an earlier process

RegistryAssumption ==
    /\ Carrier \in [Protocols -> Names]
    /\ Published \subseteq Advertisement
    /\ \A ad \in Published : ad.by = 0
    /\ Reentrant \in BOOLEAN
    /\ {MaxChanges, MaxSyncs, MaxOutages} \subseteq Nat

VARIABLES
    registered,   \* e.managers and e.lookupServices
    readers,      \* callers that hold e.mu for reading
    waiting,      \* callers blocked in e.mu.Lock
    call,         \* what each caller is doing
    ads,          \* the advertisements that are published
    sync,         \* what each SyncAdvertisements call holds
    tally         \* counters against the bounds, and of calls that overlapped

registryVars == <<registered, readers, waiting, call, ads, sync, tally>>

Idle    == [op |-> "idle", kind |-> "SHIP", name |-> {}, add |-> FALSE, done |-> {}]
NotSync == [pc |-> "idle", need |-> NoSets, create |-> NoSets, revoke |-> {},
            number |-> 0, disturbed |-> FALSE]

Count(counter) == tally' = [tally EXCEPT ![counter] = @ + 1]
Left(counter, max) == tally[counter] < max

-----------------------------------------------------------------------------
(* The registry *)

\* NewEngine copies the configured managers and lookup services.
RegistryInit ==
    /\ registered \in [Protocols -> SUBSET Names]
    /\ readers = {}
    /\ waiting = {}
    /\ call = [c \in Callers |-> Idle]
    /\ ads \in SUBSET Published
    /\ sync = [s \in Syncers |-> NotSync]
    /\ tally = [change |-> 0, sync |-> 0, failure |-> 0, overlap |-> 0]

\* RLock is granted unless a writer waits.
RLock == waiting = {}

\* Register*, Unregister*: e.mu.Lock(), announced before it is granted.
RequestChange(c, kind, name, add) ==
    /\ call[c].op = "idle"
    /\ Left("change", MaxChanges)
    /\ Count("change")
    /\ waiting' = waiting \cup {c}
    /\ call' = [call EXCEPT ![c] = [op |-> "change", kind |-> kind, name |-> {name},
                                    add |-> add, done |-> {}]]
    /\ UNCHANGED <<registered, readers, ads, sync>>

\* Lock is granted once the readers have left.
WriteLock(c) == readers = {}

\* A change makes every sync that has taken its snapshot out of date.
Disturb ==
    sync' = [s \in Syncers |-> IF sync[s].pc = "idle" THEN sync[s]
                               ELSE [sync[s] EXCEPT !.disturbed = TRUE]]

\* The body of Register*/Unregister*, and its deferred Unlock.
ApplyChange(c) ==
    LET k == call[c].kind
    IN /\ call[c].op = "change"
       /\ WriteLock(c)
       /\ registered' = [registered EXCEPT ![k] =
                            IF call[c].add THEN @ \cup call[c].name ELSE @ \ call[c].name]
       /\ waiting' = waiting \ {c}
       /\ call' = [call EXCEPT ![c] = Idle]
       /\ Disturb
       /\ UNCHANGED <<readers, ads, tally>>

\* GetDocumentationFor*: the reference is read under the lock (Get*) ...
GetReference(c, kind, name) ==
    /\ call[c].op = "idle"
    /\ RLock
    /\ name \in registered[kind]
    /\ call' = [call EXCEPT ![c] = [op |-> "document", kind |-> kind, name |-> {name},
                                    add |-> FALSE, done |-> {}]]
    /\ UNCHANGED <<registered, readers, waiting, ads, sync, tally>>

\* ... and GetDocumentation is called on it after the lock was released.
GetDocumentation(c) ==
    /\ call[c].op = "document"
    /\ call' = [call EXCEPT ![c] = Idle]
    /\ UNCHANGED <<registered, readers, waiting, ads, sync, tally>>

\* ListTopicManagers, ListLookupServiceProviders: RLock for the whole call.
StartList(c, kind) ==
    /\ call[c].op = "idle"
    /\ RLock
    /\ readers' = readers \cup {c}
    /\ call' = [call EXCEPT ![c] = [op |-> "list", kind |-> kind, name |-> {},
                                    add |-> FALSE, done |-> {}]]
    /\ UNCHANGED <<registered, waiting, ads, sync, tally>>

\* GetMetaData is called on one more entry of the map.
CallMetaData(c, name) ==
    /\ call[c].op = "list"
    /\ call[c].name = {}
    /\ name \in registered[call[c].kind] \ call[c].done
    /\ call' = [call EXCEPT ![c].name = {name}]
    /\ UNCHANGED <<registered, readers, waiting, ads, sync, tally>>

\* GetMetaData asks the engine something, which needs RLock again.
MetaDataAsksEngine(c) ==
    /\ call[c].op = "list"
    /\ call[c].name # {}
    /\ RLock
    /\ call' = [call EXCEPT ![c].done = @ \cup call[c].name, ![c].name = {}]
    /\ UNCHANGED <<registered, readers, waiting, ads, sync, tally>>

\* GetMetaData returns; if it asked the engine something, it needed RLock.
MetaDataReturns(c) ==
    /\ call[c].op = "list"
    /\ call[c].name # {}
    /\ Reentrant => RLock
    /\ call' = [call EXCEPT ![c].done = @ \cup call[c].name, ![c].name = {}]
    /\ UNCHANGED <<registered, readers, waiting, ads, sync, tally>>

\* The result is complete; the deferred RUnlock runs.
EndList(c) ==
    /\ call[c].op = "list"
    /\ call[c].name = {}
    /\ registered[call[c].kind] \subseteq call[c].done
    /\ readers' = readers \ {c}
    /\ call' = [call EXCEPT ![c] = Idle]
    /\ UNCHANGED <<registered, waiting, ads, sync, tally>>

-----------------------------------------------------------------------------
(* SyncAdvertisements *)

Next1(s, step) == sync' = [sync EXCEPT ![s] = step]
InFlight(s) == sync[s].pc # "idle"
AnotherInFlight(s) == \E t \in Syncers \ {s} : InFlight(t)

\* One RLock covers both maps.
StartSync(s) ==
    /\ ~InFlight(s)
    /\ Left("sync", MaxSyncs)
    /\ RLock
    /\ tally' = [tally EXCEPT !.sync = @ + 1, !.overlap = @ + (IF AnotherInFlight(s) THEN 1 ELSE 0)]
    /\ LET other == \E t \in Syncers \ {s} : InFlight(t) /\ sync[t].need # registered
       IN Next1(s, [NotSync EXCEPT !.pc = "SHIP", !.need = registered,
                                   !.number = tally.sync + 1, !.disturbed = other])
    /\ UNCHANGED <<registered, readers, waiting, call, ads>>

\* Only an advertisement at our own address counts as present.
Missing(need, p) ==
    {n \in need[p] :
        ~ \E ad \in ads : ad.protocol = p /\ ad.name = n /\ ad.domain = "HostingURL"}

\* SLAP advertisements are compared with the topic managers.
UnwantedAcrossProtocols(need, p) ==
    {ad \in ads : ad.protocol = p /\ ad.name \notin need["SHIP"]}

\* Any advertisement of a name that is not registered is withdrawn.
Unwanted(need, p) == {ad \in ads : ad.protocol = p /\ ad.name \notin need[p]}

\* FindAllAdvertisements("SHIP"), then ("SLAP"), and the comparison with need.
Find(s, p) ==
    /\ sync[s].pc = p
    /\ Next1(s, [sync[s] EXCEPT
                    !.pc = IF p = "SHIP" THEN "SLAP" ELSE "create",
                    !.create[p] = Missing(sync[s].need, p),
                    !.revoke = @ \cup Unwanted(sync[s].need, p)])
    /\ UNCHANGED <<registered, readers, waiting, call, ads, tally>>

\* An error of FindAllAdvertisements is returned.
FindFails(s) ==
    /\ sync[s].pc \in Protocols
    /\ Left("failure", MaxOutages)
    /\ Count("failure")
    /\ Next1(s, NotSync)
    /\ UNCHANGED <<registered, readers, waiting, call, ads>>

\* The topics of the TaggedBEEF the advertiser returned.
CarriersOf(protocols) == {Carrier[p] : p \in protocols}

\* validateTopicsAndGetManagers, the first step of Submit.
SubmitAccepts(topics) == RLock /\ topics \subseteq registered["SHIP"]
SubmitRefuses(topics) == RLock /\ ~ topics \subseteq registered["SHIP"]

ToCreate(s) ==
    {ad \in [protocol : Protocols, name : Names, domain : {"HostingURL"}, by : {sync[s].number}] :
        ad.name \in sync[s].create[ad.protocol]}

ProtocolsOf(set) == {ad.protocol : ad \in set}

\* CreateAdvertisements and the Submit of its result.  Errors are logged and
\* the call goes on to the revocations.
Create(s) ==
    /\ sync[s].pc = "create"
    /\ Next1(s, [sync[s] EXCEPT !.pc = "revoke"])
    /\ ToCreate(s) # {} => SubmitAccepts(CarriersOf(ProtocolsOf(ToCreate(s))))
    /\ ads' = ads \cup ToCreate(s)
    /\ UNCHANGED <<registered, readers, waiting, call, tally>>

\* A topic of the transaction is not registered: nothing is published.
CreateRefused(s) ==
    /\ sync[s].pc = "create"
    /\ ToCreate(s) # {}
    /\ SubmitRefuses(CarriersOf(ProtocolsOf(ToCreate(s))))
    /\ Next1(s, [sync[s] EXCEPT !.pc = "revoke", !.disturbed = TRUE])
    /\ UNCHANGED <<registered, readers, waiting, call, ads, tally>>

\* The advertiser or Submit fails, before or after it stored the outputs.
CreateFails(s) ==
    /\ sync[s].pc = "create"
    /\ ToCreate(s) # {}
    /\ Left("failure", MaxOutages)
    /\ Count("failure")
    /\ Next1(s, [sync[s] EXCEPT !.pc = "revoke", !.disturbed = TRUE])
    /\ ads' \in {ads, ads \cup ToCreate(s)}
    /\ UNCHANGED <<registered, readers, waiting, call>>

\* Every advertisement found unwanted is revoked, whatever was created.
Revocable(s) == TRUE

\* RevokeAdvertisements and the Submit of its result; the call returns nil.
Revoke(s) ==
    /\ sync[s].pc = "revoke"
    /\ sync[s].revoke # {} => SubmitAccepts(CarriersOf(ProtocolsOf(sync[s].revoke)))
    /\ Next1(s, [sync[s] EXCEPT !.pc = "done"])
    /\ ads' = IF Revocable(s) THEN ads \ sync[s].revoke ELSE ads
    /\ UNCHANGED <<registered, readers, waiting, call, tally>>

RevokeRefused(s) ==
    /\ sync[s].pc = "revoke"
    /\ sync[s].revoke # {}
    /\ SubmitRefuses(CarriersOf(ProtocolsOf(sync[s].revoke)))
    /\ Next1(s, [sync[s] EXCEPT !.pc = "done", !.disturbed = TRUE])
    /\ UNCHANGED <<registered, readers, waiting, call, ads, tally>>

RevokeFails(s) ==
    /\ sync[s].pc = "revoke"
    /\ sync[s].revoke # {}
    /\ Left("failure", MaxOutages)
    /\ Count("failure")
    /\ Next1(s, [sync[s] EXCEPT !.pc = "done", !.disturbed = TRUE])
    /\ ads' \in {ads, ads \ sync[s].revoke}
    /\ UNCHANGED <<registered, readers, waiting, call>>

\* The caller gets nil.
Return(s) ==
    /\ sync[s].pc = "done"
    /\ Next1(s, NotSync)
    /\ UNCHANGED <<registered, readers, waiting, call, ads, tally>>

-----------------------------------------------------------------------------
CallStep(c) ==
    \/ ApplyChange(c)
    \/ GetDocumentation(c)
    \/ \E name \in Names : CallMetaData(c, name)
    \/ MetaDataReturns(c)
    \/ EndList(c)

SyncStep(s) ==
    \/ \E p \in Protocols : Find(s, p)
    \/ FindFails(s)
    \/ Create(s)
    \/ CreateRefused(s)
    \/ CreateFails(s)
    \/ Revoke(s)
    \/ RevokeRefused(s)
    \/ RevokeFails(s)
    \/ Return(s)

RegistryNext ==
    \/ \E c \in Callers, kind \in Protocols :
          \/ \E name \in Names :
                \/ \E add \in BOOLEAN : RequestChange(c, kind, name, add)
                \/ GetReference(c, kind, name)
          \/ StartList(c, kind)
    \/ \E c \in Callers : CallStep(c)
    \/ \E s \in Syncers : StartSync(s) \/ SyncStep(s)

RegistrySpec == RegistryInit /\ [][RegistryNext]_registryVars

-----------------------------------------------------------------------------
RegistryTypeOK ==
    /\ registered \in [Protocols -> SUBSET Names]
    /\ readers \subseteq Callers
    /\ waiting \subseteq Callers
    /\ \A c \in Callers :
          /\ call[c].op \in {"idle", "change", "document", "list"}
          /\ call[c].kind \in Protocols
          /\ call[c].name \cup call[c].done \subseteq Names
          /\ c \in waiting <=> call[c].op = "change"
          /\ c \in readers <=> call[c].op = "list"
    /\ ads \subseteq Advertisement
    /\ \A s \in Syncers :
          /\ sync[s].pc \in Protocols \cup {"idle", "create", "revoke", "done"}
          /\ sync[s].need \in [Protocols -> SUBSET Names]
          /\ sync[s].create \in [Protocols -> SUBSET Names]
          /\ sync[s].revoke \subseteq Advertisement

\* Every registered name is advertised at our address and no other name is
\* advertised at all.
Aligned ==
    \A p \in Protocols : Missing(registered, p) = {} /\
        \A ad \in ads : ad.protocol = p => ad.name \in registered[p]

(***************************************************************************)
(* A SyncAdvertisements call that returns nil after a pass in which no     *)
(* registration changed, nothing failed and no call with another snapshot  *)
(* was in flight leaves the advertisements aligned with the registry, from *)
(* whatever set of advertisements it started.                              *)
(***************************************************************************)
QuietSyncAligns ==
    \A s \in Syncers : sync[s].pc = "done" /\ ~sync[s].disturbed => Aligned

(***************************************************************************)
(* Repeating SyncAdvertisements, after failures that may have stored their *)
(* outputs all the same, never publishes a second advertisement of a name  *)
(* at our address.  (For calls one after the other: two at the same time   *)
(* can both find the name missing.)                                        *)
(***************************************************************************)
OneAdPerName ==
    \A a, b \in ads :
        /\ a.protocol = b.protocol
        /\ a.name = b.name
        /\ a.domain = "HostingURL"
        /\ b.domain = "HostingURL"
        => a = b

(***************************************************************************)
(* A list method reports names of one moment: everything it has called     *)
(* GetMetaData on is still registered when it returns, although other      *)
(* goroutines register and unregister while it runs.                       *)
(***************************************************************************)
ListIsOneMoment ==
    \A c \in readers : call[c].done \cup call[c].name \subseteq registered[call[c].kind]

\* The advertisements follow the registry and the list methods report it, whoever
\* else registers, unregisters, lists and synchronises.
RegistryAndAdsAgree ==
    /\ RegistryTypeOK /\ QuietSyncAligns /\ ListIsOneMoment
    /\ tally.overlap = 0 => OneAdPerName

(***************************************************************************)
(* docs/THREAD_SAFE_MANAGERS.md, Lock granularity: the lock is released    *)
(* before a method of a manager or a service is called.                    *)
(***************************************************************************)
MethodsRunUnlocked ==
    \A c \in Callers : call[c].op \in {"list", "document"} /\ call[c].name # {} => c \notin readers

=============================================================================
