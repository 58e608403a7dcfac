------------------------------ MODULE StateData ------------------------------
(***************************************************************************)
(* The state data of the update in progress, as datastore/datastore.go     *)
(* keeps it in the client's database.                                      *)
(*                                                                         *)
(* A client that was itself installed by an older client starts with the   *)
(* older client's entry (version 0 or 1).  Until the update is committed   *)
(* it must not touch that entry, because a rollback boots the older client *)
(* again; it keeps its own copy under the "uncommitted" key.  Every store  *)
(* and every load also counts up, and the caller is told when the count    *)
(* reaches its maximum, which is how an endless loop of states is broken.  *)
(*                                                                         *)
(* Database transactions are atomic (store/dbstore.go, LMDB); a power cut  *)
(* or a boot between two of them is BootNew, FallBack or Restart.          *)
(***************************************************************************)
EXTENDS Naturals, StoreCount

CONSTANTS
    UpdateIDs,                   \* identifiers of deployments
    Names                        \* names of states

VARIABLES
    stateData,      \* the entry under StateDataKey
    uncommitted,    \* the entry under StateDataKeyUncommitted
    update,         \* the running client's copy in memory
    client,         \* which client is running: "old" or "new"
    permanent,      \* TRUE when the new client can no longer be rolled back
    fellBack,       \* TRUE when the boot of the current update was undone
    oldView,        \* history: what the old client last left in its entry
    ended,          \* history: the new client was idle before it was committed
    retried,        \* history: an earlier attempt at this update left its copy
    last,           \* history: the state last recorded for the update
    stores          \* history: stores and loads since the count was restarted

disk == <<stateData, uncommitted>>
history == <<oldView, ended, retried, last, stores>>
vars == <<stateData, uncommitted, update, client, permanent, fellBack,
          oldView, ended, retried, last, stores>>

Entry ==
    [version : {1, 2}, id : UpdateIDs, name : Names,
     count : 0 .. MaximumStateDataStoreCount]

\* No entry under the key (os.ErrNotExist).
NoEntry == [version |-> 0]

\* The client knows that there is no update, or has not looked yet.
NoUpdate == [schema |-> FALSE]
Unknown == [schema |-> TRUE]

Update ==
    [id : UpdateIDs, schema : BOOLEAN, name : Names]

TypeOK ==
    /\ stateData \in Entry \union {NoEntry}
    /\ uncommitted \in Entry \union {NoEntry}
    /\ update \in Update \union {NoUpdate, Unknown}
    /\ client \in {"old", "new"}
    /\ permanent \in BOOLEAN
    /\ fellBack \in BOOLEAN
    /\ oldView \in Entry \union {NoEntry}
    /\ ended \in BOOLEAN
    /\ retried \in BOOLEAN
    /\ last \in [id : UpdateIDs, name : Names] \union {NoUpdate}
    /\ stores \in Nat

Init ==
    /\ stateData = NoEntry
    /\ uncommitted = NoEntry
    /\ update = Unknown
    /\ client \in {"old", "new"}
    /\ permanent = (client = "new")
    /\ fellBack = FALSE
    /\ oldView = NoEntry
    /\ ended = FALSE
    /\ retried = FALSE
    /\ last = NoUpdate
    /\ stores = 0

------------------------------------------------------------------------------
(* The count that breaks loops (see StoreCount).                           *)

\* The count an entry contributes; a new key starts from zero.
CountOf(e) == IF e = NoEntry THEN 0 ELSE e.count

\* History: a call that reports the maximum restarts the caller's budget.
CountStore(count) == stores' = IF Exceeded(count) THEN 0 ELSE stores + 1

------------------------------------------------------------------------------
(* The old client (version 1 entries; it knows neither the second key nor  *)
(* the count).                                                             *)

\* A deployment begins over whatever entry is left, and may be one that the
\* server offers again.
OldStart(u, n) ==
    /\ client = "old"
    /\ stateData' = [version |-> 1, id |-> u, name |-> n, count |-> 0]
    /\ oldView' = stateData'
    /\ ended' = FALSE
    /\ retried' = (uncommitted # NoEntry /\ uncommitted.id = u)
    /\ last' = [id |-> u, name |-> n]
    /\ stores' = 0
    /\ fellBack' = FALSE
    /\ UNCHANGED <<uncommitted, update, client, permanent>>

OldStore(n) ==
    /\ client = "old"
    /\ stateData.version = 1
    /\ stateData' = [stateData EXCEPT !.name = n]
    /\ oldView' = stateData'
    /\ last' = [id |-> stateData.id, name |-> n]
    /\ UNCHANGED <<uncommitted, update, client, permanent, fellBack, ended, retried, stores>>

OldFinish ==
    /\ client = "old"
    /\ stateData # NoEntry
    /\ stateData' = NoEntry
    /\ oldView' = NoEntry
    /\ UNCHANGED <<uncommitted, update, client, permanent, fellBack, ended, retried, last, stores>>

------------------------------------------------------------------------------
(* Boots.  The old client's update boots the new one; an update that is    *)
(* not committed may be undone, which boots the old client for good (for   *)
(* this update).  A restart of the same client loses its memory.           *)

BootNew ==
    /\ client = "old"
    /\ stateData.version = 1
    /\ ~fellBack
    /\ client' = "new"
    /\ update' = Unknown
    /\ UNCHANGED <<disk, permanent, fellBack, history>>

FallBack ==
    /\ client = "new"
    /\ ~permanent
    /\ client' = "old"
    /\ fellBack' = TRUE
    /\ update' = Unknown
    /\ UNCHANGED <<disk, permanent, history>>

Restart ==
    /\ client = "new"
    /\ update # Unknown
    /\ update' = Unknown
    /\ UNCHANGED <<disk, client, permanent, fellBack, history>>

------------------------------------------------------------------------------
(* The new client.                                                         *)

\* Mutant: any uncommitted entry is taken, whatever update it is about.
LoadedAnyUpdate ==
    IF stateData.version = 1 /\ uncommitted # NoEntry THEN uncommitted ELSE stateData

\* The entry LoadStateData works on: the uncommitted one when the other was
\* written by an older client and both are about the same update.
Loaded ==
    IF /\ stateData.version = 1
       /\ uncommitted # NoEntry
       /\ uncommitted.id = stateData.id
    THEN uncommitted
    ELSE stateData

\* LoadStateData in the init state: picks the entry, upgrades it and writes
\* the count back; without an entry no update was in progress.
LoadStateData ==
    /\ client = "new"
    /\ update = Unknown
    /\ IF stateData = NoEntry
       THEN update' = NoUpdate /\ UNCHANGED <<disk, stores>>
       ELSE LET sd     == Loaded
                schema == stateData.version = 1
                entry  == [sd EXCEPT !.version = 2, !.count = NextCount(sd.count)]
            IN  /\ update' = [id |-> sd.id, schema |-> schema, name |-> sd.name]
                /\ uncommitted' = IF schema THEN entry ELSE uncommitted
                /\ stateData' = IF schema THEN stateData ELSE entry
                /\ CountStore(sd.count)
    /\ UNCHANGED <<client, permanent, fellBack, oldView, ended, retried, last>>

\* Mutant: there is only one key.
KeyAlwaysCommitted(schema) == "committed"

\* The key StoreStateDataAndTransaction writes under.
Key(schema) == IF schema THEN "uncommitted" ELSE "committed"

\* Mutant: the uncommitted entry is not removed.
WriteKeepsCopy(u, n, s) ==
    LET committedKey == Key(s) = "committed"
        count == CountOf(IF committedKey THEN stateData ELSE uncommitted)
        entry == [version |-> 2, id |-> u, name |-> n, count |-> NextCount(count)]
    IN  /\ stateData' = IF committedKey THEN entry ELSE stateData
        /\ uncommitted' = IF committedKey THEN uncommitted ELSE entry
        /\ update' = [id |-> u, schema |-> s, name |-> n]
        /\ last' = [id |-> u, name |-> n]
        /\ retried' = FALSE

\* StoreStateDataAndTransaction, for state n of update u and schema flag s.
Write(u, n, s) ==
    LET committedKey == Key(s) = "committed"
        count == CountOf(IF committedKey THEN stateData ELSE uncommitted)
        entry == [version |-> 2, id |-> u, name |-> n, count |-> NextCount(count)]
    IN  /\ stateData' = IF committedKey THEN entry ELSE stateData
        /\ uncommitted' = IF committedKey THEN NoEntry ELSE entry
        /\ update' = [id |-> u, schema |-> s, name |-> n]
        /\ last' = [id |-> u, name |-> n]
        /\ retried' = FALSE

\* A deployment that the new client begins itself, up to its first store,
\* over whatever entry is left: the count goes on from there.
Start(u, n) ==
    /\ client = "new"
    /\ update = NoUpdate
    /\ Write(u, n, FALSE)
    /\ stores' = IF Exceeded(CountOf(stateData)) THEN 0 ELSE 1
    /\ UNCHANGED <<client, permanent, fellBack, oldView, ended>>

\* A state of the update is stored on the way into it.
StoreStateData(n) ==
    /\ client = "new"
    /\ update \in Update
    /\ Write(update.id, n, update.schema)
    /\ CountStore(CountOf(IF update.schema THEN uncommitted ELSE stateData))
    /\ UNCHANGED <<client, permanent, fellBack, oldView, ended>>

\* The payload's CommitUpdate: from here no boot leads back to the old client.
CommitUpdate ==
    /\ client = "new"
    /\ update \in Update
    /\ permanent' = TRUE
    /\ UNCHANGED <<disk, update, client, fellBack, history>>

\* What the commit state then stores: the schema update becomes final, and
\* the count goes on from the entry that the old client left.
StoreCommit(n) ==
    /\ client = "new"
    /\ update \in Update
    /\ permanent
    /\ Write(update.id, n, FALSE)
    /\ stores' = IF update.schema THEN 1
                 ELSE IF Exceeded(CountOf(stateData)) THEN 0 ELSE stores + 1
    /\ UNCHANGED <<client, permanent, fellBack, oldView, ended>>

\* RemoveStateData in the idle state; the update is over, whether or not its
\* entry goes: an error is ignored, and a signal skips the idle state.
RemoveStateData ==
    /\ client = "new"
    /\ update # Unknown
    /\ update' = NoUpdate
    /\ stateData' = NoEntry \/ UNCHANGED stateData
    /\ ended' = (ended \/ ~permanent)
    /\ UNCHANGED <<uncommitted, client, permanent, fellBack, oldView, retried, last, stores>>

Next ==
    \/ \E u \in UpdateIDs, n \in Names : OldStart(u, n) \/ Start(u, n)
    \/ \E n \in Names : OldStore(n) \/ StoreStateData(n) \/ StoreCommit(n)
    \/ OldFinish \/ BootNew \/ FallBack \/ Restart
    \/ LoadStateData \/ CommitUpdate \/ RemoveStateData

Spec == Init /\ [][Next]_vars

------------------------------------------------------------------------------
(* Properties.                                                             *)

\* From the boot of the new client until it is committed, the entry of the
\* old client is exactly what the old client left there, so that a boot back
\* finds its own data: StoreStateDataAndTransaction and LoadStateData write
\* only the uncommitted key while HasDBSchemaUpdate is set.  The exception is
\* a new client that gave the update up and went to its idle state without
\* a commit: RemoveStateData removes the entry, whosever it is.
OldDataIntact == ~permanent /\ ~ended => stateData = oldView

\* A client that loaded or stored an update goes on with the update recorded
\* last, never with the leftover of another, and from the state recorded last
\* for it: the comparison of the update IDs in LoadStateData.  The exception
\* is a deployment that is attempted again under the same ID: the copy left
\* by the first attempt passes the comparison, and with it its state.
ResumesLastState ==
    update \in Update =>
        update.id = last.id /\ (retried \/ update.name = last.name)

\* However a client stores, crashes and loads, the caller is told within
\* MaximumStateDataStoreCount calls that the count has run out (the count
\* restarts once, when a schema update is committed).
LoopDetected == stores <= MaximumStateDataStoreCount

\* At most one entry is authoritative: when the committed entry is in the
\* new format no uncommitted copy is left that a later load could prefer
\* (StoreStateDataAndTransaction removes it in the same transaction).
OneAuthority == stateData.version = 2 => uncommitted = NoEntry
==============================================================================
