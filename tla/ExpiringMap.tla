----------------------------- MODULE ExpiringMap -----------------------------
(***************************************************************************)
(* One entry of an AutoExpiryConcurrentMap that extends the life of its    *)
(* entries on access and blocks them while they are being evicted, as the  *)
(* caches of budget keys and of timeframe groups do. What an entry holds   *)
(* is kept by the module that uses the map. An operation is a result and   *)
(* the entry it leaves behind.                                             *)
(***************************************************************************)

EntryType == [present : BOOLEAN, being_evicted : BOOLEAN, is_evictable : BOOLEAN,
              expired : BOOLEAN]

NoEntry == [present |-> FALSE, being_evicted |-> FALSE, is_evictable |-> TRUE,
            expired |-> FALSE]

NewEntry == [NoEntry EXCEPT !.present = TRUE]

ExtendExpiration(e) == [e EXCEPT !.expired = FALSE]

EntryExpires(e) == [e EXCEPT !.expired = TRUE]

InsertResult(e) ==
    IF ~e.present THEN "Success"
    ELSE IF e.being_evicted THEN "BeingDeleted" ELSE "AlreadyExists"

Inserted(e) ==
    IF ~e.present THEN NewEntry
    ELSE IF e.being_evicted THEN e ELSE ExtendExpiration(e)

FindResult(e) ==
    IF ~e.present THEN "DoesNotExist"
    ELSE IF e.being_evicted THEN "BeingDeleted" ELSE "Success"

Found(e) == IF FindResult(e) = "Success" THEN ExtendExpiration(e) ELSE e

EvictionDisabled(e) ==
    IF FindResult(e) = "Success" THEN [ExtendExpiration(e) EXCEPT !.is_evictable = FALSE] ELSE e

EvictionEnabled(e) ==
    IF FindResult(e) = "Success" THEN [ExtendExpiration(e) EXCEPT !.is_evictable = TRUE] ELSE e

\* What a round of RunGarbageCollector picks.
Collects(e) == e.present /\ e.is_evictable /\ e.expired

BeingEvicted(e) == [e EXCEPT !.being_evicted = TRUE]

\* The callback of on_before_element_deletion.
EntryRemoved(e, can_delete) ==
    IF can_delete THEN NoEntry ELSE [e EXCEPT !.being_evicted = FALSE]

=============================================================================
