------------------------------- MODULE NoSqlRows -------------------------------
(***************************************************************************)
(* What the database clients' requests do to a row: conditional upserts on *)
(* Spanner and on DynamoDB, and reads with a filter. A row is absent, or   *)
(* has attributes (of the JSON in its column Value, or of the DynamoDB     *)
(* item).                                                                  *)
(***************************************************************************)
LOCAL INSTANCE TLC

NsAbsent == [present |-> FALSE, value |-> << >>]
NsStored(value) == [present |-> TRUE, value |-> value]

\* The condition "attribute = value" for each required attribute, which no
\* attribute that is absent satisfies.
NsMatches(row, required) ==
    /\ row.present
    /\ \A a \in DOMAIN required : a \in DOMAIN row.value /\ row.value[a] = required[a]

\* On Spanner. The members of the existing value are kept where there is no
\* new one.
GetMergedJson(row, required, new) ==
    CASE NsMatches(row, required) -> [result |-> "Success", row |-> NsStored(new @@ row.value)]
      [] ~NsMatches(row, required) /\ DOMAIN required # {} ->
            [result |-> "RECORD_NOT_FOUND", row |-> row]
      [] OTHER -> [result |-> "Success", row |-> NsStored(new)]

CoreGetMergedJson(row, required, new) ==
    IF NsMatches(row, required)
    THEN [result |-> "Success", row |-> NsStored(new @@ row.value)]
    ELSE IF DOMAIN required # {} THEN [result |-> "RECORD_NOT_FOUND", row |-> row]
    ELSE [result |-> "Success", row |-> NsStored(new)]

\* UpdateItem of DynamoDB: conditional, atomic, and creating the item.
DynamoUpdateItem(row, required, new) ==
    IF DOMAIN required = {} \/ NsMatches(row, required)
    THEN [result |-> "Success", row |-> NsStored(new @@ row.value)]
    ELSE [result |-> "CONDITIONAL_CHECKED_FAILED", row |-> row]

\* What a read of the row answers, on either database.
NsReadResult(row, required) ==
    IF NsMatches(row, required) THEN "Success" ELSE "RECORD_NOT_FOUND"
================================================================================
