------------------------- MODULE BeginTransactionBody -------------------------
(***************************************************************************)
(* What the front ends make of the headers of a request, and of the body   *)
(* of a begin (v1) or prepare (v2) request: a list of the budgets to       *)
(* consume, or an error. A body is its version and groups of keys. Version *)
(* 1.0 has one group, whose origin comes with the transaction; in version  *)
(* 2.0 each group names its own. A time is a day (the time group) and an   *)
(* hour (the bucket) in it.                                                *)
(***************************************************************************)
EXTENDS Integers, Sequences

CONSTANTS
    SiteOfOrigin,  \* the site of each reporting origin (registrable domain)
    NoSite,        \* the site of an origin without a public suffix
    NoOrigin       \* no transaction origin in the headers

\* The headers of a request: whether each is there, and can be read.
ExtractTransactionId(headers) == headers.id

ExtractLastExecutionTimestamp(headers) == headers.timestamp

ExtractTransactionSecret(headers) == headers.secret

ExtractTransactionOrigin(headers) == headers.origin # NoOrigin

\* What a request for a phase after the first must have.
PhaseHeaders(headers) ==
    /\ ExtractTransactionId(headers) /\ ExtractTransactionSecret(headers)
    /\ ExtractLastExecutionTimestamp(headers)

ObtainTransactionOrigin(headers, domain) ==
    IF ExtractTransactionOrigin(headers) THEN headers.origin ELSE domain

\* Reporting origins differ by scheme, host and port; a site is what is left
\* when these are stripped and the scheme is https.
TransformReportingOriginToSite(origin) == SiteOfOrigin[origin]

\* form: "ok", or "fields" if a field is missing, or "time" if the reporting
\* time is not a timestamp or before the epoch.
KeyError(key) ==
    CASE key.form = "fields" -> "INVALID_REQUEST_BODY"
      [] key.form = "time"   -> "INVALID_REQUEST"
      [] OTHER               -> "Success"

\* The same hour of the same key came before.
Visited(keys, i) ==
    \E j \in 1..(i - 1) : /\ keys[j].key = keys[i].key
                          /\ keys[j].day = keys[i].day
                          /\ keys[j].hour = keys[i].hour

\* The loops stop at the first one.
First(bad) == CHOOSE i \in bad : \A j \in bad : i <= j

\* The error of the first key that has one.
KeysError(keys) ==
    LET bad == {i \in DOMAIN keys : KeyError(keys[i]) # "Success" \/ Visited(keys, i)}
        first == First(bad)
    IN IF bad = {} THEN "Success"
       ELSE IF KeyError(keys[first]) # "Success" THEN KeyError(keys[first])
       ELSE "INVALID_REQUEST"

Metadata(origin, key) ==
    [name |-> <<origin, key.key>>, day |-> key.day, hour |-> key.hour, tokens |-> key.tokens]

GroupMetadata(origin, keys) == [i \in DOMAIN keys |-> Metadata(origin, keys[i])]

ParseBeginTransactionRequestBodyV1(transaction_origin, body) ==
    LET keys == body.data[1].keys IN
    [error |-> KeysError(keys), budgets |-> GroupMetadata(transaction_origin, keys)]

GroupError(authorized_domain, data, g) ==
    LET site == TransformReportingOriginToSite(data[g].origin) IN
    CASE site = NoSite -> "INVALID_REQUEST_BODY"
      [] site # authorized_domain -> "REPORTING_ORIGIN_NOT_BELONG_TO_SITE"
      [] \E h \in 1..(g - 1) : data[h].origin = data[g].origin -> "INVALID_REQUEST"
      [] OTHER -> KeysError(data[g].keys)

ParseBeginTransactionRequestBodyV2(authorized_domain, body) ==
    LET bad == {g \in DOMAIN body.data : GroupError(authorized_domain, body.data, g) # "Success"}
        upto[g \in 0..Len(body.data)] ==
           IF g = 0 THEN <<>>
           ELSE upto[g - 1] \o GroupMetadata(body.data[g].origin, body.data[g].keys)
        budgets == upto[Len(body.data)]
    IN [error |-> IF bad # {} THEN GroupError(authorized_domain, body.data, First(bad))
                  ELSE IF budgets = <<>> THEN "INVALID_REQUEST_BODY" ELSE "Success",
        budgets |-> budgets]

ParseBeginTransactionRequestBody(authorized_domain, transaction_origin, body) ==
    CASE body.v = "1.0" -> ParseBeginTransactionRequestBodyV1(transaction_origin, body)
      [] body.v = "2.0" -> ParseBeginTransactionRequestBodyV2(authorized_domain, body)
      [] OTHER -> [error |-> "INVALID_REQUEST_BODY", budgets |-> <<>>]

=============================================================================
