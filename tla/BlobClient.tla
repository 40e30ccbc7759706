------------------------------ MODULE BlobClient ------------------------------
(***************************************************************************)
(* The operations on whole blobs of the four blob storage clients: those   *)
(* of core, AwsS3Client and GcpCloudStorageClient, and the providers of    *)
(* cpio. One caller lists the blobs of a bucket page by page, following    *)
(* the token of each page, while another puts, gets and deletes blobs. A   *)
(* blob's name is its place in the order of names; what it contains is     *)
(* left out. The services are external: an          *)
(* operation takes effect at once or fails, and a write that is reported   *)
(* as failed may have been made.                                           *)
(***************************************************************************)
EXTENDS Naturals, Sequences, SequencesExt, FiniteSetsExt

CONSTANTS
    BcClients,    \* "core aws", "core gcp", "cpio aws", "cpio gcp"
    BcNames,      \* names of blobs: numbers above zero
    BcInitial,    \* the blobs there are at first
    BcMaxPage,    \* kListBlobsMaxResults
    BcPageSizes,  \* values of max_page_size; zero when it is not set
    BcMaxWrites   \* bound on puts and deletes

VARIABLES
    bcClient,     \* the client that is used
    bcReady,      \* its Init and Run: before, done, failed
    bcPageSize,   \* max_page_size of the listing
    bcStore,      \* which blobs there are: one, or zero when there is none
    bcCall,       \* the call of the lister and the one of the writer
    bcToken,      \* the token that the next page starts from; zero for none
    bcListed,     \* the names that the lister has got
    bcListing,    \* new, on, complete
    bcSteady,     \* ghost: the blobs that were there since the listing began
    bcSeen,       \* ghost: the blobs that were there at some time since
    bcWrites      \* the puts and deletes made

bcVars == <<bcClient, bcReady, bcPageSize, bcStore, bcCall, bcToken, bcListed, bcListing,
            bcSteady, bcSeen, bcWrites>>

BcCallers == {"lister", "writer"}
BcNone == [op |-> "none", pc |-> "idle", name |-> 0, returned |-> "none",
           result |-> "none", got |-> 0, page |-> <<>>, token |-> 0, finishes |-> 0]

Present(store) == {n \in BcNames : store[n] # 0}

BcInit ==
    /\ bcClient \in BcClients
    /\ bcReady = "before"
    /\ bcPageSize \in BcPageSizes
    /\ bcStore = [n \in BcNames |-> IF n \in BcInitial THEN 1 ELSE 0]
    /\ bcCall = [c \in BcCallers |-> BcNone]
    /\ bcToken = 0 /\ bcListed = <<>> /\ bcListing = "new"
    /\ bcSteady = {} /\ bcSeen = {} /\ bcWrites = 0

BcTypeOK ==
    /\ bcReady \in {"before", "done", "failed"}
    /\ bcToken \in BcNames \cup {0}
    /\ \A i \in DOMAIN bcListed : bcListed[i] \in BcNames
    /\ \A c \in BcCallers : bcCall[c].pc \in {"idle", "sent", "finishing"} /\ bcCall[c].finishes \in 0..2
    /\ bcSteady \subseteq BcNames /\ bcSeen \subseteq BcNames

-----------------------------------------------------------------------------
(* Init and Run: the region, the project or the configuration may not be    *)
(* had.                                                                     *)

S3Init == {"done", "failed"}
GcsInit == {"done", "failed"}
S3ProviderRun == {"done", "failed"}
GcsProviderInit == {"done", "failed"}

StartClient ==
    /\ bcReady = "before"
    /\ bcReady' \in CASE bcClient = "core aws" -> S3Init
                      [] bcClient = "core gcp" -> GcsInit
                      [] bcClient = "cpio aws" -> S3ProviderRun
                      [] bcClient = "cpio gcp" -> GcsProviderInit
    /\ UNCHANGED <<bcClient, bcPageSize, bcStore, bcCall, bcToken, bcListed, bcListing, bcSteady,
                   bcSeen, bcWrites>>

(* What a client makes of a call: the reasons for which it returns a        *)
(* failure, without finishing the context (silent) or having finished it    *)
(* (finished), and what it finishes a call that it takes with.              *)

Treatment(silent, finished, outcomes) == [silent |-> silent, finished |-> finished, outcomes |-> outcomes]

Outcome(result, store, page, token, got) ==
    [result |-> result, store |-> store, page |-> page, token |-> token, got |-> got]

CallFails(store) == Outcome("Failure", store, <<>>, 0, 0)

\* The content is read, or the service or the reading fails.
Reads(n, store) ==
    {CallFails(store)} \cup {Outcome("Success", store, <<>>, 0, store[m]) : m \in {n} \cap Present(store)}

\* The write is made and answered; or it is answered with a failure, made or not.
BcWrites(n, store, content) ==
    LET made == [store EXCEPT ![n] = content]
    IN  {Outcome("Success", made, <<>>, 0, 0), CallFails(made), CallFails(store)}

Lists(list, store) == {Outcome("Success", store, list.page, list.token, 0), CallFails(store)}

Ascending(names) == SetToSortSeq(names, <)

\* S3 lists the names after the marker and gives the last one as the next marker when
\* there are more.
ListObjects(store, size) ==
    LET names == Ascending({n \in Present(store) : n > bcToken})
        page == SubSeq(names, 1, Min({size, Len(names)}))
    IN  [page |-> page, token |-> IF Len(page) < Len(names) THEN Last(page) ELSE 0]

\* The library of GCP lists the names from the offset on, without end. A first one that is
\* the token itself is skipped; the page is cut when it is full, even at the last name.
ListFromOffset(store, size) ==
    LET names == Ascending({n \in Present(store) : n >= bcToken})
        rest == IF names # <<>> /\ bcToken # 0 /\ Head(names) = bcToken THEN Tail(names) ELSE names
        page == SubSeq(rest, 1, Min({size, Len(rest)}))
    IN  [page |-> page, token |-> IF Len(page) = size THEN Last(page) ELSE 0]

PageSize == IF bcPageSize # 0 THEN bcPageSize ELSE BcMaxPage

\* AwsS3Client of core, which does not look at the names except for a put.
S3GetBlob(n, store) == Treatment({}, {}, Reads(n, store))
S3ListBlobs(store) == Treatment({}, {}, Lists(ListObjects(store, BcMaxPage), store))
S3PutBlob(n, store) == Treatment({"names", "digest"}, {}, BcWrites(n, store, 1))
S3DeleteBlob(n, store) == Treatment({}, {}, BcWrites(n, store, 0))

\* GcpCloudStorageClient of core, whose executor may refuse the operation.
GcsGetBlob(n, store) == Treatment({"names", "schedule"}, {}, Reads(n, store))
GcsListBlobs(store) ==
    Treatment({"names", "schedule"}, {}, Lists(ListFromOffset(store, BcMaxPage), store))
GcsPutBlob(n, store) == Treatment({"names", "schedule"}, {}, BcWrites(n, store, 1))
GcsDeleteBlob(n, store) == Treatment({"names", "schedule"}, {}, BcWrites(n, store, 0))

\* AwsS3ClientProvider of cpio.
S3ProviderGetBlob(n, store) == Treatment({}, {"names"}, Reads(n, store))
S3ProviderListBlobs(store) ==
    Treatment({"page size"}, {"names"}, Lists(ListObjects(store, PageSize), store))
S3ProviderPutBlob(n, store) == Treatment({}, {"names", "digest"}, BcWrites(n, store, 1))
S3ProviderDeleteBlob(n, store) == Treatment({}, {"names"}, BcWrites(n, store, 0))

\* GcpCloudStorageClientProvider of cpio.
GcsProviderGetBlob(n, store) == Treatment({}, {"names", "schedule"}, Reads(n, store))
GcsProviderListBlobs(store) ==
    Treatment({"page size"}, {"names", "schedule"}, Lists(ListFromOffset(store, PageSize), store))
GcsProviderPutBlob(n, store) == Treatment({"names"}, {"schedule"}, BcWrites(n, store, 1))
GcsProviderDeleteBlob(n, store) == Treatment({}, {"names", "schedule"}, BcWrites(n, store, 0))

Treat(op, n) ==
    CASE op = "get" -> (CASE bcClient = "core aws" -> S3GetBlob(n, bcStore)
                          [] bcClient = "core gcp" -> GcsGetBlob(n, bcStore)
                          [] bcClient = "cpio aws" -> S3ProviderGetBlob(n, bcStore)
                          [] bcClient = "cpio gcp" -> GcsProviderGetBlob(n, bcStore))
      [] op = "list" -> (CASE bcClient = "core aws" -> S3ListBlobs(bcStore)
                           [] bcClient = "core gcp" -> GcsListBlobs(bcStore)
                           [] bcClient = "cpio aws" -> S3ProviderListBlobs(bcStore)
                           [] bcClient = "cpio gcp" -> GcsProviderListBlobs(bcStore))
      [] op = "put" -> (CASE bcClient = "core aws" -> S3PutBlob(n, bcStore)
                          [] bcClient = "core gcp" -> GcsPutBlob(n, bcStore)
                          [] bcClient = "cpio aws" -> S3ProviderPutBlob(n, bcStore)
                          [] bcClient = "cpio gcp" -> GcsProviderPutBlob(n, bcStore))
      [] op = "delete" -> (CASE bcClient = "core aws" -> S3DeleteBlob(n, bcStore)
                             [] bcClient = "core gcp" -> GcsDeleteBlob(n, bcStore)
                             [] bcClient = "cpio aws" -> S3ProviderDeleteBlob(n, bcStore)
                             [] bcClient = "cpio gcp" -> GcsProviderDeleteBlob(n, bcStore))

-----------------------------------------------------------------------------
\* A call is taken, or refused for a reason that the client has.
Submit(c, op, n) ==
    LET t == Treat(op, n)
        large == "page size" \in t.silent /\ bcPageSize > BcMaxPage
    IN
    \/ /\ ~large
       /\ bcCall' = [bcCall EXCEPT ![c] = [BcNone EXCEPT !.op = op, !.name = n, !.returned = "Success", !.pc = "sent"]]
    \/ \E why \in (t.silent \cup t.finished) :
         /\ large <=> why = "page size"
         /\ bcCall' = [bcCall EXCEPT ![c] =
                         [BcNone EXCEPT !.op = op, !.returned = "Failure", !.result = "Failure",
                                        !.finishes = IF why \in t.finished THEN 1 ELSE 0]]

ListNextPage ==
    /\ bcReady = "done" /\ bcCall["lister"].pc = "idle" /\ bcListing # "complete"
    /\ Submit("lister", "list", 0)
    /\ bcListing' = "on"
    /\ bcSteady' = IF bcListing = "new" THEN Present(bcStore) ELSE bcSteady
    /\ bcSeen' = IF bcListing = "new" THEN Present(bcStore) ELSE bcSeen
    /\ UNCHANGED <<bcClient, bcReady, bcPageSize, bcStore, bcToken, bcListed, bcWrites>>

CallOnBlob(op, n) ==
    /\ bcReady = "done" /\ bcCall["writer"].pc = "idle"
    /\ op = "get" \/ bcWrites < BcMaxWrites
    /\ bcWrites' = IF op = "get" THEN bcWrites ELSE bcWrites + 1
    /\ Submit("writer", op, n)
    /\ UNCHANGED <<bcClient, bcReady, bcPageSize, bcStore, bcToken, bcListed, bcListing, bcSteady, bcSeen>>

\* The service has answered, and the callback gives the context to the executor.
Answer(c) ==
    LET call == bcCall[c] IN
    /\ call.pc = "sent"
    /\ \E o \in Treat(call.op, call.name).outcomes :
         /\ bcStore' = o.store
         /\ bcCall' = [bcCall EXCEPT ![c] = [call EXCEPT !.pc = "finishing", !.result = o.result,
                         !.page = o.page, !.token = o.token, !.got = o.got]]
    /\ bcSteady' = bcSteady \cap Present(bcStore')
    /\ bcSeen' = IF bcListing = "new" THEN {} ELSE bcSeen \cup Present(bcStore')
    /\ UNCHANGED <<bcClient, bcReady, bcPageSize, bcToken, bcListed, bcListing, bcWrites>>

\* Finish of the context. The lister keeps the page and its token, or asks again.
FinishCall(c) ==
    LET call == bcCall[c]
        good == c = "lister" /\ call.result = "Success"
    IN
    /\ call.pc = "finishing"
    /\ bcCall' = [bcCall EXCEPT ![c] = [BcNone EXCEPT !.op = call.op,
                     !.result = call.result, !.got = call.got, !.returned = call.returned,
                     !.finishes = call.finishes + 1]]
    /\ bcListed' = IF good THEN bcListed \o call.page ELSE bcListed
    /\ bcToken' = IF good THEN call.token ELSE bcToken
    /\ bcListing' = IF good /\ call.token = 0 THEN "complete" ELSE bcListing
    /\ UNCHANGED <<bcClient, bcReady, bcPageSize, bcStore, bcSteady, bcSeen, bcWrites>>

BcNext ==
    \/ StartClient \/ ListNextPage
    \/ \E op \in {"get", "put", "delete"}, n \in BcNames : CallOnBlob(op, n)
    \/ \E c \in BcCallers : Answer(c) \/ FinishCall(c)

BcSpec == BcInit /\ [][BcNext]_bcVars

-----------------------------------------------------------------------------
(* Properties.                                                              *)

\* A listing that followed the tokens to the end has every blob that was there all the
\* time, in order and once, and none that was never there, although blobs come and go
\* between the pages, the one that the token names among them.
ListingIsComplete ==
    /\ \A i, j \in DOMAIN bcListed : i < j => bcListed[i] < bcListed[j]
    /\ ToSet(bcListed) \subseteq bcSeen
    /\ bcListing = "complete" => bcSteady \subseteq ToSet(bcListed)

\* A call that was taken is finished once; a call that was refused is not finished with
\* a success, and a get that succeeds has a content.
BcFinishedOnce ==
    \A c \in BcCallers :
        /\ bcCall[c].finishes <= 1
        /\ bcCall[c].returned = "Success" /\ bcCall[c].pc = "idle" => bcCall[c].finishes = 1
        /\ bcCall[c].returned = "Failure" => bcCall[c].result = "Failure"
        /\ bcCall[c].op = "get" /\ bcCall[c].pc = "idle" =>
             (bcCall[c].result = "Success" <=> bcCall[c].got # 0)

=============================================================================
