------------------------------- MODULE Lookups -------------------------------
(***************************************************************************)
(* An application that keeps the list which one of Go's lookups returned,  *)
(* and passes the ETag that came with it back as the doc comments say:     *)
(* "on a 304 the page is nil and the etag is unchanged - pass it back".    *)
(* The server changes its catalogue when it likes, and may leave the ETag  *)
(* out; caches in between may answer with an earlier version.              *)
(*                                                                         *)
(* The steps are those of RequestPath, each with what it means to the list *)
(* and to its ETag.  Versions are numbered; 0 is no list, and no ETag.     *)
(***************************************************************************)
EXTENDS RequestPath

CONSTANT Versions   \* how many versions of the catalogue there may be

VARIABLES catalog,  \* the server's version
          held,     \* what the application has: its list, and the ETag
          served    \* what the reply holds: a version, and an ETag

lookupVars == <<catalog, held, served>>

Nothing == [list |-> 0, etag |-> 0]
Following == sdk = "go" /\ op \in {"taxcodes", "hsncodes"}

LookupsInit ==
    /\ Init
    /\ catalog = 1 /\ held = Nothing /\ served = Nothing

Publish ==
    /\ Following /\ phase \in {"called", "sent", "done"}
    /\ catalog < Versions
    /\ catalog' = catalog + 1
    /\ UNCHANGED <<vars, held, served>>

\* The application stays with the operation, or turns to another and forgets.
CallLookup ==
    /\ NextCall
    /\ served' = Nothing
    /\ IF op' = op THEN UNCHANGED <<catalog, held>> ELSE catalog' = 1 /\ held' = Nothing

\* If-None-Match goes out with the parameters, unless the ETag is empty.
IfNoneMatch == IF RequestOf(Target).conditional THEN held.etag ELSE 0

\* A list goes with its own ETag or none, a 304 only with what was asked about.
AnswerLookup ==
    /\ Answer
    /\ UNCHANGED <<catalog, held>>
    /\ \/ /\ Following /\ reply'.status = 200 /\ reply'.body = "record"
          /\ \E v \in 1 .. catalog, tagged \in BOOLEAN :
                served' = [list |-> v, etag |-> IF tagged THEN v ELSE 0]
       \/ /\ Following /\ reply'.status = 304
          /\ served' \in [list : {0}, etag : {0, IfNoneMatch}]
       \/ /\ ~(Following /\ reply'.status = 200 /\ reply'.body = "record")
          /\ ~(Following /\ reply'.status = 304)
          /\ served' = Nothing

\* Slip: the validator that was sent is returned, if one was.
NewEtagSent == IF IfNoneMatch # 0 THEN IfNoneMatch ELSE served.etag

\* The ETag that TaxCodes and HSNCodes return, unless with an error.
NewEtag == served.etag

\* The application keeps the ETag, and the list unless it is nil: it cannot
\* tell a nil list of TaxCodes from a 304.
DecodeLookup ==
    /\ DecodeReply
    /\ UNCHANGED <<catalog, served>>
    /\ IF ~Following \/ outcome'.kind \in {"api", "foreign"} THEN UNCHANGED held
       ELSE held' = [list |-> IF outcome'.kind = "absent" \/ (outcome' = Hollow /\ op = "taxcodes")
                              THEN held.list ELSE served.list,
                     etag |-> NewEtag]

LookupsNext ==
    \/ Publish \/ CallLookup \/ AnswerLookup \/ DecodeLookup
    \/ /\ \/ Construct \/ ConstructFails
          \/ Build \/ IdentifierRefused \/ BuildFails
          \/ SkipAuth \/ Authorize \/ Unauthorized \/ EditFails
          \/ Send \/ TransportFails
       /\ UNCHANGED lookupVars

LookupsSpec == LookupsInit /\ [][LookupsNext]_<<vars, lookupVars>>
-----------------------------------------------------------------------------
\* "The server supports If-None-Match for cheap revalidation": an ETag that the
\* application passes back is that of the list it has, whatever was published,
\* answered with a 304, left without an ETag or answered with an error in
\* between.  With another one a 304 would leave it with an old list for good.
ValidatorMatchesList == held.etag # 0 => held.list = held.etag
=============================================================================
