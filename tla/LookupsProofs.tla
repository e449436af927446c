--------------------------- MODULE LookupsProofs ---------------------------
(***************************************************************************)
(* The ETag that goes with a list, for any statuses and any number of      *)
(* versions of the catalogue.                                              *)
(***************************************************************************)
EXTENDS Lookups, RequestPathProofs

\* A client whose application follows a lookup is a client like any other:
\* the list and its ETag look on.
THEOREM LookupsImplementRequestPath == LookupsSpec => Spec
<1>1. LookupsInit => Init
  BY DEF LookupsInit
<1>2. [LookupsNext]_<<vars, lookupVars>> => [Next]_vars
  BY DEF LookupsNext, Publish, CallLookup, AnswerLookup, DecodeLookup, Next
<1> QED
  BY <1>1, <1>2, PTL DEF LookupsSpec, Spec

\* What came back to a lookup: a list with its own ETag, or a 304 with the ETag
\* that the application holds, unless the ETag was left out.
ServedSound ==
    phase = "answered" /\ Following =>
        \/ served.etag = 0
        \/ reply.status = 200 /\ reply.body = "record" /\ served.list = served.etag
        \/ reply.status = 304 /\ served.etag = held.etag

LookupInv == ServedSound /\ ValidatorMatchesList

\* A list that was read is a value or an error, a 304 is nothing.
LEMMA LookupOutcome ==
    ASSUME NEW p \in {"taxcodes", "hsncodes"}, NEW r
    PROVE  /\ r.status = 304 => Decode("go", p, r).kind = "absent"
           /\ r.status = 200 /\ r.body = "record" =>
                Decode("go", p, r) \in {Value, Foreign}
<1>1. p \notin Operations /\ p \in HandWritten
  BY OwnOperations DEF HandWritten, Ops
<1>2. Decode("go", p, r) = GoDecode(p, r)
  BY DEF Decode
<1>3. r.status = 304 => GoDecode(p, r) = Absent
  BY <1>1 DEF GoDecode, HandWritten, Success
<1>4. ASSUME r.status = 200, r.body = "record" PROVE GoDecode(p, r) = GoResult(p, r.body)
  BY <1>1, <1>4 DEF GoDecode, HandWritten, Success
<1>5. r.body = "record" => GoResult(p, r.body) \in {Value, Foreign}
  BY DEF GoResult, GoTaxCodes, GoUnmarshal, ErrorObjects
<1> QED
  BY <1>2, <1>3, <1>4, <1>5 DEF Absent

LEMMA LookupStep == LookupInv /\ [LookupsNext]_<<vars, lookupVars>> => LookupInv'
<1> SUFFICES ASSUME LookupInv, [LookupsNext]_<<vars, lookupVars>> PROVE LookupInv'
  OBVIOUS
<1> USE DEF LookupInv
<1>1. CASE Publish
  BY <1>1 DEF Publish, vars, ServedSound, ValidatorMatchesList, Following
<1>2. CASE CallLookup
  <2>1. phase' = "called" /\ (held' = held \/ held' = Nothing)
    BY <1>2 DEF CallLookup, NextCall
  <2> QED
    BY <2>1 DEF ServedSound, ValidatorMatchesList, Nothing
<1>3. CASE AnswerLookup
  <2>1. held' = held /\ UNCHANGED <<sdk, op>>
    BY <1>3 DEF AnswerLookup, Answer
  <2>2. \/ served'.etag = 0
        \/ reply'.status = 200 /\ reply'.body = "record" /\ served'.list = served'.etag
        \/ reply'.status = 304 /\ served'.etag = held.etag
    BY <1>3 DEF AnswerLookup, Nothing, IfNoneMatch
  <2> QED
    BY <2>1, <2>2 DEF ServedSound, ValidatorMatchesList
<1>4. CASE DecodeLookup
  <2>1. /\ phase = "answered" /\ phase' = "done" /\ outcome' = Decode(sdk, op, reply)
        /\ UNCHANGED <<sdk, op, reply, served>>
    BY <1>4 DEF DecodeLookup, DecodeReply
  <2>2. ServedSound'
    BY <2>1 DEF ServedSound
  <2>3. CASE ~Following \/ outcome'.kind \in {"api", "foreign"}
    BY <1>4, <2>3, <2>2 DEF DecodeLookup, ValidatorMatchesList
  <2>4. CASE Following /\ outcome'.kind \notin {"api", "foreign"}
    <3>1. /\ held'.etag = served.etag
          /\ held'.list = IF outcome'.kind = "absent" \/ (outcome' = Hollow /\ op = "taxcodes")
                          THEN held.list ELSE served.list
      BY <1>4, <2>4 DEF DecodeLookup, NewEtag
    <3>2. CASE served.etag = 0
      BY <2>2, <3>1, <3>2 DEF ValidatorMatchesList
    <3>3. CASE reply.status = 200 /\ reply.body = "record" /\ served.list = served.etag
      <4>1. outcome' = Value
        BY <2>1, <2>4, <3>3, LookupOutcome DEF Following, Foreign
      <4> QED
        BY <2>2, <3>1, <3>3, <4>1 DEF ValidatorMatchesList, Value, Hollow
    <3>4. CASE reply.status = 304 /\ served.etag = held.etag
      <4>1. outcome'.kind = "absent"
        BY <2>1, <2>4, <3>4, LookupOutcome DEF Following
      <4> QED
        BY <2>2, <3>1, <3>4, <4>1 DEF ValidatorMatchesList
    <3> QED
      BY <2>1, <2>4, <3>2, <3>3, <3>4 DEF ServedSound
  <2> QED
    BY <2>3, <2>4
<1>5. ASSUME \/ Construct \/ ConstructFails \/ Build \/ IdentifierRefused \/ BuildFails
             \/ SkipAuth \/ Authorize \/ Unauthorized \/ EditFails
             \/ Send \/ TransportFails,
             UNCHANGED lookupVars
      PROVE  LookupInv'
  <2>1. phase' # "answered"
    BY <1>5 DEF Construct, ConstructFails, Build, IdentifierRefused, BuildFails, SkipAuth,
       Authorize, Unauthorized, EditFails, Send, TransportFails, Editing, EndWith
  <2> QED
    BY <1>5, <2>1 DEF ServedSound, ValidatorMatchesList, lookupVars
<1>6. CASE UNCHANGED <<vars, lookupVars>>
  BY <1>6 DEF vars, lookupVars, ServedSound, ValidatorMatchesList, Following
<1> QED
  BY <1>1, <1>2, <1>3, <1>4, <1>5, <1>6 DEF LookupsNext

\* The ETag that the application passes back is that of the list it has, for
\* any statuses and any number of versions of the catalogue.
THEOREM ValidatorKept == LookupsSpec => []ValidatorMatchesList
<1>1. LookupsInit => LookupInv
  BY DEF LookupsInit, Init, LookupInv, ServedSound, ValidatorMatchesList, Nothing
<1>2. LookupInv => ValidatorMatchesList
  BY DEF LookupInv
<1> QED
  BY <1>1, <1>2, LookupStep, PTL DEF LookupsSpec

\* So a client whose application follows a lookup keeps all that RequestPath
\* promises, besides.
THEOREM LookupClientsSound ==
    LookupsSpec => /\ []TypeOK
                   /\ [](CompleteOptionsAgree /\ ProviderNormalises)
                   /\ [](BearerIsConfigured /\ RequestReachesOperation)
                   /\ [](RefusalsAreApiErrors /\ CanonicalCodeArrives)
                   /\ [](ResultMeansSuccess /\ EmptyIsNoResult /\ FacadeAgreesWithParser)
  BY LookupsImplementRequestPath, PathTypeCorrect, OptionsAgree, ProviderSound, BearerKept,
     RequestsRouted, RefusalsTyped, CodesArrive, ResultsSucceed, NothingFromEmpty,
     ParsersAgree, PTL
=============================================================================
