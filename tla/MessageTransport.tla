--------------------------- MODULE MessageTransport ---------------------------
(***************************************************************************)
(* One message on its way: made by a node from a domain object or as an    *)
(* app message, converted to a protobuf message, converted back by the     *)
(* node that receives it, stored and read again there if it is an object   *)
(* the consensus keeps, and sent on by that node to a third one.  A        *)
(* message may also come from a peer that fills the protobuf message as it *)
(* likes, and an object may be stored and never sent.                      *)
(***************************************************************************)
EXTENDS Wire

D == INSTANCE DomainConverters
S == INSTANCE Serialization

VARIABLES payload,   \* the name of the payload of KaspadMessage, or of an object that is stored
          level,     \* where the message was made: "domain", "app" or "wire"
          origin,    \* the value it was made with
          at,        \* where it is: "domain", "stored", "app", "wire", "received" or "delivered"
          val,       \* its value there
          hop,       \* the connection it is on, 1 or 2
          acceptedValue,  \* the value the first receiver ended up with
          refusedBy  \* "none", or who refused it: "sender", "receiver", "reader" or "store"

transportVars == <<payload, level, origin, at, val, hop, acceptedValue, refusedBy>>

Carried(type, codec) == [type |-> type, codec |-> codec]

(* The payloads whose content the flows and the handlers turn into domain objects. *)
DomainForm ==
  [Block |-> Carried(D!DomainBlock, D!MsgBlockToDomainBlock),
   Transaction |-> Carried(D!DomainTransaction, D!MsgTxToDomainTransaction),
   IbdBlock |-> Carried(D!DomainBlock, Wrap(A!MsgIBDBlock, "MsgBlock", D!MsgBlockToDomainBlock)),
   BlockHeaders |->
     Carried(List(D!DomainBlockHeader),
             Wrap(A!BlockHeadersMessage, "BlockHeaders", All(D!BlockHeaderToDomainBlockHeader))),
   PruningPoints |->
     Carried(List(D!DomainBlockHeader),
             Wrap(A!MsgPruningPoints, "Headers", All(D!BlockHeaderToDomainBlockHeader))),
   PruningPointProof |->
     Carried(Struct([Headers |-> List(List(D!DomainBlockHeader))]),
             D!MsgPruningPointProofToDomainPruningPointProof),
   BlockWithTrustedData |->
     Carried(Struct([Block |-> D!DomainBlock, DAAWindow |-> List(D!TrustedDataDataDAAHeader),
                     GHOSTDAGData |-> List(D!DomainBlockGHOSTDAGDataHashPair)]),
             D!BlockWithTrustedDataToDomainBlockWithTrustedData),
   BlockWithTrustedDataV4 |->
     Carried(Struct([Block |-> D!DomainBlock, DAAWindowIndices |-> List(Uint64),
                     GHOSTDAGDataIndices |-> List(Uint64)]),
             D!DomainBlockWithTrustedDataToBlockWithTrustedDataV4),
   TrustedData |->
     Carried(Struct([DAAWindow |-> List(D!TrustedDataDataDAAHeader),
                     GHOSTDAGData |-> List(D!DomainBlockGHOSTDAGDataHashPair)]),
             D!DomainTrustedDataToTrustedData),
   PruningPointUtxoSetChunk |->
     Carried(List(D!DomainOutpointAndUTXOEntryPair),
             Wrap(A!MsgPruningPointUTXOSetChunk, "OutpointAndUTXOEntryPairs",
                  All(D!OutpointAndUTXOEntryPairToDomain))),
   SubmitBlockRequest |->
     Carried(Struct([Block |-> D!DomainBlock, AllowNonDAABlocks |-> Boolean]),
             Msg(A!SubmitBlock.Request, Same({"AllowNonDAABlocks"})
                                              @@ [Block |-> F("Block", D!RPCBlockToDomainBlock)])),
   SubmitTransactionRequest |->
     Carried(Struct([Transaction |-> D!DomainTransaction, AllowOrphan |-> Boolean]),
             Msg(A!SubmitTransaction.Request,
                 Same({"AllowOrphan"})
                 @@ [Transaction |-> F("Transaction", D!RPCTransactionToDomainTransaction)])),
   GetBlockTemplateResponse |->
     Carried(Struct([Block |-> D!DomainBlock, IsSynced |-> Boolean]),
             Msg(A!GetBlockTemplate.Response,
                 Same({"IsSynced"}) @@ [Block |-> F("Block", Req(D!RPCBlockToDomainBlock))])),
   GetUtxosByAddressesResponse |->
     Carried(List(Struct([Address |-> String] @@ D!DomainOutpointAndUTXOEntryPair.fields)),
             Wrap(A!GetUTXOsByAddresses.Response, "Entries",
                  All(Msg(A!UTXOsByAddressesEntry,
                          Same({"Address"})
                          @@ [Outpoint |-> F("Outpoint", D!RPCOutpointToDomainOutpoint),
                              UTXOEntry |-> F("UTXOEntry", Req(D!RPCUTXOEntryToUTXOEntry))]))))]

(* The payloads whose objects the receiving node keeps and reads back to send them on, and the *)
(* objects that are only kept.                                                                 *)
StoredForm ==
  [Block |-> S!DbBlockToDomainBlock, IbdBlock |-> S!DbBlockToDomainBlock,
   BlockHeaders |-> All(S!DbBlockHeaderToDomainBlockHeader),
   PruningPoints |-> All(S!DbBlockHeaderToDomainBlockHeader),
   PruningPointUtxoSetChunk |->
     All(Msg(S!DbUtxoCollectionItem,
             [Outpoint |-> F("Outpoint", Deref(S!DbOutpointToDomainOutpoint)),
              UTXOEntry |-> F("UtxoEntry", Deref(S!DBUTXOEntryToUTXOEntry))]))]
StoredObject ==
  [DbAcceptanceData |-> Carried(S!AcceptanceData, S!DbAcceptanceDataToDomainAcceptanceData),
   DbBlockRelations |->
     Carried(Struct([Parents |-> List(DomainHash), Children |-> List(DomainHash)]),
             S!DbBlockRelationsToDomainBlockRelations),
   DbBlockStatus |-> Carried(S!BlockStatus, S!DbBlockStatusToDomainBlockStatus),
   DbBlockGhostdagData |->
     Carried(S!StoredGHOSTDAGData, S!DBBlockGHOSTDAGDataToBlockGHOSTDAGData),
   DbBlockGHOSTDAGDataHashPair |->
     Carried(Struct([Hash |-> DomainHash, GHOSTDAGData |-> S!StoredGHOSTDAGData]),
             S!DbBlockGHOSTDAGDataHashPairToBlockGHOSTDAGDataHashPair),
   DbMultiset |-> Carried(DomainHash, S!DBMultisetToMultiset),
   DbUtxoDiff |-> Carried(Struct([ToAdd |-> S!UTXOCollection, ToRemove |-> S!UTXOCollection]),
                          S!DBUTXODiffToUTXODiff),
   DbReachabilityData |->
     Carried(Struct([Children |-> List(DomainHash), Parent |-> Ptr(DomainHash),
                     Interval |-> Struct([Start |-> Uint64, End |-> Uint64]),
                     FutureCoveringSet |-> List(DomainHash)]),
             S!DBReachablityDataToReachablityData),
   DbTips |-> Carried(List(DomainHash), S!DBTipsToTips)]
StoreCodec ==
  StoredForm @@ [o \in DOMAIN StoredObject |-> StoredObject[o].codec]

Payloads == toP2PPayload \union RPCPayloads
ByName(ps) == [n \in {p.name : p \in ps} |-> CHOOSE p \in ps : p.name = n]
PayloadNamed == ByName(Payloads)
Writable == {p.name : p \in toP2PPayload \union toRPCPayload}
HasDomainForm == payload \in DOMAIN DomainForm

(* An answer is a result without an error, or an error beside an empty result; *)
(* HandleGetBalanceByAddress never answers an error with its own response.     *)
OneOf(t) ==
  LET variants == Variants(t)
  IN IF "Error" \notin DOMAIN t.fields THEN variants
     ELSE {[v EXCEPT !.Error = <<>>] : v \in variants}
            \union IF t = A!GetBalanceByAddress.Response THEN {}
                   ELSE {[Zero(t) EXCEPT !.Error = e] : e \in Variants(t.fields.Error) \ {<<>>}}

(* What a peer may put into a protobuf message. *)
Anything(t) ==
  IF "Error" \notin DOMAIN t.fields THEN Variants(t)
  ELSE LET failed == [Zero(t) EXCEPT !.Error = Typical(t.fields.Error)]
       IN Variants(t) \union {[v EXCEPT !.Error = <<>>] : v \in Variants(t)}
            \union {[failed EXCEPT ![f] = Typical(t.fields[f])] : f \in DOMAIN t.fields}

OuterType(codec) == CASE codec.kind = "embed" -> codec.of.type [] OTHER -> codec.type

MadeFrom(p, l) ==
  CASE p = "DbAcceptanceData" -> IF l = "domain" THEN S!CalculatedAcceptanceData ELSE {}
    [] p \in DOMAIN StoredObject -> IF l = "domain" THEN Variants(StoredObject[p].type) ELSE {}
    [] l = "domain" -> IF p \in DOMAIN DomainForm THEN Variants(DomainForm[p].type) ELSE {}
    [] l = "app" -> OneOf(PayloadNamed[p].message)
    [] l = "wire" -> Anything(OuterType(PayloadNamed[p].codec))

TransportInit ==
  /\ payload \in DOMAIN PayloadNamed \union DOMAIN StoredObject
  /\ level \in {"domain", "app", "wire"}
  /\ origin \in MadeFrom(payload, level)
  /\ at = level
  /\ val = origin
  /\ hop = 1
  /\ acceptedValue = <<>>
  /\ refusedBy = "none"

(* One conversion, without an error to the next place, with one refused. *)
Convert(error, result, place, who) ==
  /\ IF error = "none" THEN at' = place /\ val' = result /\ UNCHANGED refusedBy
     ELSE refusedBy' = who /\ UNCHANGED <<at, val>>
  /\ UNCHANGED <<payload, level, origin>>

Encode(codec, place, who) == Convert(EncodeError(codec, val), Encoded(codec, val), place, who)
Decode(codec, place, who) == Convert(DecodeError(codec, val), Decoded(codec, val), place, who)

(* The last conversion on a connection: what it makes is what the receiver ends up with. *)
Ends == acceptedValue' = IF hop = 1 /\ refusedBy' = "none" THEN <<val'>> ELSE acceptedValue

(* The stores marshal what an XToDbX function makes of an object, and unmarshal it. *)
Store ==
  /\ refusedBy = "none"
  /\ \/ at = "domain" /\ payload \in DOMAIN StoredObject
     \/ at = "delivered" /\ payload \in DOMAIN StoredForm /\ hop = 1
  /\ Encode(StoreCodec[payload], "stored", "store")
  /\ UNCHANGED <<hop, acceptedValue>>

(* An object that is only kept is delivered when it is read; one of a message is sent on. *)
Load ==
  LET onlyKept == payload \in DOMAIN StoredObject
  IN /\ at = "stored" /\ refusedBy = "none"
     /\ Decode(StoreCodec[payload], IF onlyKept THEN "delivered" ELSE "domain", "store")
     /\ hop' = IF onlyKept THEN hop ELSE 2
     /\ UNCHANGED acceptedValue

DomainToApp ==
  /\ at = "domain" /\ HasDomainForm /\ refusedBy = "none"
  /\ Encode(DomainForm[payload].codec, "app", "sender")
  /\ UNCHANGED <<hop, acceptedValue>>

FromAppMessage ==
  /\ at = "app" /\ refusedBy = "none"
  /\ IF payload \in Writable THEN Encode(PayloadNamed[payload].codec, "wire", "sender")
     ELSE Convert("other", val, "wire", "sender")
  /\ UNCHANGED <<hop, acceptedValue>>

ToAppMessage ==
  /\ at = "wire" /\ refusedBy = "none"
  /\ Decode(PayloadNamed[payload].codec, "received", "receiver")
  /\ IF HasDomainForm THEN UNCHANGED acceptedValue ELSE Ends
  /\ UNCHANGED hop

(* A node that is answered with an error reads no object from the answer. *)
AppToDomain ==
  /\ at = "received" /\ HasDomainForm /\ refusedBy = "none"
  /\ IF "Error" \in DOMAIN val /\ ~IsNil(val.Error)
     THEN Convert("other", val, "delivered", "reader")
     ELSE Decode(DomainForm[payload].codec, "delivered", "reader")
  /\ Ends
  /\ UNCHANGED hop

Relay ==
  /\ hop = 1 /\ hop' = 2 /\ refusedBy = "none"
  /\ \/ at = "delivered" /\ payload \notin DOMAIN StoreCodec /\ at' = "domain"
     \/ at = "received" /\ ~HasDomainForm /\ at' = "app"
  /\ UNCHANGED <<payload, level, origin, val, acceptedValue, refusedBy>>

TransportNext ==
  \/ Store \/ Load
  \/ DomainToApp \/ FromAppMessage \/ ToAppMessage \/ AppToDomain \/ Relay

TransportSpec == TransportInit /\ [][TransportNext]_transportVars

(***************************************************************************)
(* Properties.                                                             *)
(***************************************************************************)

(* The type invariant. *)
TransportTypeOK ==
  /\ payload \in DOMAIN PayloadNamed \union DOMAIN StoredObject
  /\ level \in {"domain", "app", "wire"}
  /\ at \in {"domain", "stored", "app", "wire", "received", "delivered"}
  /\ hop \in 1 .. 2
  /\ Len(acceptedValue) <= 1
  /\ refusedBy \in {"none", "sender", "receiver", "reader", "store"}

(* What a value says: a pointer to a struct without fields says no more than nil. *)
RECURSIVE Informative(_, _)
Informative(t, v) ==
  CASE t.kind = "struct" -> [f \in DOMAIN t.fields |-> Informative(t.fields[f], v[f])]
    [] t.kind \in {"ptr", "ref"} /\ t.of.kind = "struct" /\ t.of.fields = NoFields -> <<>>
    [] t.kind \in {"ptr", "ref", "list"} -> [i \in DOMAIN v |-> Informative(t.of, v[i])]
    [] OTHER -> v

(* The information of a message that a reader can expect: of a connected peer the *)
(* converter reads the time offset into the time connected.                       *)
Expected ==
  IF payload = "GetConnectedPeerInfoResponse"
  THEN [origin EXCEPT !.Infos =
          [i \in DOMAIN @ |-> [@[i] EXCEPT !.TimeConnected = origin.Infos[i].TimeOffset]]]
  ELSE origin

(* A message made by this code that its own encoder lets out is never refused by the        *)
(* receiving node and says there what it said to its sender: the two hand-written           *)
(* converters of each payload agree on every field, width and limit (protowire, toAppMessage *)
(* and fromAppMessage), and so do those between domain objects and app messages, and those  *)
(* between domain objects and the database (DbXToX and XToDbX).                             *)
DeliveredUnchanged ==
  LET Said(v) == Informative(PayloadNamed[payload].message, v)
  IN /\ level # "wire" => refusedBy # "receiver"
     /\ level = "domain" => refusedBy \notin {"reader", "store"}
     /\ level = "app" /\ hop = 1 /\ at = "received" => Said(val) = Said(Expected)
     /\ level = "domain" /\ hop = 1 /\ at = "delivered" => val = origin

(* Whatever a peer puts into a protobuf message, what toAppMessage accepts is a value of the *)
(* Go type it is stored in: no hash of another length, no number cut to a narrower type.     *)
AcceptedFits ==
  /\ at = "received" => Fits(PayloadNamed[payload].message, val)
  /\ at = "delivered" /\ HasDomainForm => Fits(DomainForm[payload].type, val)

(* What one node accepted from a peer its database keeps as it is, and the node it sends it *)
(* on to accepts it too and reads the same: a block or a transaction cannot be valid here    *)
(* and unreadable after a restart or one hop further.                                       *)
ForwardedUnchanged ==
  /\ refusedBy # "store"
  /\ hop = 2 => /\ refusedBy = "none" \/ payload \in DecodeOnly
                /\ at = (IF HasDomainForm THEN "delivered" ELSE "received")
                     => <<val>> = acceptedValue

================================================================================
