---------------------------- MODULE Serialization ----------------------------
(***************************************************************************)
(* The form in which the stores keep the objects of the consensus:         *)
(* domain/consensus/database/serialization.  One codec stands for the two  *)
(* functions of a pair; the inner side is the domain object, the outer one *)
(* the message of dbobjects.proto that is marshalled into the database.    *)
(***************************************************************************)
EXTENDS Codecs

D == INSTANCE DomainConverters

(* dbobjects.pb.go. *)
DbHash == Struct([Hash |-> Bytes])
DbTransactionId == Struct([TransactionId |-> Bytes])
DbSubnetworkId == Struct([SubnetworkId |-> Bytes])
DbBlockLevelParents == Struct([ParentHashes |-> List(DbHash)])
DbBlockHeader ==
  Struct([Version |-> Uint32, Parents |-> List(DbBlockLevelParents), HashMerkleRoot |-> Ptr(DbHash),
          AcceptedIDMerkleRoot |-> Ptr(DbHash), UtxoCommitment |-> Ptr(DbHash),
          TimeInMilliseconds |-> Int64, Bits |-> Uint32, Nonce |-> Uint64, DaaScore |-> Uint64,
          BlueWork |-> Bytes, PruningPoint |-> Ptr(DbHash), BlueScore |-> Uint64])
DbOutpoint == Struct([TransactionID |-> Ptr(DbTransactionId), Index |-> Uint32])
DbTransactionInput ==
  Struct([PreviousOutpoint |-> Ptr(DbOutpoint), SignatureScript |-> Bytes, Sequence |-> Uint64,
          SigOpCount |-> Uint32])
DbScriptPublicKey == Struct([Script |-> Bytes, Version |-> Uint32])
DbTransactionOutput == Struct([Value |-> Uint64, ScriptPublicKey |-> Ptr(DbScriptPublicKey)])
DbTransaction ==
  Struct([Version |-> Uint32, Inputs |-> List(DbTransactionInput),
          Outputs |-> List(DbTransactionOutput), LockTime |-> Uint64,
          SubnetworkID |-> Ptr(DbSubnetworkId), Gas |-> Uint64, Payload |-> Bytes])
DbBlock == Struct([Header |-> Ptr(DbBlockHeader), Transactions |-> List(DbTransaction)])
DbUtxoEntry ==
  Struct([Amount |-> Uint64, ScriptPublicKey |-> Ptr(DbScriptPublicKey), BlockDaaScore |-> Uint64,
          IsCoinbase |-> Boolean])
DbTransactionAcceptanceData ==
  Struct([Transaction |-> Ptr(DbTransaction), Fee |-> Uint64, IsAccepted |-> Boolean,
          TransactionInputUtxoEntries |-> List(DbUtxoEntry)])
DbBlockAcceptanceData ==
  Struct([TransactionAcceptanceData |-> List(DbTransactionAcceptanceData),
          BlockHash |-> Ptr(DbHash)])
DbAcceptanceData == Struct([BlockAcceptanceData |-> List(DbBlockAcceptanceData)])
DbBlockRelations == Struct([Parents |-> List(DbHash), Children |-> List(DbHash)])
DbBlockStatus == Struct([Status |-> Uint32])
DbBluesAnticoneSizes == Struct([BlueHash |-> Ptr(DbHash), AnticoneSize |-> Uint32])
DbBlockGhostdagData ==
  Struct([BlueScore |-> Uint64, BlueWork |-> Bytes, SelectedParent |-> Ptr(DbHash),
          MergeSetBlues |-> List(DbHash), MergeSetReds |-> List(DbHash),
          BluesAnticoneSizes |-> List(DbBluesAnticoneSizes)])
DbMultiset == Struct([Multiset |-> Bytes])
DbUtxoCollectionItem ==
  Struct([Outpoint |-> Ptr(DbOutpoint), UtxoEntry |-> Ptr(DbUtxoEntry)])
DbUtxoDiff ==
  Struct([ToAdd |-> List(DbUtxoCollectionItem), ToRemove |-> List(DbUtxoCollectionItem)])
DbReachabilityInterval == Struct([Start |-> Uint64, End |-> Uint64])
DbReachabilityData ==
  Struct([Children |-> List(DbHash), Parent |-> Ptr(DbHash),
          Interval |-> Ptr(DbReachabilityInterval), FutureCoveringSet |-> List(DbHash)])
DbTips == Struct([Tips |-> List(DbHash)])
DbBlockGHOSTDAGDataHashPair ==
  Struct([Hash |-> Ptr(DbHash), GhostdagData |-> Ptr(DbBlockGhostdagData)])

(* The pairs of functions. *)
DbHashToDomainHash == Wrap(DbHash, "Hash", Id)
DbHashesToDomainHashes == All(DbHashToDomainHash)
DbTransactionIDToDomainTransactionID == Wrap(DbTransactionId, "TransactionId", Id)
DbSubnetworkIDToDomainSubnetworkID == Wrap(DbSubnetworkId, "SubnetworkId", Id)
DbParentsToDomainParents ==
  All(Wrap(DbBlockLevelParents, "ParentHashes", DbHashesToDomainHashes))
DbBlockHeaderToDomainBlockHeader ==
  Msg(DbBlockHeader,
    Same({"TimeInMilliseconds", "Bits", "Nonce", "BlueScore"})
    @@ [Version |-> F("Version", Narrow(MaxUint16)),
        Parents |-> F("Parents", DbParentsToDomainParents),
        HashMerkleRoot |-> F("HashMerkleRoot", Deref(DbHashToDomainHash)),
        AcceptedIDMerkleRoot |-> F("AcceptedIDMerkleRoot", Deref(DbHashToDomainHash)),
        UTXOCommitment |-> F("UtxoCommitment", Deref(DbHashToDomainHash)),
        DAAScore |-> F("DaaScore", Copy), BlueWork |-> F("BlueWork", BigIntBytes),
        PruningPoint |-> F("PruningPoint", Deref(DbHashToDomainHash))])
DbOutpointToDomainOutpoint ==
  Msg(DbOutpoint, Same({"Index"})
    @@ [TransactionID |-> F("TransactionID", Deref(DbTransactionIDToDomainTransactionID))])
DBScriptPublicKeyToScriptPublicKey ==
  Msg(DbScriptPublicKey, Same({"Script"}) @@ [Version |-> F("Version", Narrow(MaxUint16))])
DbTransactionToDomainTransaction ==
  Msg(DbTransaction,
    Same({"LockTime", "Gas", "Payload"})
    @@ [Version |-> F("Version", Narrow(MaxUint16)),
        Inputs |-> F("Inputs", All(Msg(DbTransactionInput,
          Same({"SignatureScript", "Sequence"})
          @@ [PreviousOutpoint |-> F("PreviousOutpoint", Deref(DbOutpointToDomainOutpoint)),
              SigOpCount |-> F("SigOpCount", Truncated(MaxUint8))]))),
        Outputs |-> F("Outputs", All(Msg(DbTransactionOutput,
          Same({"Value"})
          @@ [ScriptPublicKey |->
                F("ScriptPublicKey", Deref(DBScriptPublicKeyToScriptPublicKey))]))),
        SubnetworkID |-> F("SubnetworkID", Deref(DbSubnetworkIDToDomainSubnetworkID))])
DbBlockToDomainBlock ==
  Msg(DbBlock,
    [Header |-> F("Header", Deref(DbBlockHeaderToDomainBlockHeader)),
     Transactions |-> F("Transactions", All(DbTransactionToDomainTransaction))])
DBUTXOEntryToUTXOEntry ==
  Msg(DbUtxoEntry,
    Same({"Amount", "IsCoinbase"})
    @@ [ScriptPublicKey |-> F("ScriptPublicKey", Deref(DBScriptPublicKeyToScriptPublicKey)),
        BlockDAAScore |-> F("BlockDaaScore", Copy)])
DbAcceptanceDataToDomainAcceptanceData ==
  Wrap(DbAcceptanceData, "BlockAcceptanceData", All(Msg(DbBlockAcceptanceData,
    [BlockHash |-> F("BlockHash", Deref(DbHashToDomainHash)),
     TransactionAcceptanceData |-> F("TransactionAcceptanceData", All(EntriesIntoInputs(
       Msg(DbTransactionAcceptanceData,
         Same({"Fee", "IsAccepted"})
         @@ [Transaction |-> F("Transaction", Deref(DbTransactionToDomainTransaction)),
             TransactionInputUTXOEntries |->
               F("TransactionInputUtxoEntries", All(DBUTXOEntryToUTXOEntry))]))))])))
DbBlockRelationsToDomainBlockRelations ==
  Msg(DbBlockRelations, [f \in {"Parents", "Children"} |-> F(f, DbHashesToDomainHashes)])
DbBlockStatusToDomainBlockStatus == Wrap(DbBlockStatus, "Status", Truncated(MaxUint8))
dbBluesAnticoneSizesToBluesAnticoneSizes ==
  MapAsList(Msg(DbBluesAnticoneSizes,
    [BlueHash |-> F("BlueHash", Deref(DbHashToDomainHash)),
     AnticoneSize |-> F("AnticoneSize", Narrow(MaxUint8))]), "BlueHash")
DBBlockGHOSTDAGDataToBlockGHOSTDAGData ==
  Msg(DbBlockGhostdagData,
    Same({"BlueScore"})
    @@ [BlueWork |-> F("BlueWork", BigIntBytes),
        SelectedParent |-> F("SelectedParent", Opt(DbHashToDomainHash)),
        MergeSetBlues |-> F("MergeSetBlues", DbHashesToDomainHashes),
        MergeSetReds |-> F("MergeSetReds", DbHashesToDomainHashes),
        BluesAnticoneSizes |-> F("BluesAnticoneSizes", dbBluesAnticoneSizesToBluesAnticoneSizes)])
DbBlockGHOSTDAGDataHashPairToBlockGHOSTDAGDataHashPair ==
  Msg(DbBlockGHOSTDAGDataHashPair,
    [Hash |-> F("Hash", Deref(DbHashToDomainHash)),
     GHOSTDAGData |-> F("GhostdagData", Deref(DBBlockGHOSTDAGDataToBlockGHOSTDAGData))])
DBMultisetToMultiset == Wrap(DbMultiset, "Multiset", Id)
dbUTXOCollectionToUTXOCollection ==
  MapAsList(Msg(DbUtxoCollectionItem,
    [Outpoint |-> F("Outpoint", Deref(DbOutpointToDomainOutpoint)),
     UTXOEntry |-> F("UtxoEntry", Deref(DBUTXOEntryToUTXOEntry))]), "Outpoint")
DBUTXODiffToUTXODiff ==
  Msg(DbUtxoDiff, [f \in {"ToAdd", "ToRemove"} |-> F(f, dbUTXOCollectionToUTXOCollection)])
dbReachablityIntervalToReachablityInterval ==
  Msg(DbReachabilityInterval, Same({"Start", "End"}))
DBReachablityDataToReachablityData ==
  Msg(DbReachabilityData,
    [Children |-> F("Children", DbHashesToDomainHashes),
     Parent |-> F("Parent", Opt(DbHashToDomainHash)),
     Interval |-> F("Interval", Deref(dbReachablityIntervalToReachablityInterval)),
     FutureCoveringSet |-> F("FutureCoveringSet", DbHashesToDomainHashes)])
DBTipsToTips == Wrap(DbTips, "Tips", DbHashesToDomainHashes)

(* The domain objects that are stored and never sent. *)
BlockStatus == Leaf("BlockStatus", 0 .. 4, MaxUint8)
StoredGHOSTDAGData ==
  Struct([D!DomainBlockGHOSTDAGData.fields EXCEPT !.SelectedParent = Ptr(DomainHash)])
UTXOEntry == D!DomainOutpointAndUTXOEntryPair.fields.UTXOEntry
UTXOCollection == MapOf(D!DomainOutpointAndUTXOEntryPair, "Outpoint")
AcceptedInput == Struct([UTXOEntry |-> Ref(UTXOEntry)] @@ D!DomainTransactionInput.fields)
AcceptanceData ==
  List(Struct([BlockHash |-> DomainHash,
    TransactionAcceptanceData |-> List(Struct(
      [Transaction |-> Struct([D!DomainTransaction.fields EXCEPT !.Inputs = List(AcceptedInput)]),
       Fee |-> Uint64, IsAccepted |-> Boolean, TransactionInputUTXOEntries |-> List(UTXOEntry)]))]))

(* The acceptance data calculatePastUTXO makes: the entries an accepted transaction spends are *)
(* listed beside it and are those of its inputs; a rejected one has none.                      *)
AcceptanceOf(data) ==
  LET inputs == data.Transaction.Inputs
  IN IF data.IsAccepted = 1
     THEN [data EXCEPT !.TransactionInputUTXOEntries =
             [k \in DOMAIN inputs |-> inputs[k].UTXOEntry[1]]]
     ELSE [data EXCEPT !.TransactionInputUTXOEntries = <<>>,
             !.Transaction.Inputs = [k \in DOMAIN inputs |-> [inputs[k] EXCEPT !.UTXOEntry = <<>>]]]
CalculatedAcceptanceData ==
  {[i \in DOMAIN v |-> [v[i] EXCEPT !.TransactionAcceptanceData =
      [j \in DOMAIN @ |-> AcceptanceOf(@[j])]]] : v \in Variants(AcceptanceData)}
================================================================================
