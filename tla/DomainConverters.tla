--------------------------- MODULE DomainConverters ---------------------------
(***************************************************************************)
(* The conversion between the objects of the consensus (externalapi) and   *)
(* app messages: appmessage/domainconverters.go.  One codec stands for the *)
(* two functions of a pair; the inner side is the domain object.           *)
(***************************************************************************)
EXTENDS Codecs

A == INSTANCE AppMessages

(* The domain objects, with the fields that cross the network. *)
DomainBlockHeader ==
  Struct([Version |-> Uint16, Parents |-> List(List(DomainHash)), HashMerkleRoot |-> DomainHash,
          AcceptedIDMerkleRoot |-> DomainHash, UTXOCommitment |-> DomainHash,
          TimeInMilliseconds |-> Int64, Bits |-> Uint32, Nonce |-> Uint64, DAAScore |-> Uint64,
          BlueScore |-> Uint64, BlueWork |-> BigInt, PruningPoint |-> DomainHash])
DomainOutpoint == Struct([TransactionID |-> DomainHash, Index |-> Uint32])
DomainTransactionInput ==
  Struct([PreviousOutpoint |-> DomainOutpoint, SignatureScript |-> Bytes, Sequence |-> Uint64,
          SigOpCount |-> Uint8])
DomainTransactionOutput == Struct([Value |-> Uint64, ScriptPublicKey |-> A!ScriptPublicKey])
DomainTransaction ==
  Struct([Version |-> Uint16, Inputs |-> List(DomainTransactionInput),
          Outputs |-> List(DomainTransactionOutput), LockTime |-> Uint64,
          SubnetworkID |-> DomainHash, Gas |-> Uint64, Payload |-> Bytes])
DomainBlock == Struct([Header |-> DomainBlockHeader, Transactions |-> List(DomainTransaction)])
DomainBlockGHOSTDAGData ==
  Struct([BlueScore |-> Uint64, BlueWork |-> BigInt, SelectedParent |-> DomainHash,
          MergeSetBlues |-> List(DomainHash), MergeSetReds |-> List(DomainHash),
          BluesAnticoneSizes |->
            MapOf(Struct([BlueHash |-> DomainHash, AnticoneSize |-> Uint8]), "BlueHash")])
DomainBlockGHOSTDAGDataHashPair ==
  Struct([Hash |-> DomainHash, GHOSTDAGData |-> DomainBlockGHOSTDAGData])
TrustedDataDataDAAHeader ==
  Struct([Header |-> DomainBlockHeader, GHOSTDAGData |-> DomainBlockGHOSTDAGData])
DomainOutpointAndUTXOEntryPair ==
  Struct([Outpoint |-> DomainOutpoint,
          UTXOEntry |-> Struct([Amount |-> Uint64, ScriptPublicKey |-> A!ScriptPublicKey,
                                IsCoinbase |-> Boolean, BlockDAAScore |-> Uint64])])

(* The pairs of functions that convert between the two sides, for the P2P messages. *)
BlockHeaderToDomainBlockHeader ==
  Msg(A!MsgBlockHeader,
    Same({"Version", "Parents", "HashMerkleRoot", "AcceptedIDMerkleRoot", "UTXOCommitment", "Bits",
          "Nonce", "DAAScore", "BlueScore", "BlueWork", "PruningPoint"})
    @@ [TimeInMilliseconds |-> F("Timestamp", Copy)])
outpointToDomainOutpoint == Msg(A!Outpoint, Same({"Index"}) @@ [TransactionID |-> F("TxID", Copy)])
txInToDomainTransactionInput ==
  Msg(A!TxIn,
    Same({"SignatureScript", "Sequence", "SigOpCount"})
    @@ [PreviousOutpoint |-> F("PreviousOutpoint", outpointToDomainOutpoint)])
txOutToDomainTransactionOutput ==
  Msg(A!TxOut, Same({"Value"}) @@ [ScriptPublicKey |-> F("ScriptPubKey", Copy)])
MsgTxToDomainTransaction ==
  Msg(A!MsgTx,
    Same({"Version", "LockTime", "SubnetworkID", "Gas", "Payload"})
    @@ [Inputs |-> F("TxIn", All(txInToDomainTransactionInput)),
        Outputs |-> F("TxOut", All(txOutToDomainTransactionOutput))])
MsgBlockToDomainBlock ==
  Msg(A!MsgBlock,
    [Header |-> F("Header", BlockHeaderToDomainBlockHeader),
     Transactions |-> F("Transactions", All(MsgTxToDomainTransaction))])
OutpointAndUTXOEntryPairToDomain ==
  Msg(A!OutpointAndUTXOEntryPair,
    [Outpoint |-> F("Outpoint", outpointToDomainOutpoint), UTXOEntry |-> F("UTXOEntry", Copy)])
ghostdagDataToDomainGHOSTDAGData ==
  Msg(A!BlockGHOSTDAGData,
    Same({"BlueScore", "BlueWork", "SelectedParent", "MergeSetBlues", "MergeSetReds"})
    @@ [BluesAnticoneSizes |-> F("BluesAnticoneSizes", MapAsList(Copy, "BlueHash"))])
GHOSTDAGHashPairToDomainGHOSTDAGHashPair ==
  Msg(A!BlockGHOSTDAGDataHashPair,
    Same({"Hash"}) @@ [GHOSTDAGData |-> F("GHOSTDAGData", ghostdagDataToDomainGHOSTDAGData)])
TrustedDataDataDAABlockV4ToTrustedDataDataDAAHeader ==
  Msg(A!TrustedDataDAAHeader,
    [Header |-> F("Header", BlockHeaderToDomainBlockHeader),
     GHOSTDAGData |-> F("GHOSTDAGData", ghostdagDataToDomainGHOSTDAGData)])

(* The blocks of a DAA window are sent without their transactions, and read without them. *)
BlockWithTrustedDataToDomainBlockWithTrustedData ==
  Codec(A!MsgBlockWithTrustedData,
    [Block |-> F("Block", MsgBlockToDomainBlock),
     DAAWindow |-> F("DAAWindow", All(Msg(A!TrustedDataDataDAABlock,
       [Header |-> F("Block", Wrap(A!MsgBlock, "Header", BlockHeaderToDomainBlockHeader)),
        GHOSTDAGData |-> F("GHOSTDAGData", ghostdagDataToDomainGHOSTDAGData)]))),
     GHOSTDAGData |-> F("GHOSTDAGData", All(GHOSTDAGHashPairToDomainGHOSTDAGHashPair))],
    NoFields, NoFields, [DAAScore |-> <<"Block", "Header", "DAAScore">>])
DomainBlockWithTrustedDataToBlockWithTrustedDataV4 ==
  Msg(A!MsgBlockWithTrustedDataV4,
    Same({"DAAWindowIndices", "GHOSTDAGDataIndices"})
    @@ [Block |-> F("Block", MsgBlockToDomainBlock)])
DomainTrustedDataToTrustedData ==
  Msg(A!MsgTrustedData,
    [DAAWindow |-> F("DAAWindow", All(TrustedDataDataDAABlockV4ToTrustedDataDataDAAHeader)),
     GHOSTDAGData |-> F("GHOSTDAGData", All(GHOSTDAGHashPairToDomainGHOSTDAGHashPair))])
MsgPruningPointProofToDomainPruningPointProof ==
  Msg(A!MsgPruningPointProof, [Headers |-> F("Headers", All(All(BlockHeaderToDomainBlockHeader)))])

(* The same for the RPC messages, whose hashes, scripts and blue work are hexadecimal texts. *)
RPCOutpointToDomainOutpoint ==
  Msg(A!RPCOutpoint, Same({"Index"}) @@ [TransactionID |-> F("TransactionID", Id)])
RPCScriptPublicKeyToScriptPublicKey ==
  Msg(A!RPCScriptPublicKey, Same({"Version"}) @@ [Script |-> F("Script", Hex)])
RPCTransactionToDomainTransaction ==
  Msg(A!RPCTransaction,
    Same({"Version", "LockTime", "Gas"})
    @@ [Inputs |-> F("Inputs", All(Msg(A!RPCTransactionInput,
          Same({"Sequence", "SigOpCount"})
          @@ [PreviousOutpoint |-> F("PreviousOutpoint", RPCOutpointToDomainOutpoint),
              SignatureScript |-> F("SignatureScript", Hex)]))),
        Outputs |-> F("Outputs", All(Msg(A!RPCTransactionOutput,
          [Value |-> F("Amount", Copy),
           ScriptPublicKey |-> F("ScriptPublicKey", RPCScriptPublicKeyToScriptPublicKey)]))),
        SubnetworkID |-> F("SubnetworkID", Id), Payload |-> F("Payload", Hex)])
RPCBlockHeaderToDomainBlockHeader ==
  Msg(A!RPCBlockHeader,
    Same({"Bits", "Nonce", "DAAScore", "BlueScore"})
    @@ [Version |-> F("Version", Truncated(MaxUint16)),
        Parents |-> F("Parents", All(Wrap(A!RPCBlockLevelParents, "ParentHashes", All(Id)))),
        HashMerkleRoot |-> F("HashMerkleRoot", Id), UTXOCommitment |-> F("UTXOCommitment", Id),
        AcceptedIDMerkleRoot |-> F("AcceptedIDMerkleRoot", Id),
        TimeInMilliseconds |-> F("Timestamp", Copy), BlueWork |-> F("BlueWork", BigIntText),
        PruningPoint |-> F("PruningPoint", Id)])
RPCBlockToDomainBlock ==
  Msg(A!RPCBlock,
    [Header |-> F("Header", RPCBlockHeaderToDomainBlockHeader),
     Transactions |-> F("Transactions", All(RPCTransactionToDomainTransaction))])
RPCUTXOEntryToUTXOEntry ==
  Msg(A!RPCUTXOEntry,
    Same({"Amount", "IsCoinbase", "BlockDAAScore"})
    @@ [ScriptPublicKey |-> F("ScriptPublicKey", RPCScriptPublicKeyToScriptPublicKey)])
================================================================================
