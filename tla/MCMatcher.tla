----------------------------- MODULE MCMatcher -----------------------------
(* Small sets of configurations and events for the runs of Matcher.        *)
EXTENDS Matcher

CONSTANTS ContractNames  \* the contract names in use, each a sequence of words

Principal == <<"SP1", ".">>

MCContracts == {Principal \o name : name \in ContractNames} \cup {Wildcard, <<"SP1">>}

MCRules ==
    [type : {"print_event", "ft_transfer", "stx_transfer", "typo"}, table : {"t", "u"}]

MCSources ==
    [contract : MCContracts, events : {<<r>> : r \in MCRules}]

MCTwoEvents ==
    [contract : MCContracts,
     events : {<<[type |-> "nft_mint", table |-> "t"], [type |-> "stx_lock", table |-> "u"]>>}]

MCConfigs ==
    [name : {"", "idx"}, network : {"devnet", "regtest"},
     sources : {<<>>} \cup {<<s>> : s \in MCTwoEvents}]
    \cup [name : {"idx"}, network : {"mainnet"}, sources : MCSources \X MCSources]

(* The id that goes with each type of raw event.                           *)
IdsOf(type) ==
    CASE type = "contract_event" -> {Principal \o name : name \in ContractNames}
      [] type \in RawTypesOf(AssetTypes) ->
            {Principal \o name \o <<"::", "asset">> : name \in ContractNames}
      [] OTHER -> {<<>>}

Raw(type, id, committed, envelopeOk, payloadOk) ==
    [type |-> type, id |-> id, committed |-> committed,
     envelopeOk |-> envelopeOk, payloadOk |-> payloadOk]

MCTypes == {"contract_event", "ft_transfer_event", "nft_mint_event",
            "stx_transfer_event", "stx_lock_event", "future_event"}

MCRawEvents ==
    UNION {{Raw(type, id, committed, TRUE, TRUE) :
                id \in IdsOf(type), committed \in BOOLEAN} : type \in MCTypes}
    \cup {Raw("stx_transfer_event", <<>>, TRUE, FALSE, TRUE),
          Raw("stx_transfer_event", <<>>, TRUE, TRUE, FALSE)}

(* Names of which none is a prefix of another, and one that is: a contract *)
(* and its second version.                                                 *)
DistinctNames == {<<"vault">>, <<"token">>}
VersionedNames == {<<"token">>, <<"token", "-v2">>}
=============================================================================
