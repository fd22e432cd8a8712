------------------------------ MODULE Matcher ------------------------------
(***************************************************************************)
(* The event matcher (core/src/matcher/mod.rs) with the configuration it   *)
(* is built from (core/src/config) and the raw events it parses            *)
(* (core/src/types/events.rs).  A run of the module loads a configuration  *)
(* and feeds the matcher the raw events of one block, one by one.          *)
(*                                                                         *)
(* Identifiers are sequences of words, for the matcher compares prefixes   *)
(* of them: a contract is <<principal, ".", name, ...>>, an asset is a     *)
(* contract followed by <<"::", asset name>>.                              *)
(***************************************************************************)
EXTENDS Naturals, Sequences, FiniteSets, SequencesExt

CONSTANTS Configs,     \* the configurations a YAML file may hold
          RawEvents,   \* the events a block may carry
          MaxEvents    \* bound: events in one block

(* What serde makes of a configuration and of an event.                    *)
Config ==
    [name : STRING, network : STRING,
     sources : Seq([contract : Seq(STRING),
                    events : Seq([type : STRING, table : STRING])])]

RawEvent ==
    [type : STRING, id : Seq(STRING), committed : BOOLEAN,
     envelopeOk : BOOLEAN, payloadOk : BOOLEAN]

ASSUME MatcherAssumption ==
    /\ MaxEvents \in Nat
    /\ Configs \subseteq Config
    /\ RawEvents \subseteq RawEvent

VARIABLES config,   \* the configuration, once it is loaded
          status,   \* "loading", "rejected" or "running"
          seen,     \* the raw events matched so far
          matched   \* the MatchedEvents pushed so far

vars == <<config, status, seen, matched>>

-----------------------------------------------------------------------------
(* Event types.                                                            *)

AssetTypes == {"ft_transfer", "ft_mint", "ft_burn",
               "nft_transfer", "nft_mint", "nft_burn"}

StxTypes == {"stx_transfer", "stx_mint", "stx_burn", "stx_lock"}

EventTypes == {"print_event"} \cup AssetTypes \cup StxTypes

(* The discriminator by which stacks-core names the events of each type.   *)
Discriminator ==
    [ty \in EventTypes |->
        CASE ty = "print_event"  -> "contract_event"
          [] ty = "stx_transfer" -> "stx_transfer_event"
          [] ty = "stx_mint"     -> "stx_mint_event"
          [] ty = "stx_burn"     -> "stx_burn_event"
          [] ty = "stx_lock"     -> "stx_lock_event"
          [] ty = "ft_transfer"  -> "ft_transfer_event"
          [] ty = "ft_mint"      -> "ft_mint_event"
          [] ty = "ft_burn"      -> "ft_burn_event"
          [] ty = "nft_transfer" -> "nft_transfer_event"
          [] ty = "nft_mint"     -> "nft_mint_event"
          [] ty = "nft_burn"     -> "nft_burn_event"]

RawTypesOf(types) == {Discriminator[ty] : ty \in types}

-----------------------------------------------------------------------------
(* The configuration.                                                      *)

Wildcard == <<"*">>

(* The rules of a configuration, each at its position <<source, event>>,   *)
(* and the order in which validate and from_config visit them: source by   *)
(* source, each rule with its source's contract.                           *)
RulePositions(c) ==
    UNION {{i} \X DOMAIN c.sources[i].events : i \in DOMAIN c.sources}

RuleAt(c, p) ==
    [contract |-> c.sources[p[1]].contract,
     type     |-> c.sources[p[1]].events[p[2]].type,
     table    |-> c.sources[p[1]].events[p[2]].table]

Rules(c) == {RuleAt(c, p) : p \in RulePositions(c)}

VisitedBefore(p, q) == p[1] < q[1] \/ (p[1] = q[1] /\ p[2] < q[2])

(* The k-th of a set of positions.                                         *)
Rank(positions, p) == Cardinality({q \in positions : VisitedBefore(q, p)}) + 1
Nth(positions, k) == CHOOSE p \in positions : Rank(positions, p) = k

(* Definitions named Mutant... are wrong versions of the one that follows. *)

(* Duplicate tables are accepted.                                          *)
MutantValidDuplicates(c) ==
    /\ c.name # ""
    /\ c.network \in {"mainnet", "testnet", "devnet"}
    /\ \A i \in DOMAIN c.sources :
          c.sources[i].contract = Wildcard \/ Contains(c.sources[i].contract, ".")
    /\ \A r \in Rules(c) : r.type \in EventTypes

(* validate: a name, a known network, contracts with a "." or the          *)
(* wildcard, table names that differ, known event types.                   *)
Valid(c) ==
    /\ c.name # ""
    /\ c.network \in {"mainnet", "testnet", "devnet"}
    /\ \A i \in DOMAIN c.sources :
          c.sources[i].contract = Wildcard \/ Contains(c.sources[i].contract, ".")
    /\ \A p, q \in RulePositions(c) :
          RuleAt(c, p).table = RuleAt(c, q).table => p = q
    /\ \A r \in Rules(c) : r.type \in EventTypes

-----------------------------------------------------------------------------
(* Raw events: their discriminator, the identifier of their contract or    *)
(* asset (<<>> when they have none), whether the transaction was committed *)
(* and whether the envelope and the nested payload can be deserialized.    *)

(* RawEvent::parse succeeds, after the envelope did.                       *)
Parses(raw) ==
    /\ raw.envelopeOk
    /\ raw.payloadOk
    /\ raw.type \in RawTypesOf(EventTypes)

(* asset_contract: the part of an asset identifier before "::".            *)
AssetContract(id) ==
    LET k == SelectInSeq(id, LAMBDA word : word = "::")
    IN  IF k = 0 THEN id ELSE SubSeq(id, 1, k - 1)

(* contract_identifier: the contract an event belongs to, <<>> when it has *)
(* none (a native STX event, but for a lock, which may name a contract).   *)
ContractIdentifier(raw) ==
    IF raw.type \in RawTypesOf(AssetTypes) THEN AssetContract(raw.id) ELSE raw.id

-----------------------------------------------------------------------------
(* Matching.                                                               *)

(* matches_rule: the discriminator of the rule's type, then its contract:  *)
(* exactly for a contract event, by prefix for an asset, not at all for a  *)
(* native STX event.                                                       *)
MatchesRule(rule, raw) ==
    /\ rule.type \in EventTypes
    /\ raw.type = Discriminator[rule.type]
    /\ \/ rule.contract = Wildcard
       \/ rule.type = "print_event" /\ raw.id = rule.contract
       \/ rule.type \in AssetTypes /\ IsPrefix(rule.contract, raw.id)
       \/ rule.type \in StxTypes

(* What is pushed for an event that the rules at some positions match.     *)
Pushed(c, hits, index) ==
    [k \in 1 .. Cardinality(hits) |->
        [event    |-> index,
         table    |-> RuleAt(c, Nth(hits, k)).table,
         contract |-> RuleAt(c, Nth(hits, k)).contract]]

(* The first rule that matches ends the search.                            *)
MutantMatchEventFirst(c, raw, index) ==
    LET hits == {p \in RulePositions(c) : MatchesRule(RuleAt(c, p), raw)}
    IN  IF Parses(raw) /\ raw.committed /\ hits # {}
        THEN Pushed(c, {Nth(hits, 1)}, index)
        ELSE <<>>

(* Events of aborted transactions are matched too.                         *)
MutantMatchEventAborted(c, raw, index) ==
    IF Parses(raw)
    THEN Pushed(c, {p \in RulePositions(c) : MatchesRule(RuleAt(c, p), raw)}, index)
    ELSE <<>>

(* The body of the loop of match_events: a MatchedEvent for each rule the  *)
(* event matches, in the order of the rules.                               *)
MatchEvent(c, raw, index) ==
    IF Parses(raw) /\ raw.committed
    THEN Pushed(c, {p \in RulePositions(c) : MatchesRule(RuleAt(c, p), raw)}, index)
    ELSE <<>>

-----------------------------------------------------------------------------
NoConfig == [name |-> "", network |-> "", sources |-> <<>>]

Init ==
    /\ config = NoConfig
    /\ status = "loading"
    /\ seen = <<>>
    /\ matched = <<>>

(* load_config: an invalid configuration stops the program.                *)
LoadConfig(c) ==
    /\ status = "loading"
    /\ config' = c
    /\ status' = IF Valid(c) THEN "running" ELSE "rejected"
    /\ UNCHANGED <<seen, matched>>

(* One turn of the loop of match_events.                                   *)
NextEvent(raw) ==
    /\ status = "running"
    /\ Len(seen) < MaxEvents
    /\ seen' = Append(seen, raw)
    /\ matched' = matched \o MatchEvent(config, raw, Len(seen) + 1)
    /\ UNCHANGED <<config, status>>

Next ==
    \/ \E c \in Configs : LoadConfig(c)
    \/ \E raw \in RawEvents : NextEvent(raw)

Spec == Init /\ [][Next]_vars

-----------------------------------------------------------------------------
(* Properties.                                                             *)

(* A block's event goes into a table at most once, though several rules    *)
(* may be for it, and the events of a block come in its order: the rows of *)
(* a table get their _ids in the order of the events on the chain.         *)
OnceInBlockOrder ==
    \A k, l \in DOMAIN matched : k < l =>
        /\ matched[k].event <= matched[l].event
        /\ matched[k].table = matched[l].table => matched[k].event # matched[l].event

(* The rule is for the contract that contract_identifier says the event is *)
(* of, or the event is of no contract's.                                   *)
OwnContract(rule, raw) ==
    \/ rule.contract = Wildcard
    \/ rule.type \in StxTypes
    \/ rule.contract = ContractIdentifier(raw)

ShouldMatch(rule, raw) ==
    /\ Parses(raw) /\ raw.committed
    /\ raw.type = Discriminator[rule.type]
    /\ OwnContract(rule, raw)

TablesMatched(i) == {matched[k].table : k \in {l \in DOMAIN matched : matched[l].event = i}}

(* Every committed event of a configured contract and type is matched, for *)
(* each table that asks for it, whatever stands before it in the block.    *)
NothingMissed ==
    \A i \in DOMAIN seen, r \in Rules(config) :
        ShouldMatch(r, seen[i]) => r.table \in TablesMatched(i)

(* The events are filtered "down to only those that match configured       *)
(* contracts and event types": what the matcher selects by prefix is what  *)
(* contract_identifier selects by name.                                    *)
OnlyConfigured ==
    \A i \in DOMAIN seen, r \in Rules(config) :
        r.table \in TablesMatched(i) => ShouldMatch(r, seen[i])
=============================================================================
