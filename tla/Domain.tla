------------------------------- MODULE Domain -------------------------------
(***************************************************************************)
(* The domain types of src/domain: signed orders as a client submits them, *)
(* the orders the engine tracks, markets, and the pure checks on them.     *)
(*                                                                         *)
(* Abstractions.  A SignedOrder keeps the fields a decision depends on;    *)
(* time_in_force has one value, and created_at_ms and salt are only hashed.*)
(* SHA-256 is collision free, so canonical_hash is the record of the       *)
(* fields it hashes, and an ed25519 signature is either the signature of   *)
(* exactly these fields under trader_pubkey ("valid") or not ("forged").   *)
(* An Order copies its signed order on acceptance and never assigns those  *)
(* fields again (order.rs:214-215), so it carries the signed order itself  *)
(* beside the fields the engine updates.                                   *)
(***************************************************************************)
EXTENDS Naturals, Sequences

CONSTANTS
  SignedOrders,   \* the signed orders clients may submit, each any number of times
  Markets,        \* the ids of the markets registered at start-up
  TraderIds,      \* the trader ids that appear in SignedOrders
  Pubkeys,        \* the public keys that appear in SignedOrders
  hex_encode(_),  \* hex::encode of a public key
  tick_size,      \* MarketConfig.tick_size, by market
  lot_size,       \* MarketConfig.lot_size, by market
  NoOrder         \* the absence of an order

Sides == {"buy", "sell"}

CURRENT_SCHEMA_VERSION == 1

SignedOrder ==
  [ schema_version : Nat, client_order_id : STRING, market_id : STRING,
    trader_id : TraderIds, trader_pubkey : Pubkeys, side : Sides,
    price_ticks : Nat, size_lots : Nat, nonce : Nat, expiry_ts_ms : Nat,
    signature : {"valid", "forged"} ]

ASSUME SignedOrdersAssumption == SignedOrders \subseteq SignedOrder

ASSUME MarketsAssumption ==
  /\ Markets \subseteq STRING
  /\ tick_size \in [Markets -> Nat \ {0}]
  /\ lot_size \in [Markets -> Nat \ {0}]

\* hex::encode is injective: two keys never share a trader id.
ASSUME HexAssumption ==
  \A k1, k2 \in Pubkeys : hex_encode(k1) = hex_encode(k2) => k1 = k2

-----------------------------------------------------------------------------
(* SignedOrder *)

canonical_hash(signed) ==
  [ schema_version |-> signed.schema_version, market_id |-> signed.market_id,
    trader_id |-> signed.trader_id, client_order_id |-> signed.client_order_id,
    side |-> signed.side, price_ticks |-> signed.price_ticks,
    size_lots |-> signed.size_lots, nonce |-> signed.nonce,
    expiry_ts_ms |-> signed.expiry_ts_ms, trader_pubkey |-> signed.trader_pubkey ]

Hashes == {canonical_hash(signed) : signed \in SignedOrders}

verify_signature(signed) == signed.signature = "valid"

validate_fields(signed, now_ms) ==
  /\ signed.schema_version = CURRENT_SCHEMA_VERSION
  /\ signed.market_id # ""
  /\ signed.trader_id # ""
  /\ signed.client_order_id # ""
  /\ signed.price_ticks # 0
  /\ signed.size_lots # 0
  /\ signed.expiry_ts_ms = 0 \/ signed.expiry_ts_ms > now_ms

-----------------------------------------------------------------------------
(* MarketConfig *)

MarketStatuses == {"active", "paused", "settled"}

\* Faulty: a paused market takes orders.
is_active_unless_settled(status) == status # "settled"

is_active(status) == status = "active"

validate_price(market_id, price_ticks) ==
  price_ticks # 0 /\ price_ticks % tick_size[market_id] = 0

validate_size(market_id, size_lots) ==
  size_lots # 0 /\ size_lots % lot_size[market_id] = 0

-----------------------------------------------------------------------------
(* Order *)

OrderIds == Nat \ {0}

OrderStatuses == {"open", "partially_filled", "filled", "cancelled", "cancelled_stp"}

Orders ==
  [ order_id : OrderIds, signed : SignedOrders, order_hash : Hashes,
    filled_size_lots : Nat, status : OrderStatuses,
    created_sequence : Nat, last_update_sequence : Nat ]

\* find_order's None is no order.
ASSUME NoOrderAssumption == NoOrder \notin Orders

remaining_size_lots(order) == order.signed.size_lots - order.filled_size_lots

is_closed(order) == order.status \in {"filled", "cancelled", "cancelled_stp"}

Fills ==
  [ market_id : Markets, taker_order_id : OrderIds, taker_order_hash : Hashes,
    taker_trader_id : TraderIds, maker_order_id : OrderIds,
    maker_order_hash : Hashes, maker_trader_id : TraderIds,
    price_ticks : Nat, size_lots : Nat, sequence_id : Nat ]
=============================================================================
