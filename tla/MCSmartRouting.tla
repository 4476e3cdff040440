--------------------------- MODULE MCSmartRouting ---------------------------
(* Two vendors, one of them with two families, one of its models able to do  *)
(* more; a cheap one that is subscribed to; and a vendor without connections. *)
EXTENDS SmartRouting

Model(provider, family, able, tier, price, cachedPrice, subscription) ==
  [provider |-> provider, family |-> family, able |-> able, tier |-> tier, price |-> price,
   cachedPrice |-> cachedPrice, subscription |-> subscription, active |-> provider # "c"]

MCAbout == [
  a1 |-> Model("a", "opus", {"tools"}, 1, 5, 2, FALSE),
  a2 |-> Model("a", "opus", {}, 2, 2, 2, FALSE),
  b1 |-> Model("b", "", {}, 2, 1, 1, TRUE),
  c1 |-> Model("c", "", {"tools"}, 1, 1, 1, FALSE)]
MCCatalogOrder == <<"a1", "a2", "b1", "c1">>

Routed(strategy, needs, allowed) == [strategy |-> strategy, needs |-> needs, allowed |-> allowed, chain |-> <<>>]
Fixed(chain, allowed) == [strategy |-> "", needs |-> {}, allowed |-> allowed, chain |-> chain]
Vendor(provider) == [provider |-> provider, model |-> "*"]
Only(model) == [provider |-> "", model |-> model]

MCAsks == {
  Routed("balanced", {"tools"}, <<>>),
  Routed("cheap", {}, <<Vendor("a")>>),
  Routed("user-order", {"images"}, <<Only("b1"), Vendor("a")>>),
  Fixed(<<"b1", "a1">>, <<Everything>>)}

Interchangeable == Permutations(Requests) \cup Permutations(Conversations)
=============================================================================
