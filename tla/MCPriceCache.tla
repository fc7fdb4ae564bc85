---------------------------- MODULE MCPriceCache ----------------------------
(* Instances of PriceCache for TLC: the configurations are MCPriceCache.cfg *)
(* and MCPriceCacheAdjusted.cfg.                                            *)
EXTENDS PriceCache
=============================================================================
