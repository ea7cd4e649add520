------------------------ MODULE MCCatalogCollection ------------------------
(* A listing and one document of the Kalshi catalog. *)
EXTENDS CatalogCollection

KalshiEndpoints == <<"structured_targets", "live_data">>
=============================================================================
