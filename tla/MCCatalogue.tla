----------------------------- MODULE MCCatalogue -----------------------------
(* A seed file of three products, and a sku that is not in it.             *)
EXTENDS Catalogue

CONSTANTS steam, discord, roblox, unknown

AllSKUs == {steam, discord, roblox, unknown}
File == <<steam, discord, roblox>>

=============================================================================
