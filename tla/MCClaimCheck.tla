---------------------------- MODULE MCClaimCheck ----------------------------
(* A consumer that deletes beside one that keeps the payloads.                *)
EXTENDS ClaimCheck

CONSTANTS deleter, keeper

Both == {deleter, keeper}
TheDeleter == {deleter}
=============================================================================
