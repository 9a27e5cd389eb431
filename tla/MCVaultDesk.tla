------------------------------ MODULE MCVaultDesk ------------------------------
(***************************************************************************)
(* A payment token and two customers, while tokens are listed and either   *)
(* requests are paid or functions paused, or while alarms begin and end.   *)
(* The fee receiver is one wallet throughout, the other one is replaced.   *)
(***************************************************************************)
EXTENDS VaultDesk

CONSTANTS alice, bob, usdc, wallet1, wallet2

MCReceivers == {[tokens |-> wallet1, fee |-> wallet2], [tokens |-> wallet2, fee |-> wallet2]}
MCConfigured == {"mint_instant", "redeem_instant"}
MCListings == <<<<"minter", usdc>>, <<"redeemer", usdc>>, <<"redeemer", FIAT>>>>
MCStaffings == {{"listers", "cashiers"}, {"listers", "pausers"}, {"pausers", "watch"}}
Do(fn, c, coin) == [fn |-> fn, client |-> c, coin |-> coin]
MCBooks == [st \in MCStaffings |->
    CASE "cashiers" \in st ->
           {{Do("redeem_request", alice, usdc), Do("redeem_request", bob, usdc)},
            {Do("redeem_request_fiat", alice, FIAT), Do("redeem_request", bob, usdc)}}
      [] st = {"listers", "pausers"} ->
           {{Do("mint_instant", alice, usdc), Do("mint_request", alice, usdc)},
            {Do("redeem_instant", bob, usdc), Do("mint_request", bob, usdc)}}
      [] OTHER -> {{Do("mint_instant", alice, usdc)}}]
===============================================================================
