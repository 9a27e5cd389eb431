------------------------------ MODULE MCDataFeed ------------------------------
(* Small instances of the data-feed program, at a scale of one decimal. *)
EXTENDS DataFeed

CONSTANTS
    alice, bob,     \* admins of two ac_roles
    roleA, roleB,
    feed1, feed2, pda1, pda2,
    pyth, switchboard

AllFields == {"ac_role", "underlying_feed", "mode", "min_price", "max_price", "max_staleness"}
SomeFields == {"ac_role", "underlying_feed", "mode"}

MCRoleNames == {ADMIN, UPDATE_ACCOUNT_AC, FEED_ADMIN}
MCFeedRoles ==
    {<<roleA, alice, ADMIN>>, <<roleA, alice, FEED_ADMIN>>, <<roleB, bob, FEED_ADMIN>>}
        \cap (AcRoles \X Accounts \X RoleNames)
MCGrantable == {<<roleA, alice, FEED_ADMIN>>}
MCManualPda == [f \in FeedStates |-> IF f = feed1 THEN pda1 ELSE pda2]
MCMaxStaleness == [m \in FeedMode |-> IF m = "MANUAL" THEN 2 ELSE 1]

\* One feed whose mode, account, bounds and limit change, over a manual feed
\* and both kinds of quotes.
FeedValues == [
    ac_role |-> {roleA}, underlying_feed |-> {pda1, pyth, switchboard, DEFAULT_PUBKEY},
    mode |-> FeedMode,
    min_price |-> {0, 3, 9}, max_price |-> {6, 12}, max_staleness |-> {1, 2},
    price |-> {0, 5}, decimals |-> {1}, value |-> {7}, exponent |-> {-1}]

\* Two feeds of different ac_roles that may read the same manual feed, or a
\* quote of either sign, with more decimals than the base: whole or not.
SharedValues == [
    ac_role |-> {roleA, roleB}, underlying_feed |-> {pda1, pyth},
    mode |-> {"MANUAL", "PYTH"},
    min_price |-> {1}, max_price |-> {U64_MAX}, max_staleness |-> {1},
    price |-> {4, 50}, decimals |-> {0}, value |-> {-900, -9, 600}, exponent |-> {-2}]
===============================================================================
