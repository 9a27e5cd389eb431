------------------------------- MODULE DataFeed -------------------------------
(***************************************************************************)
(* The data-feed program: feeds with bounds and a staleness limit over an  *)
(* underlying account, which is a manual feed of the program itself or a   *)
(* quote of Pyth or Switchboard.  Whoever reads a feed gets its price in   *)
(* base 9, or the whole transaction fails (NoPrice).                       *)
(***************************************************************************)
EXTENDS AccessControl, Decimals

CONSTANTS
    FeedStates,            \* addresses of FeedState accounts
    manual_pda,            \* the ManualFeedState PDA of each base feed
    PythAccounts,          \* PriceUpdateV2 accounts (external)
    SwitchboardAccounts,   \* PullFeedAccountData accounts (external)
    DEFAULT_PUBKEY,
    None,                  \* an absent option
    NoPrice,               \* get_price_in_base_9 fails
    MAX_STALENESS,         \* the longest max_staleness of each mode
    SLOTS_PER_SECOND,      \* Switchboard counts slots (external)
    SWITCHBOARD_DECIMALS,  \* PRECISION, the decimals of its quotes (external)
    MaxClock,              \* bound: the last second of a behaviour
    FeedRoles,             \* the roles granted at deployment
    FeedArgs,              \* per argument, the values an instance uses
    Amended                \* the fields that its updates may give

FEED_ADMIN == "data_feed_admin"
FeedMode == {"MANUAL", "SWITCHBOARD", "PYTH"}

Quoted == PythAccounts \cup SwitchboardAccounts
Underlying == {manual_pda[f] : f \in FeedStates} \cup Quoted

VARIABLES
    feeds,          \* FeedState accounts: address -> configuration
    manual_feeds,   \* ManualFeedState PDAs: address -> price
    quotes,         \* what Pyth and Switchboard have published (external)
    clock           \* unix timestamp, in the u32 that get_current_ts casts to

feedVars == <<feeds, manual_feeds, quotes, clock>>
dfVars == <<acVars, feedVars>>

FeedState == [
    ac_role         : AcRoles,
    underlying_feed : Underlying,
    mode            : FeedMode,
    min_price       : U64,
    max_price       : U64,
    max_staleness   : Nat]

ManualFeedState == [price : U64, decimals : 0 .. MaxDecimals, last_updated_at : Nat]

\* A published price may be negative; its scale is the exponent's magnitude.
Quote == [value : Int, exponent : -MaxDecimals .. MaxDecimals, time : Nat]

ASSUME FeedAssumption ==
    /\ FEED_ADMIN \in RoleNames
    /\ FeedRoles \subseteq AcRoles \X Accounts \X RoleNames
    /\ \A f, g \in FeedStates : manual_pda[f] = manual_pda[g] => f = g
    /\ \A f \in FeedStates : manual_pda[f] \notin Quoted
    /\ PythAccounts \cap SwitchboardAccounts = {}
    /\ DEFAULT_PUBKEY \notin Underlying /\ None # DEFAULT_PUBKEY
    /\ None \notin Underlying /\ None \notin AcRoles /\ None \notin FeedMode /\ None \notin Int
    /\ NoPrice \notin U64
    /\ MAX_STALENESS \in [FeedMode -> Nat]
    /\ SLOTS_PER_SECOND \in Nat \ {0} /\ SWITCHBOARD_DECIMALS \in 0 .. MaxDecimals
    /\ MaxClock \in Nat

ASSUME FeedArgsAssumption ==
    /\ FeedArgs.ac_role \subseteq AcRoles
    /\ FeedArgs.underlying_feed \subseteq Underlying \cup {DEFAULT_PUBKEY}
    /\ FeedArgs.mode \subseteq FeedMode
    /\ FeedArgs.min_price \subseteq U64 /\ FeedArgs.max_price \subseteq U64
    /\ FeedArgs.max_staleness \subseteq Nat
    /\ FeedArgs.price \subseteq U64 /\ FeedArgs.decimals \subseteq 0 .. MaxDecimals
    /\ FeedArgs.value \subseteq Int /\ FeedArgs.exponent \subseteq -MaxDecimals .. MaxDecimals

\* The widths of what is published: a price is 64 bits wide and signed, and
\* its decimals leave more than 64 bits of a 128-bit number (28 are allowed at
\* the widths of the code).
ASSUME PublishedAssumption ==
    /\ \A value \in FeedArgs.value : -U64_MAX <= value
    /\ \A exponent \in FeedArgs.exponent :
         LET decimals == IF exponent < 0 THEN -exponent ELSE exponent
             lost == IF decimals > Base THEN Radix ^ (decimals - Base) ELSE 1
         IN  (U64_MAX + 1) * lost <= MAX_UINT128 + 1 - U64_MAX

-----------------------------------------------------------------------------
(* update_feed of utils.rs.                                               *)

Given(option, current) == IF option = None THEN current ELSE option

Updated(state, given) == [
    ac_role         |-> Given(given.ac_role, state.ac_role),
    underlying_feed |-> Given(given.underlying_feed, state.underlying_feed),
    mode            |-> Given(given.mode, state.mode),
    min_price       |-> Given(given.min_price, state.min_price),
    max_price       |-> Given(given.max_price, state.max_price),
    max_staleness   |-> Given(given.max_staleness, state.max_staleness)]

UnderlyingAccepted(given) == given.underlying_feed # DEFAULT_PUBKEY

\* Variant: a new maximum is compared with the stored maximum.
MaxAccepted_raised(state, given) ==
    given.max_price # None => given.max_price > 0 /\ given.max_price > state.max_price

\* A new maximum is compared with the minimum before the update ...
MaxAccepted(state, given) ==
    given.max_price # None => given.max_price > 0 /\ given.max_price > state.min_price

\* ... a new minimum with the maximum after it.
MinAccepted(new, given) ==
    given.min_price # None => given.min_price > 0 /\ new.max_price > given.min_price

\* Variant: the limit is looked at only when it is given.
StalenessAccepted_given(new, given) ==
    given.max_staleness # None =>
        given.max_staleness > 0 /\ MAX_STALENESS[new.mode] >= new.max_staleness

\* The limit of the mode after the update is always enforced.
StalenessAccepted(new, given) ==
    /\ given.max_staleness # None => given.max_staleness > 0
    /\ MAX_STALENESS[new.mode] >= new.max_staleness

UpdateAccepted(state, given) ==
    LET new == Updated(state, given)
    IN  /\ UnderlyingAccepted(given)
        /\ MaxAccepted(state, given)
        /\ MinAccepted(new, given)
        /\ StalenessAccepted(new, given)

\* A feed account as `init` leaves it.
Zeroed == [ac_role |-> DEFAULT_PUBKEY, underlying_feed |-> DEFAULT_PUBKEY, mode |-> "MANUAL",
           min_price |-> 0, max_price |-> 0, max_staleness |-> 0]

\* The options of a call; AllGiven where the instruction has no options.
AllGiven == [
    ac_role         : FeedArgs.ac_role,
    underlying_feed : FeedArgs.underlying_feed,
    mode            : FeedArgs.mode,
    min_price       : FeedArgs.min_price,
    max_price       : FeedArgs.max_price,
    max_staleness   : FeedArgs.max_staleness]
Option(field) == IF field \in Amended THEN FeedArgs[field] \cup {None} ELSE {None}
SomeGiven == [
    ac_role         : Option("ac_role"),
    underlying_feed : Option("underlying_feed"),
    mode            : Option("mode"),
    min_price       : Option("min_price"),
    max_price       : Option("max_price"),
    max_staleness   : Option("max_staleness")]

-----------------------------------------------------------------------------
(* get_price_in_base_9 of utils.rs.                                       *)

Magnitude(n) == IF n < 0 THEN -n ELSE n

\* Variant: a signed price is cast through u64.
AsU128_narrow(value) == value % (U64_MAX + 1)

\* The cast of a signed price to u128 wraps.
AsU128(value) == value % (MAX_UINT128 + 1)

\* The underlying account is of the feed's mode and recent enough; a manual
\* feed that was never dated counts as recent, and Switchboard answers only
\* positive values.
CanRead(feed) ==
    LET u == feed.underlying_feed
    IN  \/ /\ feed.mode = "MANUAL" /\ u \in DOMAIN manual_feeds
           /\ manual_feeds[u].last_updated_at > 0 =>
                clock - manual_feeds[u].last_updated_at <= feed.max_staleness
        \/ /\ feed.mode = "PYTH" /\ u \in PythAccounts
           /\ clock - quotes[u].time <= feed.max_staleness
        \/ /\ feed.mode = "SWITCHBOARD" /\ u \in SwitchboardAccounts
           /\ (clock - quotes[u].time) * SLOTS_PER_SECOND <= feed.max_staleness
           /\ quotes[u].value > 0

RawPrice(feed) ==
    IF feed.mode = "MANUAL" THEN manual_feeds[feed.underlying_feed].price
    ELSE AsU128(quotes[feed.underlying_feed].value)
RawDecimals(feed) ==
    CASE feed.mode = "MANUAL" -> manual_feeds[feed.underlying_feed].decimals
      [] feed.mode = "PYTH" -> Magnitude(quotes[feed.underlying_feed].exponent)
      [] OTHER -> SWITCHBOARD_DECIMALS

\* Neither the power of ten nor the product overflows u128.
Convertible(value, decimals) ==
    value # 0 =>
        IF decimals > Base THEN Radix ^ (decimals - Base) <= MAX_UINT128
                           ELSE convert_to_base_9(value, decimals) <= MAX_UINT128

PriceInBase9(feed) == convert_to_base_9(RawPrice(feed), RawDecimals(feed))

\* Variant: the minimum is not enforced.
WithinBounds_above(feed, price) == price <= feed.max_price

WithinBounds(feed, price) == feed.min_price <= price /\ price <= feed.max_price

Answers(f) ==
    /\ f \in DOMAIN feeds
    /\ CanRead(feeds[f])
    /\ Convertible(RawPrice(feeds[f]), RawDecimals(feeds[f]))
    /\ WithinBounds(feeds[f], PriceInBase9(feeds[f]))

get_price_in_base_9(f) == IF Answers(f) THEN PriceInBase9(feeds[f]) ELSE NoPrice

-----------------------------------------------------------------------------
\* Anyone creates a feed, on a fresh account, for any ac_role.
NewFeed(f, given) ==
    /\ f \in FeedStates \ DOMAIN feeds
    /\ UpdateAccepted(Zeroed, given)
    /\ feeds' = WithEntry(feeds, f, Updated(Zeroed, given))
    /\ UNCHANGED <<manual_feeds, quotes, clock, acVars>>

IsFeedAdmin(authority, f) ==
    /\ f \in DOMAIN feeds
    /\ feeds[f].ac_role \in ac_role_states
    /\ HasRole(feeds[f].ac_role, authority, FEED_ADMIN)

UpdateFeed(authority, f, given) ==
    /\ IsFeedAdmin(authority, f)
    /\ UpdateAccepted(feeds[f], given)
    /\ feeds' = [feeds EXCEPT ![f] = Updated(feeds[f], given)]
    /\ UNCHANGED <<manual_feeds, quotes, clock, acVars>>

\* update_manual_feed: the decimals alone refresh the time stamp, too.
ManualUpdated(state, price, decimals) == [
    price           |-> Given(price, state.price),
    decimals        |-> Given(decimals, state.decimals),
    last_updated_at |-> IF price = None /\ decimals = None THEN state.last_updated_at ELSE clock]

\* Variant: the time stamp is left at zero.
NewManualFeed_undated(authority, f, price, decimals) ==
    /\ IsFeedAdmin(authority, f)
    /\ manual_pda[f] \notin DOMAIN manual_feeds
    /\ manual_feeds' = WithEntry(manual_feeds, manual_pda[f],
         [price |-> price, decimals |-> decimals, last_updated_at |-> 0])
    /\ UNCHANGED <<feeds, quotes, clock, acVars>>

NewManualFeed(authority, f, price, decimals) ==
    /\ IsFeedAdmin(authority, f)
    /\ manual_pda[f] \notin DOMAIN manual_feeds
    /\ manual_feeds' = WithEntry(manual_feeds, manual_pda[f],
         ManualUpdated([price |-> 0, decimals |-> 0, last_updated_at |-> 0], price, decimals))
    /\ UNCHANGED <<feeds, quotes, clock, acVars>>

\* Variant: the ac_role of the call need not be the base feed's.
UpdateManualFeed_any_role(authority, f, price, decimals) ==
    /\ f \in DOMAIN feeds
    /\ \E r \in ac_role_states : HasRole(r, authority, FEED_ADMIN)
    /\ manual_pda[f] \in DOMAIN manual_feeds
    /\ manual_feeds' = [manual_feeds EXCEPT ![manual_pda[f]] =
                        ManualUpdated(@, price, decimals)]
    /\ UNCHANGED <<feeds, quotes, clock, acVars>>

\* Authority comes from the base feed, whichever feeds read this account.
UpdateManualFeed(authority, f, price, decimals) ==
    /\ IsFeedAdmin(authority, f)
    /\ manual_pda[f] \in DOMAIN manual_feeds
    /\ manual_feeds' = [manual_feeds EXCEPT ![manual_pda[f]] =
                        ManualUpdated(@, price, decimals)]
    /\ UNCHANGED <<feeds, quotes, clock, acVars>>

\* Pyth or Switchboard publishes (external): any value, at some time till now.
Publish(u, value, exponent, time) ==
    /\ time <= clock
    /\ quotes' = [quotes EXCEPT ![u] = [value |-> value, exponent |-> exponent, time |-> time]]
    /\ UNCHANGED <<feeds, manual_feeds, clock, acVars>>

ClockTicks ==
    /\ clock < MaxClock
    /\ clock' = clock + 1
    /\ UNCHANGED <<feeds, manual_feeds, quotes, acVars>>

-----------------------------------------------------------------------------
DFInit ==
    /\ ac_role_states = AcRoles
    /\ roles = FeedRoles
    /\ ac_states = << >>
    /\ account_ac = << >>
    /\ feeds = << >>
    /\ manual_feeds = << >>
    /\ quotes = [u \in Quoted |-> [value |-> 0, exponent |-> 0, time |-> 0]]
    /\ clock = 1

DFNext ==
    \/ \E f \in FeedStates, given \in AllGiven : NewFeed(f, given)
    \/ \E authority \in Signers, f \in FeedStates :
         \/ \E given \in SomeGiven : UpdateFeed(authority, f, given)
         \/ \E price \in FeedArgs.price, decimals \in FeedArgs.decimals :
              NewManualFeed(authority, f, price, decimals)
         \/ \E price \in FeedArgs.price \cup {None}, decimals \in FeedArgs.decimals \cup {None} :
              UpdateManualFeed(authority, f, price, decimals)
    \/ \E u \in Quoted, value \in FeedArgs.value, exponent \in FeedArgs.exponent,
          time \in 0 .. MaxClock : Publish(u, value, exponent, time)
    \/ ClockTicks
    \/ ACGovern /\ UNCHANGED feedVars

DFSpec == DFInit /\ [][DFNext]_dfVars

-----------------------------------------------------------------------------
\* Types of the accounts of the program.
DFTypeOK ==
    /\ ACTypeOK
    /\ DOMAIN feeds \subseteq FeedStates
    /\ \A f \in DOMAIN feeds : feeds[f] \in FeedState
    /\ DOMAIN manual_feeds \subseteq {manual_pda[f] : f \in FeedStates}
    /\ \A u \in DOMAIN manual_feeds : manual_feeds[u] \in ManualFeedState
    /\ quotes \in [Quoted -> Quote]
    /\ clock \in Nat \ {0}

\* Whatever updates a feed has seen, one option or several at a time, mode
\* switches included: its bounds are positive and in order, and its staleness
\* limit is one its present mode allows (update_feed).
FeedsSound ==
    \A f \in DOMAIN feeds :
        /\ 0 < feeds[f].min_price /\ feeds[f].min_price < feeds[f].max_price
        /\ 0 < feeds[f].max_staleness
        /\ feeds[f].max_staleness <= MAX_STALENESS[feeds[f].mode]

\* A feed answers a positive u64 or not at all: the vaults divide by it and
\* keep it in u64 fields (get_token_rate).
AnswersAreRates ==
    \A f \in FeedStates : get_price_in_base_9(f) \in (1 .. U64_MAX) \cup {NoPrice}

\* Whatever is answered was written or published no longer ago than the mode
\* permits at all: the exemption of undated manual feeds is never met, and no
\* switch of mode smuggles a longer limit in.
AnswersRecent ==
    \A f \in FeedStates : Answers(f) =>
        LET u == feeds[f].underlying_feed
            written == IF feeds[f].mode = "MANUAL" THEN manual_feeds[u].last_updated_at
                       ELSE quotes[u].time
        IN  clock - written <= MAX_STALENESS[feeds[f].mode]

\* A negative quote is never answered: the cast makes it huge, and the feed's
\* maximum, a u64, refuses it at every scale quotes are published in.
NegativeQuoteRefused ==
    \A f \in DOMAIN feeds :
        /\ feeds[f].underlying_feed \in Quoted
        /\ quotes[feeds[f].underlying_feed].value < 0
        => ~Answers(f)

\* An admin gets a feed to any proper bounds in at most two calls: at once, or
\* after lowering the minimum, although each new bound is compared with one
\* that may be about to change (update_feed).
BoundsAdjustable ==
    LET only == [ac_role |-> None, underlying_feed |-> None, mode |-> None,
                 min_price |-> None, max_price |-> None, max_staleness |-> None]
    IN  \A f \in DOMAIN feeds, low \in FeedArgs.min_price, high \in FeedArgs.max_price :
          0 < low /\ low < high =>
            LET both == [only EXCEPT !.min_price = low, !.max_price = high]
                lower == [only EXCEPT !.min_price = low]
            IN  \/ UpdateAccepted(feeds[f], both)
                \/ /\ UpdateAccepted(feeds[f], lower)
                   /\ UpdateAccepted(Updated(feeds[f], lower), both)

\* What a manual feed answers moves only while someone holds FEED_ADMIN under
\* the ac_role of the feed that is read or of the feed the underlying account
\* belongs to.
ManualAnswersUnderAuthority ==
    [][\A f \in DOMAIN feeds :
         /\ feeds[f].mode = "MANUAL"
         /\ get_price_in_base_9(f)' \notin {NoPrice, get_price_in_base_9(f)}
         => \E a \in Signers, base \in FeedStates :
              /\ base = f \/ manual_pda[base] = feeds[f].underlying_feed
              /\ IsFeedAdmin(a, base)]_dfVars
===============================================================================
