-------------------------- MODULE FeedsAndRates_proofs --------------------------
(***************************************************************************)
(* Theorems about prices, for every scale of decimals: the feeds that      *)
(* answer them, and the arithmetic of the vaults that uses them.           *)
(***************************************************************************)
EXTENDS DataFeed, Rounding, AccessControl_proofs, Decimals_proofs

Sound(state) ==
    /\ 0 < state.min_price /\ state.min_price < state.max_price
    /\ 0 < state.max_staleness
    /\ state.max_staleness <= MAX_STALENESS[state.mode]

Dated ==
    /\ \A u \in DOMAIN manual_feeds :
         0 < manual_feeds[u].last_updated_at /\ manual_feeds[u].last_updated_at <= clock
    /\ \A u \in Quoted : quotes[u].time <= clock

DFInv == ACInv /\ DFTypeOK /\ FeedsSound /\ Dated

-----------------------------------------------------------------------------
(* What update_feed leaves behind.                                        *)

\* Options keep the type of the field they may replace.
LEMMA GivenType ==
    ASSUME NEW S, NEW current \in S, NEW option \in S \cup {None}
    PROVE  Given(option, current) \in S
BY DEF Given

\* A new feed gets every field from its arguments.
LEMMA NewFeedSound ==
    ASSUME NEW given \in AllGiven, UpdateAccepted(Zeroed, given)
    PROVE  Updated(Zeroed, given) \in FeedState /\ Sound(Updated(Zeroed, given))
<1> DEFINE new == Updated(Zeroed, given)
<1>1. /\ given.ac_role \in AcRoles
      /\ given.underlying_feed \in Underlying \cup {DEFAULT_PUBKEY}
      /\ given.mode \in FeedMode
      /\ given.min_price \in U64 /\ given.max_price \in U64 /\ given.max_staleness \in Nat
  BY FeedArgsAssumption DEF AllGiven
<1>2. given.underlying_feed \in Underlying
  BY <1>1 DEF UpdateAccepted, UnderlyingAccepted
<1>3. /\ given.ac_role # None /\ given.underlying_feed # None /\ given.mode # None
      /\ given.min_price # None /\ given.max_price # None /\ given.max_staleness # None
  BY <1>1, <1>2, FeedAssumption, WidthAssumption DEF U64
<1>4. new = [ac_role |-> given.ac_role, underlying_feed |-> given.underlying_feed,
             mode |-> given.mode, min_price |-> given.min_price,
             max_price |-> given.max_price, max_staleness |-> given.max_staleness]
  BY <1>3 DEF Updated, Given
<1>5. new \in FeedState
  BY <1>1, <1>2, <1>4 DEF FeedState
<1>6. /\ 0 < given.min_price /\ given.min_price < given.max_price
      /\ 0 < given.max_staleness
      /\ given.max_staleness <= MAX_STALENESS[given.mode]
  <2>1. /\ MaxAccepted(Zeroed, given) /\ MinAccepted(new, given) /\ StalenessAccepted(new, given)
    BY DEF UpdateAccepted
  <2>2. /\ new.max_price = given.max_price /\ new.mode = given.mode
        /\ new.max_staleness = given.max_staleness
    BY <1>4
  <2>3. MAX_STALENESS[given.mode] \in Nat
    BY <1>1, FeedAssumption
  <2> HIDE DEF new
  <2> QED
    BY <1>1, <1>3, <2>1, <2>2, <2>3, WidthAssumption
       DEF MaxAccepted, MinAccepted, StalenessAccepted, U64
<1> QED
  BY <1>4, <1>5, <1>6 DEF Sound

\* An update of a sound feed, whichever options it gives, leaves a sound feed.
LEMMA UpdateSound ==
    ASSUME NEW state \in FeedState, Sound(state),
           NEW given \in SomeGiven, UpdateAccepted(state, given)
    PROVE  Updated(state, given) \in FeedState /\ Sound(Updated(state, given))
<1> DEFINE new == Updated(state, given)
<1>1. /\ state.ac_role \in AcRoles /\ state.underlying_feed \in Underlying
      /\ state.mode \in FeedMode
      /\ state.min_price \in U64 /\ state.max_price \in U64 /\ state.max_staleness \in Nat
  BY DEF FeedState
<1>2. /\ given.ac_role \in AcRoles \cup {None}
      /\ given.underlying_feed \in Underlying \cup {None}
      /\ given.mode \in FeedMode \cup {None}
      /\ given.min_price \in U64 \cup {None} /\ given.max_price \in U64 \cup {None}
      /\ given.max_staleness \in Nat \cup {None}
  <2>1. given.underlying_feed \in Underlying \cup {DEFAULT_PUBKEY, None}
    BY FeedArgsAssumption DEF SomeGiven, Option
  <2>2. given.underlying_feed # DEFAULT_PUBKEY
    BY DEF UpdateAccepted, UnderlyingAccepted
  <2> QED
    BY <2>1, <2>2, FeedArgsAssumption DEF SomeGiven, Option
<1>3. /\ new.ac_role \in AcRoles /\ new.underlying_feed \in Underlying
      /\ new.mode \in FeedMode
      /\ new.min_price \in U64 /\ new.max_price \in U64 /\ new.max_staleness \in Nat
  BY <1>1, <1>2, GivenType DEF Updated
<1>4. new \in FeedState
  BY <1>3 DEF FeedState, Updated
<1>5. /\ MaxAccepted(state, given) /\ MinAccepted(new, given) /\ StalenessAccepted(new, given)
  BY DEF UpdateAccepted
<1>6. /\ new.min_price = Given(given.min_price, state.min_price)
      /\ new.max_price = Given(given.max_price, state.max_price)
      /\ new.max_staleness = Given(given.max_staleness, state.max_staleness)
  BY DEF Updated
<1>7. MAX_STALENESS[new.mode] \in Nat
  BY <1>3, FeedAssumption
<1> HIDE DEF new
<1>8. 0 < new.min_price /\ new.min_price < new.max_price
  BY <1>1, <1>2, <1>3, <1>5, <1>6, WidthAssumption
     DEF MaxAccepted, MinAccepted, Given, Sound, U64
<1>9. 0 < new.max_staleness /\ new.max_staleness <= MAX_STALENESS[new.mode]
  BY <1>1, <1>2, <1>3, <1>5, <1>6, <1>7 DEF StalenessAccepted, Given, Sound
<1> QED
  BY <1>4, <1>8, <1>9 DEF Sound, new

-----------------------------------------------------------------------------
(* The invariant.                                                         *)

LEMMA InitDFInv == DFInit => DFInv
<1> SUFFICES ASSUME DFInit PROVE DFInv
  OBVIOUS
<1>1. ACInv
  BY FeedAssumption DEF DFInit, ACInv, ACTypeOK, ListsExclusive
<1>2. quotes \in [Quoted -> Quote]
  <2>1. 0 \in Int /\ 0 \in -MaxDecimals .. MaxDecimals /\ 0 \in Nat
    BY BaseAssumption
  <2> QED
    BY <2>1 DEF DFInit, Quote
<1>3. DOMAIN feeds = {} /\ DOMAIN manual_feeds = {}
  BY DEF DFInit
<1>4. Dated
  BY <1>3 DEF DFInit, Dated
<1> QED
  BY <1>1, <1>2, <1>3, <1>4 DEF DFInit, DFInv, DFTypeOK, FeedsSound, ACInv

\* What is left to show of an instruction that leaves roles and lists alone.
LEMMA FeedStep ==
    ASSUME DFInv, UNCHANGED acVars,
           DOMAIN feeds' \subseteq FeedStates,
           \A f \in DOMAIN feeds' : feeds'[f] \in FeedState /\ Sound(feeds'[f]),
           DOMAIN manual_feeds' \subseteq {manual_pda[f] : f \in FeedStates},
           \A u \in DOMAIN manual_feeds' : manual_feeds'[u] \in ManualFeedState,
           quotes' \in [Quoted -> Quote],
           clock' \in Nat \ {0},
           Dated'
    PROVE  DFInv'
<1>1. ACInv'
  BY ACStepInv DEF DFInv
<1>2. DFTypeOK'
  BY <1>1 DEF DFTypeOK, ACInv
<1>3. FeedsSound'
  BY DEF FeedsSound, Sound
<1> QED
  BY <1>1, <1>2, <1>3 DEF DFInv

\* A manual feed as an instruction of now leaves it.
LEMMA ManualUpdatedFacts ==
    ASSUME clock \in Nat \ {0},
           NEW state \in ManualFeedState,
           NEW price \in FeedArgs.price \cup {None},
           NEW decimals \in FeedArgs.decimals \cup {None}
    PROVE  /\ ManualUpdated(state, price, decimals) \in ManualFeedState
           /\ ManualUpdated(state, price, decimals).last_updated_at \in
                {state.last_updated_at, clock}
           /\ price # None => ManualUpdated(state, price, decimals).last_updated_at = clock
<1>1. Given(price, state.price) \in U64
  BY FeedArgsAssumption DEF Given, ManualFeedState
<1>2. Given(decimals, state.decimals) \in 0 .. MaxDecimals
  BY FeedArgsAssumption DEF Given, ManualFeedState
<1> QED
  BY <1>1, <1>2 DEF ManualUpdated, ManualFeedState

LEMMA StepDFInv == DFInv /\ [DFNext]_dfVars => DFInv'
<1> SUFFICES ASSUME DFInv, [DFNext]_dfVars PROVE DFInv'
  OBVIOUS
<1>0. /\ DOMAIN feeds \subseteq FeedStates
      /\ \A f \in DOMAIN feeds : feeds[f] \in FeedState /\ Sound(feeds[f])
      /\ DOMAIN manual_feeds \subseteq {manual_pda[f] : f \in FeedStates}
      /\ \A u \in DOMAIN manual_feeds : manual_feeds[u] \in ManualFeedState
      /\ quotes \in [Quoted -> Quote]
      /\ clock \in Nat \ {0}
      /\ Dated
  BY DEF DFInv, DFTypeOK, FeedsSound, Sound
<1>1. ASSUME NEW f \in FeedStates, NEW given \in AllGiven, NewFeed(f, given)
      PROVE  DFInv'
  <2>1. /\ DOMAIN feeds' = DOMAIN feeds \cup {f}
        /\ feeds'[f] = Updated(Zeroed, given)
        /\ \A x \in DOMAIN feeds : x # f => feeds'[x] = feeds[x]
    BY <1>1 DEF NewFeed, WithEntry
  <2>2. Updated(Zeroed, given) \in FeedState /\ Sound(Updated(Zeroed, given))
    BY <1>1, NewFeedSound DEF NewFeed
  <2>3. \A x \in DOMAIN feeds' : feeds'[x] \in FeedState /\ Sound(feeds'[x])
    BY <1>0, <2>1, <2>2
  <2>4. DOMAIN feeds' \subseteq FeedStates
    BY <1>0, <2>1
  <2>5. UNCHANGED <<manual_feeds, quotes, clock>> /\ UNCHANGED acVars
    BY <1>1 DEF NewFeed
  <2>6. Dated'
    BY <1>0, <2>5 DEF Dated
  <2> QED
    BY <1>0, <2>3, <2>4, <2>5, <2>6, FeedStep
<1>2. ASSUME NEW authority \in Signers, NEW f \in FeedStates, NEW given \in SomeGiven,
             UpdateFeed(authority, f, given)
      PROVE  DFInv'
  <2>1. /\ f \in DOMAIN feeds /\ UpdateAccepted(feeds[f], given)
        /\ feeds' = [feeds EXCEPT ![f] = Updated(feeds[f], given)]
        /\ UNCHANGED <<manual_feeds, quotes, clock>> /\ UNCHANGED acVars
    BY <1>2 DEF UpdateFeed, IsFeedAdmin
  <2>2. Updated(feeds[f], given) \in FeedState /\ Sound(Updated(feeds[f], given))
    BY <1>0, <2>1, UpdateSound
  <2>3. DOMAIN feeds' = DOMAIN feeds
        /\ \A x \in DOMAIN feeds' : feeds'[x] \in FeedState /\ Sound(feeds'[x])
    BY <1>0, <2>1, <2>2
  <2>4. Dated'
    BY <1>0, <2>1 DEF Dated
  <2> QED
    BY <1>0, <2>1, <2>3, <2>4, FeedStep
<1>3. ASSUME NEW authority \in Signers, NEW f \in FeedStates, NEW price \in FeedArgs.price,
             NEW decimals \in FeedArgs.decimals, NewManualFeed(authority, f, price, decimals)
      PROVE  DFInv'
  <2> DEFINE zeroed == [price |-> 0, decimals |-> 0, last_updated_at |-> 0]
             new == ManualUpdated(zeroed, price, decimals)
  <2>1. /\ DOMAIN manual_feeds' = DOMAIN manual_feeds \cup {manual_pda[f]}
        /\ manual_feeds'[manual_pda[f]] = new
        /\ \A u \in DOMAIN manual_feeds : u # manual_pda[f] => manual_feeds'[u] = manual_feeds[u]
    BY <1>3 DEF NewManualFeed, WithEntry
  <2>2. UNCHANGED <<feeds, quotes, clock>> /\ UNCHANGED acVars
    BY <1>3 DEF NewManualFeed
  <2>3. zeroed \in ManualFeedState
    BY BaseAssumption, WidthAssumption DEF ManualFeedState, U64
  <2>4. price # None
    BY FeedArgsAssumption, FeedAssumption, WidthAssumption DEF U64
  <2>5. new \in ManualFeedState /\ new.last_updated_at = clock
    BY <1>0, <2>3, <2>4, ManualUpdatedFacts
  <2> HIDE DEF new
  <2>6. \A u \in DOMAIN manual_feeds' : manual_feeds'[u] \in ManualFeedState
    BY <1>0, <2>1, <2>5
  <2>7. Dated'
    BY <1>0, <2>1, <2>2, <2>5 DEF Dated
  <2>8. DOMAIN manual_feeds' \subseteq {manual_pda[g] : g \in FeedStates}
    BY <1>0, <2>1
  <2> QED
    BY <1>0, <2>2, <2>6, <2>7, <2>8, FeedStep
<1>4. ASSUME NEW authority \in Signers, NEW f \in FeedStates,
             NEW price \in FeedArgs.price \cup {None},
             NEW decimals \in FeedArgs.decimals \cup {None},
             UpdateManualFeed(authority, f, price, decimals)
      PROVE  DFInv'
  <2> DEFINE u0 == manual_pda[f]
             new == ManualUpdated(manual_feeds[u0], price, decimals)
  <2>1. /\ u0 \in DOMAIN manual_feeds
        /\ manual_feeds' = [manual_feeds EXCEPT ![u0] = new]
        /\ UNCHANGED <<feeds, quotes, clock>> /\ UNCHANGED acVars
    BY <1>4 DEF UpdateManualFeed
  <2>2. /\ new \in ManualFeedState
        /\ new.last_updated_at \in {manual_feeds[u0].last_updated_at, clock}
    BY <1>0, <2>1, ManualUpdatedFacts
  <2> HIDE DEF new
  <2>3. \A u \in DOMAIN manual_feeds' : manual_feeds'[u] \in ManualFeedState
    BY <1>0, <2>1, <2>2
  <2>4. Dated'
    BY <1>0, <2>1, <2>2 DEF Dated
  <2> QED
    BY <1>0, <2>1, <2>3, <2>4, FeedStep
<1>5. ASSUME NEW u \in Quoted, NEW value \in FeedArgs.value, NEW exponent \in FeedArgs.exponent,
             NEW time \in 0 .. MaxClock, Publish(u, value, exponent, time)
      PROVE  DFInv'
  <2>1. [value |-> value, exponent |-> exponent, time |-> time] \in Quote
    BY FeedArgsAssumption, FeedAssumption DEF Quote
  <2>2. quotes' \in [Quoted -> Quote] /\ UNCHANGED <<feeds, manual_feeds, clock>>
        /\ UNCHANGED acVars
    BY <1>0, <1>5, <2>1 DEF Publish
  <2>3. Dated'
    BY <1>0, <1>5, <2>2 DEF Dated, Publish
  <2> QED
    BY <1>0, <2>2, <2>3, FeedStep
<1>6. CASE ClockTicks
  <2>1. clock' = clock + 1 /\ UNCHANGED <<feeds, manual_feeds, quotes>> /\ UNCHANGED acVars
    BY <1>6 DEF ClockTicks
  <2>2. Dated'
    <3>1. \A u \in DOMAIN manual_feeds : manual_feeds[u].last_updated_at \in Nat
      BY <1>0 DEF ManualFeedState
    <3>2. \A u \in Quoted : quotes[u].time \in Nat
      BY <1>0 DEF Quote
    <3> QED
      BY <1>0, <2>1, <3>1, <3>2 DEF Dated
  <2> QED
    BY <1>0, <2>1, <2>2, FeedStep
<1>7. CASE ACGovern /\ UNCHANGED feedVars
  <2>1. ACInv'
    BY <1>7, ACStepInv DEF DFInv, ACNext
  <2> QED
    BY <1>7, <2>1, <1>0 DEF DFInv, DFTypeOK, FeedsSound, Dated, feedVars, ACInv
<1>8. CASE UNCHANGED dfVars
  <2>1. UNCHANGED acVars /\ UNCHANGED feedVars
    BY <1>8 DEF dfVars
  <2>2. Dated'
    BY <1>0, <2>1 DEF Dated, feedVars
  <2> QED
    BY <1>0, <2>1, <2>2, FeedStep DEF feedVars
<1> QED
  BY <1>1, <1>2, <1>3, <1>4, <1>5, <1>6, <1>7, <1>8, Zenon DEF DFNext

-----------------------------------------------------------------------------
(* The theorems.                                                          *)

LEMMA Invariance == DFSpec => []DFInv
BY InitDFInv, StepDFInv, PTL DEF DFSpec

\* Whatever updates a feed has seen, its configuration is well typed, its
\* bounds are positive and in order, and its limit suits its mode
\* (update_feed).
THEOREM SoundFeeds == DFSpec => [](DFTypeOK /\ FeedsSound)
<1>1. DFInv => DFTypeOK /\ FeedsSound
  BY DEF DFInv
<1> QED
  BY <1>1, Invariance, PTL

\* A feed in a mode always has an underlying account of that mode's kind, and
\* every field its width (update_feed).
THEOREM FeedTypes == DFSpec => []DFTypeOK
BY SoundFeeds, PTL

\* What get_price_in_base_9 reads, whatever the mode, is a natural number with
\* decimals that can be converted: a cast is never negative.
LEMMA RawFacts ==
    ASSUME DFInv, NEW f \in DOMAIN feeds, CanRead(feeds[f])
    PROVE  /\ RawPrice(feeds[f]) \in Nat
           /\ RawDecimals(feeds[f]) \in 0 .. MaxDecimals
<1>0. /\ feeds[f].mode \in FeedMode
      /\ \A u \in DOMAIN manual_feeds : manual_feeds[u] \in ManualFeedState
      /\ \A u \in Quoted : quotes[u] \in Quote
  BY DEF DFInv, DFTypeOK, FeedState
<1>1. CASE feeds[f].mode = "MANUAL"
  <2>1. feeds[f].underlying_feed \in DOMAIN manual_feeds
    BY <1>1 DEF CanRead
  <2> QED
    BY <1>0, <1>1, <2>1, WidthAssumption
       DEF RawPrice, RawDecimals, ManualFeedState, U64
<1>2. CASE feeds[f].mode # "MANUAL"
  <2>1. feeds[f].underlying_feed \in Quoted
    BY <1>2 DEF CanRead, Quoted
  <2>2. /\ quotes[feeds[f].underlying_feed].value \in Int
        /\ quotes[feeds[f].underlying_feed].exponent \in -MaxDecimals .. MaxDecimals
    BY <1>0, <2>1 DEF Quote
  <2>3. AsU128(quotes[feeds[f].underlying_feed].value) \in Nat
    BY <2>2, WidthAssumption DEF AsU128
  <2>4. Magnitude(quotes[feeds[f].underlying_feed].exponent) \in 0 .. MaxDecimals
    BY <2>2, BaseAssumption DEF Magnitude
  <2> QED
    BY <1>2, <2>3, <2>4, FeedAssumption DEF RawPrice, RawDecimals
<1> QED
  BY <1>1, <1>2

\* A feed answers a positive u64 or not at all, so that the vaults can divide
\* by a rate and keep it (get_price_in_base_9).
THEOREM UsableRates == DFSpec => []AnswersAreRates
<1>1. DFInv => AnswersAreRates
  <2> SUFFICES ASSUME DFInv, NEW f \in FeedStates, Answers(f)
               PROVE  PriceInBase9(feeds[f]) \in 1 .. U64_MAX
    BY DEF AnswersAreRates, get_price_in_base_9
  <2>1. f \in DOMAIN feeds /\ CanRead(feeds[f])
    BY DEF Answers
  <2>2. Base \in 0 .. MaxDecimals
    BY BaseAssumption
  <2>3. PriceInBase9(feeds[f]) \in Nat
    BY <2>1, <2>2, RawFacts, ConvertNat DEF PriceInBase9, convert_to_base_9
  <2>4. /\ feeds[f].min_price \in Nat /\ 0 < feeds[f].min_price
        /\ feeds[f].max_price \in Nat /\ feeds[f].max_price <= U64_MAX
    BY <2>1, WidthAssumption DEF DFInv, DFTypeOK, FeedsSound, FeedState, U64
  <2>5. /\ feeds[f].min_price <= PriceInBase9(feeds[f])
        /\ PriceInBase9(feeds[f]) <= feeds[f].max_price
    BY DEF Answers, WithinBounds
  <2> QED
    BY <2>3, <2>4, <2>5, WidthAssumption
<1> QED
  BY <1>1, Invariance, PTL

\* Counting in slots does not lengthen a limit.
LEMMA SlotsFacts ==
    ASSUME NEW age \in Nat, NEW slots \in Nat \ {0}, NEW limit \in Nat, age * slots <= limit
    PROVE  age <= limit
<1>1. age * 1 <= age * slots
  OBVIOUS
<1> QED
  BY <1>1, ProductNat

\* Whatever is answered was written or published within the limit of the mode,
\* and no manual feed is exempt for want of a date (get_price_in_base_9).
THEOREM RecentAnswers == DFSpec => []AnswersRecent
<1>1. DFInv => AnswersRecent
  <2> SUFFICES ASSUME DFInv, NEW f \in FeedStates, Answers(f)
               PROVE  clock - (IF feeds[f].mode = "MANUAL"
                               THEN manual_feeds[feeds[f].underlying_feed].last_updated_at
                               ELSE quotes[feeds[f].underlying_feed].time)
                        <= MAX_STALENESS[feeds[f].mode]
    BY DEF AnswersRecent
  <2>1. f \in DOMAIN feeds /\ CanRead(feeds[f])
    BY DEF Answers
  <2>2. /\ feeds[f].max_staleness \in Nat /\ feeds[f].mode \in FeedMode
        /\ feeds[f].max_staleness <= MAX_STALENESS[feeds[f].mode]
        /\ clock \in Nat
    BY <2>1 DEF DFInv, DFTypeOK, FeedsSound, FeedState
  <2>3. MAX_STALENESS[feeds[f].mode] \in Nat
    BY <2>2, FeedAssumption
  <2>4. CASE feeds[f].mode = "MANUAL"
    <3>1. feeds[f].underlying_feed \in DOMAIN manual_feeds
          /\ (manual_feeds[feeds[f].underlying_feed].last_updated_at > 0 =>
                clock - manual_feeds[feeds[f].underlying_feed].last_updated_at
                  <= feeds[f].max_staleness)
      BY <2>1, <2>4 DEF CanRead
    <3>2. /\ manual_feeds[feeds[f].underlying_feed].last_updated_at \in Nat
          /\ manual_feeds[feeds[f].underlying_feed].last_updated_at > 0
      BY <3>1 DEF DFInv, DFTypeOK, Dated, ManualFeedState
    <3> QED
      BY <2>2, <2>3, <2>4, <3>1, <3>2
  <2>5. CASE feeds[f].mode = "PYTH"
    <3>1. feeds[f].underlying_feed \in Quoted
          /\ clock - quotes[feeds[f].underlying_feed].time <= feeds[f].max_staleness
      BY <2>1, <2>5 DEF CanRead, Quoted
    <3>2. quotes[feeds[f].underlying_feed].time \in Nat
      BY <3>1 DEF DFInv, DFTypeOK, Quote
    <3> QED
      BY <2>2, <2>3, <2>5, <3>1, <3>2
  <2>6. CASE feeds[f].mode = "SWITCHBOARD"
    <3>1. feeds[f].underlying_feed \in Quoted
          /\ (clock - quotes[feeds[f].underlying_feed].time) * SLOTS_PER_SECOND
               <= feeds[f].max_staleness
      BY <2>1, <2>6 DEF CanRead, Quoted
    <3>2. quotes[feeds[f].underlying_feed].time \in Nat
          /\ quotes[feeds[f].underlying_feed].time <= clock
      BY <3>1 DEF DFInv, DFTypeOK, Quote, Dated
    <3>3. clock - quotes[feeds[f].underlying_feed].time \in Nat
      BY <2>2, <3>2
    <3>4. clock - quotes[feeds[f].underlying_feed].time <= feeds[f].max_staleness
      BY <2>2, <3>1, <3>3, SlotsFacts, FeedAssumption
    <3> QED
      BY <2>2, <2>3, <2>6, <3>3, <3>4
  <2> QED
    BY <2>2, <2>4, <2>5, <2>6 DEF FeedMode
<1> QED
  BY <1>1, Invariance, PTL

\* From any reachable feed an admin gets to any proper bounds in at most two
\* updates (update_feed compares each new bound with one that may change).
THEOREM AdjustableBounds == DFSpec => []BoundsAdjustable
<1>1. DFInv => BoundsAdjustable
  <2> DEFINE only == [ac_role |-> None, underlying_feed |-> None, mode |-> None,
                      min_price |-> None, max_price |-> None, max_staleness |-> None]
  <2> SUFFICES ASSUME DFInv, NEW f \in DOMAIN feeds, NEW low \in FeedArgs.min_price,
                      NEW high \in FeedArgs.max_price, 0 < low, low < high
               PROVE  LET both == [only EXCEPT !.min_price = low, !.max_price = high]
                          lower == [only EXCEPT !.min_price = low]
                      IN  \/ UpdateAccepted(feeds[f], both)
                          \/ /\ UpdateAccepted(feeds[f], lower)
                             /\ UpdateAccepted(Updated(feeds[f], lower), both)
    BY DEF BoundsAdjustable
  <2> DEFINE both == [only EXCEPT !.min_price = low, !.max_price = high]
             lower == [only EXCEPT !.min_price = low]
  <2>1. /\ feeds[f] \in FeedState
        /\ 0 < feeds[f].min_price /\ feeds[f].min_price < feeds[f].max_price
        /\ 0 < feeds[f].max_staleness
        /\ feeds[f].max_staleness <= MAX_STALENESS[feeds[f].mode]
    BY DEF DFInv, DFTypeOK, FeedsSound
  <2>2. /\ low \in Nat /\ high \in Nat /\ low # None /\ high # None /\ None # DEFAULT_PUBKEY
        /\ feeds[f].min_price \in Nat /\ feeds[f].max_price \in Nat
    BY <2>1, FeedArgsAssumption, FeedAssumption, WidthAssumption DEF U64, FeedState
  <2> DEFINE WithBounds(state) ==
               /\ Updated(state, both).max_price = high
               /\ Updated(state, both).mode = state.mode
               /\ Updated(state, both).max_staleness = state.max_staleness
  <2>3. \A state : WithBounds(state)
    BY <2>2 DEF Updated, Given
  <2>4. \A state : /\ state.min_price \in Nat /\ high > state.min_price
                   /\ state.max_staleness <= MAX_STALENESS[state.mode]
                   => UpdateAccepted(state, both)
    BY <2>2, <2>3 DEF UpdateAccepted, UnderlyingAccepted, MaxAccepted, MinAccepted,
                      StalenessAccepted
  <2>5. CASE high > feeds[f].min_price
    BY <2>1, <2>2, <2>4, <2>5
  <2>6. CASE ~(high > feeds[f].min_price)
    <3>1. /\ Updated(feeds[f], lower).max_price = feeds[f].max_price
          /\ Updated(feeds[f], lower).min_price = low
          /\ Updated(feeds[f], lower).mode = feeds[f].mode
          /\ Updated(feeds[f], lower).max_staleness = feeds[f].max_staleness
      BY <2>2 DEF Updated, Given
    <3>2. low < feeds[f].max_price
      BY <2>1, <2>2, <2>6
    <3>3. UpdateAccepted(feeds[f], lower)
      BY <2>1, <2>2, <3>1, <3>2 DEF UpdateAccepted, UnderlyingAccepted, MaxAccepted,
                                    MinAccepted, StalenessAccepted
    <3>4. UpdateAccepted(Updated(feeds[f], lower), both)
      BY <2>1, <2>2, <2>4, <3>1
    <3> QED
      BY <3>3, <3>4
  <2> QED
    BY <2>5, <2>6
<1> QED
  BY <1>1, Invariance, PTL

\* What a manual feed answers does not change, unless to nothing, while its
\* configuration and the account it reads stay as they are.
LEMMA SamePrice ==
    ASSUME DFInv,
           NEW f \in DOMAIN feeds, f \in DOMAIN feeds', feeds'[f] = feeds[f],
           feeds[f].mode = "MANUAL",
           feeds[f].underlying_feed \in DOMAIN manual_feeds' =>
             /\ feeds[f].underlying_feed \in DOMAIN manual_feeds
             /\ manual_feeds'[feeds[f].underlying_feed] = manual_feeds[feeds[f].underlying_feed],
           clock' \in {clock, clock + 1}
    PROVE  get_price_in_base_9(f)' \in {NoPrice, get_price_in_base_9(f)}
<1> DEFINE u == feeds[f].underlying_feed
<1> SUFFICES ASSUME Answers(f)'
             PROVE  get_price_in_base_9(f)' = get_price_in_base_9(f)
  BY Zenon DEF get_price_in_base_9
<1>1. CanRead(feeds[f])'
  BY DEF Answers
<1>2. /\ u \in DOMAIN manual_feeds' /\ u \in DOMAIN manual_feeds
      /\ manual_feeds'[u] = manual_feeds[u]
      /\ manual_feeds'[u].last_updated_at > 0 =>
           clock' - manual_feeds'[u].last_updated_at <= feeds[f].max_staleness
  BY <1>1 DEF CanRead
<1>3. /\ manual_feeds[u].last_updated_at \in Nat /\ clock \in Nat
      /\ feeds[f].max_staleness \in Nat
  BY <1>2 DEF DFInv, DFTypeOK, ManualFeedState, FeedState
<1>4. manual_feeds[u].last_updated_at > 0 =>
        clock - manual_feeds[u].last_updated_at <= feeds[f].max_staleness
  BY <1>2, <1>3
<1>5. CanRead(feeds[f])
  BY <1>2, <1>4 DEF CanRead
<1>6. /\ RawPrice(feeds[f])' = RawPrice(feeds[f])
      /\ RawDecimals(feeds[f])' = RawDecimals(feeds[f])
  BY <1>2 DEF RawPrice, RawDecimals
<1>7. PriceInBase9(feeds[f])' = PriceInBase9(feeds[f])
  BY <1>6 DEF PriceInBase9
<1>8. Answers(f)
  BY <1>5, <1>6, <1>7 DEF Answers
<1> QED
  BY <1>7, <1>8 DEF get_price_in_base_9

\* What a manual feed answers moves only while the feed that is read, or the
\* feed the account it reads belongs to, has a holder of FEED_ADMIN
\* (update_feed, new_manual_feed, update_manual_feed).
THEOREM ManualAuthority == DFSpec => ManualAnswersUnderAuthority
<1> DEFINE Moves(f) ==
             /\ feeds[f].mode = "MANUAL"
             /\ get_price_in_base_9(f)' \notin {NoPrice, get_price_in_base_9(f)}
           InCharge(f) ==
             \E a \in Signers, base \in FeedStates :
               /\ base = f \/ manual_pda[base] = feeds[f].underlying_feed
               /\ IsFeedAdmin(a, base)
<1>1. DFInv /\ [DFNext]_dfVars => [\A f \in DOMAIN feeds : Moves(f) => InCharge(f)]_dfVars
  <2> SUFFICES ASSUME DFInv, DFNext, NEW f \in DOMAIN feeds, Moves(f)
               PROVE  InCharge(f)
    OBVIOUS
  <2>1. ASSUME NEW g \in FeedStates, NEW given \in AllGiven, NewFeed(g, given)
        PROVE  FALSE
    <3>1. /\ f \in DOMAIN feeds' /\ feeds'[f] = feeds[f]
          /\ manual_feeds' = manual_feeds /\ clock' = clock
      BY <2>1 DEF NewFeed, WithEntry
    <3> QED
      BY <3>1, SamePrice
  <2>2. ASSUME NEW a \in Signers, NEW g \in FeedStates, NEW given \in SomeGiven,
               UpdateFeed(a, g, given)
        PROVE  InCharge(f)
    <3>1. CASE g = f
      BY <2>2, <3>1 DEF UpdateFeed
    <3>2. CASE g # f
      <4>1. /\ f \in DOMAIN feeds' /\ feeds'[f] = feeds[f]
            /\ manual_feeds' = manual_feeds /\ clock' = clock
        BY <2>2, <3>2 DEF UpdateFeed
      <4> QED
        BY <4>1, SamePrice
    <3> QED
      BY <3>1, <3>2
  <2>3. ASSUME NEW a \in Signers, NEW g \in FeedStates, NEW price \in FeedArgs.price,
               NEW decimals \in FeedArgs.decimals, NewManualFeed(a, g, price, decimals)
        PROVE  InCharge(f)
    <3>1. CASE manual_pda[g] = feeds[f].underlying_feed
      BY <2>3, <3>1 DEF NewManualFeed
    <3>2. CASE manual_pda[g] # feeds[f].underlying_feed
      <4>1. /\ feeds' = feeds /\ clock' = clock
            /\ DOMAIN manual_feeds' = DOMAIN manual_feeds \cup {manual_pda[g]}
            /\ \A u \in DOMAIN manual_feeds : u # manual_pda[g] => manual_feeds'[u] = manual_feeds[u]
        BY <2>3 DEF NewManualFeed, WithEntry
      <4> QED
        BY <3>2, <4>1, SamePrice
    <3> QED
      BY <3>1, <3>2
  <2>4. ASSUME NEW a \in Signers, NEW g \in FeedStates, NEW price \in FeedArgs.price \cup {None},
               NEW decimals \in FeedArgs.decimals \cup {None},
               UpdateManualFeed(a, g, price, decimals)
        PROVE  InCharge(f)
    <3>1. CASE manual_pda[g] = feeds[f].underlying_feed
      BY <2>4, <3>1 DEF UpdateManualFeed
    <3>2. CASE manual_pda[g] # feeds[f].underlying_feed
      <4>1. /\ feeds' = feeds /\ clock' = clock
            /\ DOMAIN manual_feeds' = DOMAIN manual_feeds
            /\ \A u \in DOMAIN manual_feeds : u # manual_pda[g] => manual_feeds'[u] = manual_feeds[u]
        BY <2>4 DEF UpdateManualFeed
      <4> QED
        BY <3>2, <4>1, SamePrice
    <3> QED
      BY <3>1, <3>2
  <2>5. ASSUME UNCHANGED <<feeds, manual_feeds>>, clock' \in {clock, clock + 1}
        PROVE  FALSE
    BY <2>5, SamePrice
  <2>6. ASSUME NEW u \in Quoted, NEW value \in FeedArgs.value,
               NEW exponent \in FeedArgs.exponent, NEW time \in 0 .. MaxClock,
               Publish(u, value, exponent, time)
        PROVE  FALSE
    BY <2>5, <2>6 DEF Publish
  <2>7. CASE ClockTicks
    BY <2>5, <2>7 DEF ClockTicks
  <2>8. CASE ACGovern /\ UNCHANGED feedVars
    BY <2>5, <2>8 DEF feedVars
  <2> QED
    BY <2>1, <2>2, <2>3, <2>4, <2>6, <2>7, <2>8, Zenon DEF DFNext
<1>2. DFSpec => [][\A f \in DOMAIN feeds : Moves(f) => InCharge(f)]_dfVars
  BY <1>1, Invariance, PTL DEF DFSpec
<1> QED
  BY <1>2 DEF ManualAnswersUnderAuthority

-----------------------------------------------------------------------------
(* Negative quotes.                                                       *)

\* A quote that is not the initial one was published as it stands.
AsPublished ==
    \A u \in Quoted : quotes[u].value < 0 =>
        quotes[u].value \in FeedArgs.value /\ quotes[u].exponent \in FeedArgs.exponent

LEMMA StepAsPublished == DFInv /\ AsPublished /\ [DFNext]_dfVars => AsPublished'
<1> SUFFICES ASSUME DFInv, AsPublished, [DFNext]_dfVars PROVE AsPublished'
  OBVIOUS
<1>1. ASSUME NEW u \in Quoted, NEW value \in FeedArgs.value, NEW exponent \in FeedArgs.exponent,
             NEW time \in 0 .. MaxClock, Publish(u, value, exponent, time)
      PROVE  AsPublished'
  <2>1. quotes' = [quotes EXCEPT ![u] = [value |-> value, exponent |-> exponent, time |-> time]]
    BY <1>1 DEF Publish
  <2>2. quotes \in [Quoted -> Quote]
    BY DEF DFInv, DFTypeOK
  <2> QED
    BY <2>1, <2>2 DEF AsPublished
<1>2. ASSUME UNCHANGED quotes PROVE AsPublished'
  BY <1>2 DEF AsPublished
<1> QED
  BY <1>1, <1>2 DEF DFNext, NewFeed, UpdateFeed, NewManualFeed, UpdateManualFeed,
                    ClockTicks, feedVars, dfVars

\* The quotient of a number by lost digits that leave more than a limit of it.
LEMMA QuotientBeyond ==
    ASSUME NEW a \in Nat, NEW c \in Nat, c > 0, NEW limit \in Nat, (limit + 1) * c <= a
    PROVE  limit < a \div c
<1>1. ((limit + 1) * c) \div c <= a \div c
  BY QuotientMonotone, ProductNat
<1> QED
  BY <1>1, QuotientOfProduct, QuotientFacts

\* The cast of a negative 64-bit value, in base 9, is above every u64.
LEMMA NegativeBeyond ==
    ASSUME NEW value \in FeedArgs.value, value < 0, NEW exponent \in FeedArgs.exponent
    PROVE  U64_MAX < convert_to_base_9(AsU128(value), Magnitude(exponent))
<1> DEFINE raw == AsU128(value)
           decimals == Magnitude(exponent)
           lost == IF decimals > Base THEN Radix ^ (decimals - Base) ELSE 1
<1>1. decimals \in 0 .. MaxDecimals /\ Base \in 0 .. MaxDecimals
  BY FeedArgsAssumption, BaseAssumption DEF Magnitude
<1>2. U64_MAX \in Nat /\ MAX_UINT128 \in Nat /\ U64_MAX < MAX_UINT128
  BY WidthAssumption
<1>3. value \in Int /\ -U64_MAX <= value
  BY FeedArgsAssumption, PublishedAssumption
<1>4. raw = value + MAX_UINT128 + 1
  BY <1>2, <1>3 DEF AsU128
<1>5. raw \in Nat /\ MAX_UINT128 + 1 - U64_MAX <= raw
  BY <1>2, <1>3, <1>4
<1>6. (U64_MAX + 1) * lost <= MAX_UINT128 + 1 - U64_MAX
  BY PublishedAssumption DEF Magnitude
<1> HIDE DEF raw, decimals
<1>7. CASE decimals > Base
  <2>1. decimals - Base \in 0 .. MaxDecimals
    BY <1>1, <1>7, BaseAssumption
  <2>2. Radix ^ (decimals - Base) \in Nat /\ Radix ^ (decimals - Base) > 0
    BY <2>1, RadixAssumption
  <2>3. (U64_MAX + 1) * Radix ^ (decimals - Base) <= raw
    <3>1. (U64_MAX + 1) * Radix ^ (decimals - Base) \in Nat
      BY <1>2, <2>2, ProductNat
    <3> QED
      BY <1>2, <1>5, <1>6, <1>7, <3>1
  <2>4. U64_MAX < raw \div Radix ^ (decimals - Base)
    BY <1>2, <1>5, <2>2, <2>3, QuotientBeyond
  <2> QED
    BY <1>7, <2>4 DEF convert_to_base_9, convert, raw, decimals
<1>8. CASE ~(decimals > Base)
  <2>1. Base - decimals \in 0 .. MaxDecimals
    BY <1>1, <1>8, BaseAssumption
  <2>2. Radix ^ (Base - decimals) \in Nat /\ Radix ^ (Base - decimals) > 0
    BY <2>1, RadixAssumption
  <2>3. U64_MAX < raw
    BY <1>2, <1>5, <1>6, <1>8
  <2>4. 1 * raw <= Radix ^ (Base - decimals) * raw
    BY <1>5, <2>2, ProductMonotone
  <2>5. U64_MAX < raw * Radix ^ (Base - decimals)
    BY <1>2, <1>5, <2>2, <2>3, <2>4
  <2> QED
    BY <1>8, <2>5 DEF convert_to_base_9, convert, raw, decimals
<1> QED
  BY <1>7, <1>8

\* No negative quote is ever answered: the cast wraps it far above the
\* maximum of any feed, at every scale quotes are published in
\* (get_price_in_base_9).
THEOREM NoNegativeAnswer == DFSpec => []NegativeQuoteRefused
<1>1. DFInit => AsPublished
  BY DEF DFInit, AsPublished
<1>2. DFInv /\ AsPublished => NegativeQuoteRefused
  <2> SUFFICES ASSUME DFInv, AsPublished, NEW f \in DOMAIN feeds,
                      feeds[f].underlying_feed \in Quoted,
                      quotes[feeds[f].underlying_feed].value < 0, Answers(f)
               PROVE  FALSE
    BY DEF NegativeQuoteRefused
  <2> DEFINE u == feeds[f].underlying_feed
  <2>1. CanRead(feeds[f]) /\ PriceInBase9(feeds[f]) <= feeds[f].max_price
    BY DEF Answers, WithinBounds
  <2>2. feeds[f].mode \in FeedMode /\ feeds[f].max_price \in Nat /\ feeds[f].max_price <= U64_MAX
    BY WidthAssumption DEF DFInv, DFTypeOK, FeedState, U64
  <2>3. feeds[f].mode # "MANUAL"
    BY <2>1, FeedAssumption DEF CanRead, DFInv, DFTypeOK
  <2>4. quotes[u].value \in FeedArgs.value /\ quotes[u].exponent \in FeedArgs.exponent
    BY DEF AsPublished
  <2>5. feeds[f].mode # "SWITCHBOARD"
    BY <2>1, <2>4, FeedArgsAssumption DEF CanRead
  <2>6. feeds[f].mode = "PYTH"
    BY <2>2, <2>3, <2>5 DEF FeedMode
  <2>7. PriceInBase9(feeds[f]) = convert_to_base_9(AsU128(quotes[u].value),
                                                   Magnitude(quotes[u].exponent))
    BY <2>6 DEF PriceInBase9, RawPrice, RawDecimals
  <2>8. U64_MAX < PriceInBase9(feeds[f])
    BY <2>4, <2>7, NegativeBeyond
  <2>9. PriceInBase9(feeds[f]) \in Nat
    BY <2>1, RawFacts, ConvertNat, BaseAssumption DEF PriceInBase9, convert_to_base_9
  <2> QED
    BY <2>1, <2>2, <2>8, <2>9, WidthAssumption
<1> QED
  BY InitDFInv, StepDFInv, StepAsPublished, <1>1, <1>2, PTL DEF DFSpec

-----------------------------------------------------------------------------
(* The arithmetic, for every radix, precision, width and bound of the       *)
(* inputs.  The invariant is only the ranges of the inputs; each property   *)
(* is then a fact about quotients.                                          *)

InputsOK ==
    /\ amount \in Nat
    /\ rate \in Nat /\ rate > 0 /\ m_rate \in Nat /\ m_rate > 0
    /\ rate <= MaxRate /\ amount <= MaxAmount
    /\ percent \in 0 .. ONE_HUNDRED_PERCENT
    /\ dec \in 0 .. MaxDecimals

LEMMA InputsInvariant == Spec => []InputsOK
<1> USE BoundsAssumption
<1>1. Init => InputsOK
  BY DEF Init, InputsOK
<1>2. InputsOK /\ [Next]_inputs => InputsOK'
  BY DEF InputsOK, Next, inputs
<1> QED
  BY <1>1, <1>2, PTL DEF Spec

LEMMA OnePositive == ONE \in Nat /\ ONE > 0
BY RadixAssumption, BaseAssumption DEF ONE

LEMMA FeeBounds == InputsOK => fee \in Nat /\ fee <= amount /\ truncate(fee, dec) = fee
<1> SUFFICES ASSUME InputsOK
             PROVE  fee \in Nat /\ fee <= amount /\ truncate(fee, dec) = fee
  OBVIOUS
<1>1. FeeAmount(amount, percent) \in Nat /\ FeeAmount(amount, percent) <= amount
  BY FeeFacts DEF InputsOK
<1>2. /\ truncate(FeeAmount(amount, percent), dec) \in Nat
      /\ truncate(FeeAmount(amount, percent), dec) <= FeeAmount(amount, percent)
      /\ truncate(truncate(FeeAmount(amount, percent), dec), dec)
           = truncate(FeeAmount(amount, percent), dec)
  BY <1>1, TruncateFacts DEF InputsOK
<1> QED
  BY <1>1, <1>2 DEF fee, InputsOK

\* The subtractions of calc_and_validate_deposit (utils.rs) never underflow.
THEOREM NoUnderflow == Spec => []DepositNeverUnderflows
<1>1. InputsOK => DepositNeverUnderflows
  <2> SUFFICES ASSUME InputsOK PROVE DepositNeverUnderflows
    OBVIOUS
  <2>1. fee \in Nat /\ fee <= amount
    BY FeeBounds
  <2>2. MulDiv(fee, rate, ONE) <= MulDiv(amount, rate, ONE)
    BY <2>1, OnePositive, MulDivMonotone DEF InputsOK
  <2> QED
    BY <2>1, <2>2 DEF DepositNeverUnderflows
<1> QED
  BY <1>1, InputsInvariant, PTL

\* A fee is transferred as it was computed, to the last unit.
THEOREM FeeTransferred == Spec => []TruncatedIsTransferred
<1>1. InputsOK => TruncatedIsTransferred
  BY FeeBounds DEF TruncatedIsTransferred, truncate
<1> QED
  BY <1>1, InputsInvariant, PTL

\* Deposited and redeemed at the same rates, an amount never grows.
THEOREM RoundTrip == Spec => []RoundTripNeverGains
<1>1. InputsOK => RoundTripNeverGains
  <2> SUFFICES ASSUME InputsOK PROVE RoundTripNeverGains
    OBVIOUS
  <2> DEFINE value == MulDiv(amount, rate, ONE)
             m_tokens == MulDiv(value, ONE, m_rate)
             back == MulDiv(m_tokens, m_rate, rate)
  <2>1. value \in Nat /\ value * ONE <= amount * rate
    <3>1. amount * rate \in Nat
      BY ProductNat DEF InputsOK
    <3> QED
      BY <3>1, OnePositive, QuotientFacts DEF MulDiv
  <2> HIDE DEF value
  <2>2. m_tokens \in Nat /\ m_tokens * m_rate <= value * ONE
    <3>1. value * ONE \in Nat
      BY <2>1, OnePositive, ProductNat
    <3> QED
      BY <3>1, QuotientFacts DEF MulDiv, InputsOK
  <2> HIDE DEF m_tokens
  <2>3. back \in Nat /\ back <= amount
    <3>1. /\ m_tokens * m_rate \in Nat /\ amount * rate \in Nat /\ value * ONE \in Nat
          /\ m_tokens * m_rate <= amount * rate
      <4>1. m_tokens * m_rate \in Nat /\ amount * rate \in Nat /\ value * ONE \in Nat
        BY <2>1, <2>2, OnePositive, ProductNat DEF InputsOK
      <4> QED
        BY <4>1, <2>1, <2>2
    <3>2. (m_tokens * m_rate) \div rate <= (amount * rate) \div rate
      BY <3>1, QuotientMonotone DEF InputsOK
    <3>3. (amount * rate) \div rate = amount
      BY QuotientOfProduct DEF InputsOK
    <3>4. back \in Nat
      BY <2>2, MulDivNat DEF InputsOK
    <3> QED
      BY <3>2, <3>3, <3>4 DEF MulDiv
  <2> HIDE DEF back
  <2>4. truncate(back, dec) \in Nat /\ truncate(back, dec) <= back
    BY <2>3, TruncateFacts DEF InputsOK
  <2>5. truncate(back, dec) <= amount
    BY <2>3, <2>4 DEF InputsOK
  <2> QED
    BY <2>5 DEF RoundTripNeverGains, back, m_tokens, value
<1> QED
  BY <1>1, InputsInvariant, PTL

\* A safe approval keeps within the tolerance, whatever the rates and widths;
\* the one escape is a rise so large that its percentage does not fit the u64 it
\* is cast to.
THEOREM Tolerance == Spec => []ToleranceHonoured
<1>1. InputsOK => ToleranceHonoured
  <2> USE PercentAssumption, WidthAssumption, BoundsAssumption
  <2> DEFINE diff == PriceDiff(rate, amount)
             change == diff * ONE_HUNDRED_PERCENT
             q == change \div rate
             Close == change < (percent + 1) * rate
             Wrapped == amount > rate /\ change >= (U64_MAX + 1) * rate
  <2> SUFFICES ASSUME InputsOK, WithinTolerance(percent, rate, amount)
               PROVE  Close \/ Wrapped
    BY DEF ToleranceHonoured
  <2>1. diff \in Nat /\ (amount > rate \/ diff <= rate)
    BY DEF InputsOK, PriceDiff
  <2>2. percent >= q % (U64_MAX + 1)
    BY DEF WithinTolerance, MulDiv
  <2> HIDE DEF diff
  <2>3. change \in Nat
    BY <2>1, ProductNat
  <2>4. diff <= rate => change <= ONE_HUNDRED_PERCENT * rate
    <3>1. diff <= rate => diff * ONE_HUNDRED_PERCENT <= rate * ONE_HUNDRED_PERCENT
      BY <2>1, ProductMonotone DEF InputsOK
    <3>2. rate * ONE_HUNDRED_PERCENT = ONE_HUNDRED_PERCENT * rate
      BY DEF InputsOK
    <3> QED
      BY <3>1, <3>2
  <2> HIDE DEF change
  <2>5. q \in Nat /\ q * rate <= change /\ change < q * rate + rate
    BY <2>3, QuotientFacts DEF InputsOK
  <2> HIDE DEF q
  <2>6. CASE q <= U64_MAX
    <3>1. q % (U64_MAX + 1) = q
      BY <2>5, <2>6
    <3>2. q <= percent /\ percent \in Nat
      BY <2>2, <3>1 DEF InputsOK
    <3>3. q * rate <= percent * rate
      BY <2>5, <3>2, ProductMonotone DEF InputsOK
    <3>4. (percent + 1) * rate = percent * rate + rate
      BY <3>2 DEF InputsOK
    <3>5. q * rate \in Nat /\ percent * rate \in Nat
      BY <2>5, <3>2, ProductNat DEF InputsOK
    <3> QED
      BY <2>3, <2>5, <3>3, <3>4, <3>5 DEF InputsOK
  <2>7. CASE q > U64_MAX
    <3>1. q >= U64_MAX + 1 /\ q * rate \in Nat /\ (U64_MAX + 1) * rate \in Nat
      BY <2>5, <2>7, ProductNat DEF InputsOK
    <3>2. (U64_MAX + 1) * rate <= q * rate
      BY <2>5, <3>1, ProductMonotone DEF InputsOK
    <3>3. change >= (U64_MAX + 1) * rate
      BY <2>3, <2>5, <3>1, <3>2
    <3>4. amount > rate
      <4>1. ONE_HUNDRED_PERCENT * rate < (U64_MAX + 1) * rate
        <5>1. (U64_MAX + 1) * rate = U64_MAX * rate + rate
          BY DEF InputsOK
        <5>2. ONE_HUNDRED_PERCENT * rate <= U64_MAX * rate
          BY ProductMonotone DEF InputsOK
        <5>3. ONE_HUNDRED_PERCENT * rate \in Nat /\ U64_MAX * rate \in Nat
          BY ProductNat DEF InputsOK
        <5> QED
          BY <5>1, <5>2, <5>3 DEF InputsOK
      <4>2. ONE_HUNDRED_PERCENT * rate \in Nat
        BY ProductNat DEF InputsOK
      <4> QED
        BY <2>1, <2>3, <2>4, <3>1, <3>3, <4>1, <4>2
    <3> QED
      BY <3>3, <3>4
  <2> QED
    BY <2>5, <2>6, <2>7
<1> QED
  BY <1>1, InputsInvariant, PTL
===============================================================================
