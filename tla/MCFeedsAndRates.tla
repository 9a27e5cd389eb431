---------------------------- MODULE MCFeedsAndRates ----------------------------
(***************************************************************************)
(* Two questions about prices at one scale of decimals: the feeds that     *)
(* answer them, and the arithmetic that uses them.  A behaviour is about   *)
(* one of the two; the other stands still.                                 *)
(***************************************************************************)
EXTENDS MCDataFeed, Rounding

VARIABLE subject   \* what the behaviour is about

Resting == amount = 0 /\ rate = 1 /\ m_rate = 1 /\ percent = 0 /\ dec = 0

FRInit ==
    /\ DFInit
    /\ \/ subject = "feeds" /\ Resting
       \/ subject = "rates" /\ Init

FRNext ==
    \/ subject = "feeds" /\ DFNext /\ UNCHANGED <<inputs, subject>>
    \/ subject = "rates" /\ Next /\ UNCHANGED <<dfVars, subject>>

FRSpec == FRInit /\ [][FRNext]_<<dfVars, inputs, subject>>
================================================================================
