---------------------------- MODULE MCPopupAuth ----------------------------
(***************************************************************************)
(* Signing in through the popup, in one run of two kinds of behaviours:    *)
(* polls overlap and there is one callback request, or there are several   *)
(* callback requests, poll by poll.  To bound the run, a copy of an item   *)
(* that lags is none, or the item as it was created.                       *)
(***************************************************************************)
EXTENDS PopupAuth

VARIABLE overlapping  \* may polls overlap?

First(S) == CHOOSE x \in S : TRUE

OneCall == \A c \in Call \ {First(Call)} : call'[c] = NoCall
OnePoll == \A p \in Poll \ {First(Poll)} : poll'[p] = NoPoll

Copies ==
  \A a \in Attempt :
    replica'[a] \in {None, [status |-> "pending", session |-> None,
                            left |-> TransactionTtl, token |-> TRUE]}

MCInit == Init /\ overlapping \in BOOLEAN
MCNext ==
  /\ Next
  /\ IF overlapping THEN OneCall /\ UNCHANGED replica ELSE OnePoll /\ Copies
  /\ UNCHANGED overlapping
MCSpec == MCInit /\ [][MCNext]_<<vars, overlapping>> /\ Fairness

\* Nobody who is signed in is told that signing in failed, if polls do not
\* overlap (AuthGate.tsx: the interval of the effect).
NoErrorAfterSession == ~overlapping => ErrorMeansSignedOut

\* An accepted session stays until it expires, if polls do not overlap
\* (AuthGate.tsx: acceptSession).
SessionStays ==
  [][stored # None /\ ~overlapping => stored' \in {stored, None}]_stored
=============================================================================
