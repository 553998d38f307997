---------------------------- MODULE MCChatPanel ----------------------------
(***************************************************************************)
(* The panel in one run: its chat with every fault, and how it connects    *)
(* Notion.  The two parts share nothing but the session, which either may  *)
(* get at any time, so a behaviour is of one of them, chosen at the start, *)
(* and the other rests.                                                    *)
(*                                                                         *)
(* NoAnswerLost needs POSTs that succeed and reads that do not lag, so the *)
(* run remembers whether one failed or lagged.                             *)
(***************************************************************************)
EXTENDS ChatPanel

CONSTANTS Sites, NotionFaults, MaxClicks, MaxReadings

VARIABLES
  disturbed,  \* has a POST failed, or a read lagged?
  part,       \* the part the behaviour is of
  site, signedIn, shown, connecting, clicks, starts, window, watched, polling,
  posted, callbacks, readings, connection, doubtful

Notion == INSTANCE NotionPanel WITH Faults <- NotionFaults

ASSUME NotionAssumption ==
  /\ Sites \subseteq Notion!Site
  /\ NotionFaults \subseteq Notion!FaultKinds
  /\ MaxClicks \in Nat /\ MaxReadings \in Nat

notion == <<site, signedIn, shown, connecting, clicks, starts, window, watched,
            polling, posted, callbacks, readings, connection, doubtful>>

all == <<vars, disturbed, part, notion>>

PostFails ==
  \/ send.pc # "idle" /\ panel'.error
  \/ \E q \in Question : DispatchFails(q)

ReadLags ==
  \E r \in polls' \ polls :
    r.answer \notin {None, "denied", "error", jobs[r.job].phase}

ChatNext ==
  /\ part = "chat"
  /\ Next
  /\ disturbed' = (disturbed \/ PostFails \/ ReadLags)
  /\ UNCHANGED <<part, notion>>

NotionNext ==
  /\ part = "notion"
  /\ Notion!Next
  /\ UNCHANGED <<vars, disturbed, part>>

\* A part that rests has nothing to do: nobody is signed in to it.
MCInit ==
  /\ Init /\ Notion!Init
  /\ disturbed = FALSE
  /\ part \in {"chat", "notion"}
  /\ part = "chat" => site = {"auth"} /\ ~connection.there
  /\ part = "notion" => session = 0

MCSpec == MCInit /\ [][ChatNext \/ NotionNext]_all /\ Fairness

-----------------------------------------------------------------------------
(* Properties *)

\* NoAnswerLost, up to the first POST that fails or read that lags
\* (ChatPanel.tsx: pollJob).
AnswersArrive == ~disturbed => NoAnswerLost

\* NotionPanel: a connection that a window of the panel saw made is shown
\* (ChatPanel.tsx: handleConnectNotion, handleNotionCompleteMessage).
ConnectedIsShown == Notion!ConnectedIsShown

\* NotionPanel: an attempt under way has something that will end it
\* (ChatPanel.tsx: handleConnectNotion).
AttemptIsWatched == Notion!AttemptIsWatched
=============================================================================
