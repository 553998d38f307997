-------------------------- MODULE ChatJobLifecycle --------------------------
(***************************************************************************)
(* What a chat job promises whoever asked the question: it is taken up,    *)
(* its turn is recorded in the history at most once, an answer is          *)
(* published only after its turn is recorded, and a completed or failed    *)
(* job never changes again until its item expires.                         *)
(***************************************************************************)
VARIABLES
  phase,    \* the status a poller would be shown
  recorded  \* is the turn in the chat history?

Open == {"queued", "running", "finalizing"}

Init == phase = "none" /\ recorded = FALSE

Create == phase = "none" /\ phase' = "queued" /\ UNCHANGED recorded

TakeUp == phase = "queued" /\ phase' = "running" /\ UNCHANGED recorded

Finalize == phase = "running" /\ phase' = "finalizing" /\ UNCHANGED recorded

Record == phase = "finalizing" /\ ~recorded /\ recorded' = TRUE
          /\ UNCHANGED phase

Publish == phase = "finalizing" /\ recorded /\ phase' = "completed"
           /\ UNCHANGED recorded

GiveUp == phase \in Open /\ phase' = "failed" /\ UNCHANGED recorded

Expire == phase # "none" /\ phase' = "gone" /\ UNCHANGED recorded

Next == Create \/ TakeUp \/ Finalize \/ Record \/ Publish \/ GiveUp \/ Expire

Spec == Init /\ [][Next]_<<phase, recorded>>
=============================================================================
