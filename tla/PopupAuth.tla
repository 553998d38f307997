------------------------------ MODULE PopupAuth ------------------------------
(***************************************************************************)
(* Signing in through the Cognito popup: the AuthGate of the panel, the    *)
(* popup window in the user's hands, the API that starts a transaction,    *)
(* answers status polls and handles the callback, and the transaction      *)
(* table between them.                                                     *)
(*                                                                         *)
(* Each click on the button starts one transaction, so transactions are    *)
(* named by their attempt.  Polls are sent on a timer whether or not the   *)
(* earlier ones have been answered; a callback is a sequence of requests   *)
(* and may run twice for one code when the popup is reloaded.              *)
(***************************************************************************)
EXTENDS Naturals

CONSTANTS
  Attempt,         \* sign-in attempts
  Poll,            \* status requests that may be outstanding at once
  Call,            \* callback requests
  None,            \* no transaction, session or code
  Faults,          \* what may go wrong: see FaultKinds
  WaitTimeout,     \* popupWaitTimeoutMs, in ticks
  TransactionTtl,  \* transactionTtlSeconds, in ticks
  MaxCodes         \* bound on the codes Cognito issues

\* A request to the tables rejects; the token request fails; the API process
\* stops; the panel's own request fails; an eventually consistent read, of the
\* item or of StateIndex, returns an earlier item.
FaultKinds == {"store", "cognito", "crash", "network", "stale"}

ASSUME ConstantsAssumption ==
  /\ None \notin Attempt
  /\ None \notin Nat
  /\ Faults \subseteq FaultKinds
  /\ WaitTimeout \in Nat
  /\ TransactionTtl \in Nat
  /\ MaxCodes \in Nat

VARIABLES
  panel,    \* AuthGate's state and refs
  stored,   \* the session in localStorage
  start,    \* per attempt: the request to /popup/start
  wait,     \* per attempt: time left before the panel gives up
  poll,     \* the outstanding status requests
  popup,    \* the one window named tableau-chat-cognito-login
  tx,       \* the transaction table
  replica,  \* the items that a lagging read may return
  call,     \* the callback requests
  issued,   \* the number of codes Cognito has issued
  redeemed  \* the codes that were exchanged for tokens

vars == <<panel, stored, start, wait, poll, popup, tx, replica, call, issued,
          redeemed>>

backend == <<tx, replica, call, issued, redeemed>>

-----------------------------------------------------------------------------
(* Values.  A session is named by the code it was exchanged for. *)

Session == Nat
TxStatus == {"pending", "completed", "failed"}
\* token: does the item hold the poll token and the expiry time?
Transaction == [status : TxStatus, session : Session \cup {None},
                left : Nat, token : BOOLEAN]
Answer == {"pending", "completed", "failed", "error"}

StartPc == {"idle", "requested", "created", "refused", "returned"}
CallPc == {"idle", "lookup", "exchange", "complete", "fail", "done"}
Page == {"closed", "blank", "authorize", "callback"}

Panel == [session : Session \cup {None}, signingIn : BOOLEAN,
          error : BOOLEAN, current : Attempt \cup {None}, timer : BOOLEAN,
          popup : BOOLEAN]

TypeOK ==
  /\ panel \in Panel
  /\ stored \in Session \cup {None}
  /\ start \in [Attempt -> StartPc]
  /\ wait \in [Attempt -> Nat]
  /\ poll \in [Poll -> [tx : Attempt \cup {None},
                        answer : Answer \cup {None},
                        session : Session \cup {None}]]
  /\ popup \in [page : Page, by : SUBSET Attempt, tx : Attempt \cup {None},
                code : Session \cup {None}]
  /\ tx \in [Attempt -> Transaction \cup {None}]
  /\ replica \in [Attempt -> Transaction \cup {None}]
  /\ call \in [Call -> [pc : CallPc, tx : Attempt \cup {None},
                        code : Session \cup {None}]]
  /\ issued \in Nat
  /\ redeemed \subseteq Session \cup {None}

Mounted(session) ==
  [session |-> session, signingIn |-> FALSE, error |-> FALSE,
   current |-> None, timer |-> FALSE, popup |-> FALSE]
NoPoll == [tx |-> None, answer |-> None, session |-> None]
NoCall == [pc |-> "idle", tx |-> None, code |-> None]
\* by: the attempts that hold a reference to this window.
Window(page) == [page |-> page, by |-> {}, tx |-> None, code |-> None]

Init ==
  /\ panel = Mounted(None)
  /\ stored = None
  /\ start = [a \in Attempt |-> "idle"]
  /\ wait = [a \in Attempt |-> 0]
  /\ poll = [p \in Poll |-> NoPoll]
  /\ popup = Window("closed")
  /\ tx = [a \in Attempt |-> None]
  /\ replica = [a \in Attempt |-> None]
  /\ call = [c \in Call |-> NoCall]
  /\ issued = 0
  /\ redeemed = {}

-----------------------------------------------------------------------------
(* The panel: AuthGate *)

\* Mutant: the button stays disabled.
StoppedStillSigningIn ==
  [panel EXCEPT !.timer = FALSE, !.current = None, !.popup = FALSE,
                !.error = TRUE]

\* stopSignIn(message): the popup stays open.
Stopped == [panel EXCEPT !.timer = FALSE, !.current = None, !.popup = FALSE,
                         !.signingIn = FALSE, !.error = TRUE]

\* Mutant: the timer keeps polling after the session is accepted.
AcceptedStillPolling(session) ==
  [panel EXCEPT !.session = session, !.error = FALSE, !.signingIn = FALSE,
                !.popup = FALSE]

\* acceptSession
Accepted(session) ==
  [panel EXCEPT !.session = session, !.error = FALSE, !.signingIn = FALSE,
                !.timer = FALSE, !.current = None, !.popup = FALSE]

AcceptSession(session) ==
  /\ panel' = Accepted(session)
  /\ stored' = session
  /\ popup' = IF panel.popup THEN Window("closed") ELSE popup

\* Mutant: the button is there for somebody who is signed in.
SignInOfferedAgain == ~panel.signingIn

\* The button is there only while nobody is signed in, and enabled only while
\* no attempt is under way.
SignInOffered == panel.session = None /\ ~panel.signingIn

\* openLoginPopupWindow returns the window of an earlier attempt if it is still
\* open.
Opened(a) ==
  IF popup.page = "closed" THEN [Window("blank") EXCEPT !.by = {a}]
  ELSE [popup EXCEPT !.by = @ \cup {a}]

\* handleSignIn up to its request.
Click(a) ==
  /\ start[a] = "idle"
  /\ SignInOffered
  /\ \/ /\ panel' = [panel EXCEPT !.signingIn = TRUE, !.error = FALSE,
                                  !.popup = TRUE]
        /\ start' = [start EXCEPT ![a] = "requested"]
        /\ popup' = Opened(a)
     \/ \* the popup is blocked
        /\ panel' = Stopped
        /\ start' = [start EXCEPT ![a] = "returned"]
        /\ UNCHANGED popup
  /\ UNCHANGED <<stored, wait, poll, backend>>

\* The answer to /popup/start arrives: the popup is sent to Cognito unless the
\* user has closed it, and polling begins.
StartReturns(a) ==
  /\ start[a] = "created"
  /\ start' = [start EXCEPT ![a] = "returned"]
  /\ wait' = [wait EXCEPT ![a] = WaitTimeout]
  /\ panel' = [panel EXCEPT !.current = a, !.timer = TRUE]
  /\ popup' = IF a \in popup.by
              THEN [popup EXCEPT !.page = "authorize", !.tx = a, !.code = None]
              ELSE popup
  /\ UNCHANGED <<stored, poll, backend>>

StartFails(a) ==
  /\ \/ start[a] = "refused"
     \/ start[a] \in {"requested", "created"} /\ "network" \in Faults
  /\ start' = [start EXCEPT ![a] = "returned"]
  /\ panel' = Stopped
  /\ popup' = IF a \in popup.by THEN Window("closed") ELSE popup
  /\ UNCHANGED <<stored, wait, poll, backend>>

\* pollPopupTransaction up to its request: by the interval, and once at once.
SendPoll(p) ==
  /\ panel.timer
  /\ panel.current # None
  /\ poll[p].tx = None
  /\ poll' = [poll EXCEPT ![p] = [NoPoll EXCEPT !.tx = panel.current]]
  /\ UNCHANGED <<panel, stored, start, wait, popup, backend>>

\* Mutant: the panel waits for ever.
GivesUpOnErrors(p) == poll[p].answer \in {"failed", "error"}

GivesUp(p) ==
  \/ poll[p].answer \in {"failed", "error"}
  \/ poll[p].answer = "pending" /\ wait[poll[p].tx] = 0

\* The rest of pollPopupTransaction, whatever the panel is doing by then.
PollReturns(p) ==
  /\ poll[p].answer # None
  /\ poll' = [poll EXCEPT ![p] = NoPoll]
  /\ \/ /\ poll[p].answer = "completed"
        /\ AcceptSession(poll[p].session)
     \/ /\ GivesUp(p)
        /\ panel' = Stopped
        /\ UNCHANGED <<stored, popup>>
     \/ /\ poll[p].answer # "completed" /\ ~GivesUp(p)
        /\ UNCHANGED <<panel, stored, popup>>
  /\ UNCHANGED <<start, wait, backend>>

\* The dashboard reloads the extension: only localStorage survives, and
\* getStoredSession removes a session that has expired.
Reload ==
  /\ \E session \in {stored, None} :
       /\ stored' = session
       /\ panel' = Mounted(session)
  /\ start' = [a \in Attempt |-> IF start[a] = "idle" THEN "idle" ELSE "returned"]
  /\ wait' = [a \in Attempt |-> 0]
  /\ poll' = [p \in Poll |-> NoPoll]
  /\ UNCHANGED <<popup, backend>>

-----------------------------------------------------------------------------
(* The user's popup *)

\* The user signs in; Cognito issues a code and redirects to the callback.
Authorize(c) ==
  /\ popup.page = "authorize"
  /\ issued < MaxCodes
  /\ call[c].pc = "idle"
  /\ issued' = issued + 1
  /\ popup' = [popup EXCEPT !.page = "callback", !.code = issued + 1]
  /\ call' = [call EXCEPT ![c] = [pc |-> "lookup", tx |-> popup.tx,
                                  code |-> issued + 1]]
  /\ UNCHANGED <<panel, stored, start, wait, poll, tx, replica, redeemed>>

ReloadCallback(c) ==
  /\ popup.page = "callback"
  /\ call[c].pc = "idle"
  /\ call' = [call EXCEPT ![c] = [pc |-> "lookup", tx |-> popup.tx,
                                  code |-> popup.code]]
  /\ UNCHANGED <<panel, stored, start, wait, poll, popup, tx, replica, issued,
                 redeemed>>

\* By the user, or by the script of the callback page.
ClosePopup ==
  /\ popup.page # "closed"
  /\ popup' = Window("closed")
  /\ UNCHANGED <<panel, stored, start, wait, poll, backend>>

-----------------------------------------------------------------------------
(* The API: CognitoPopupAuthService over the transaction table *)

\* A read of the table, or of its index.
View(a) == {tx[a]} \cup (IF "stale" \in Faults THEN {replica[a]} ELSE {})

\* updateTransaction creates the item it does not find.
Row(a) == IF tx[a] = None
          THEN [status |-> "pending", session |-> None, left |-> 0,
                token |-> FALSE]
          ELSE tx[a]

StartPopupAuth(a) ==
  /\ start[a] = "requested"
  /\ \/ /\ tx' = [tx EXCEPT ![a] = [status |-> "pending", session |-> None,
                                    left |-> TransactionTtl, token |-> TRUE]]
        /\ start' = [start EXCEPT ![a] = "created"]
     \/ /\ "store" \in Faults
        /\ start' = [start EXCEPT ![a] = "refused"]
        /\ UNCHANGED tx
  /\ UNCHANGED <<panel, stored, wait, poll, popup, replica, call, issued,
                 redeemed>>

\* getPopupAuthStatus; an answer that is not OK, or none, rejects.
StatusOf(row) ==
  IF row = None THEN "failed"
  ELSE IF ~row.token THEN "failed"
  ELSE IF row.status = "completed" /\ row.session = None THEN "pending"
  ELSE row.status

AnswerPoll(p) ==
  /\ poll[p].tx # None
  /\ poll[p].answer = None
  /\ \/ \E row \in View(poll[p].tx) :
          poll' = [poll EXCEPT ![p] = [@ EXCEPT
            !.answer = StatusOf(row),
            !.session = IF StatusOf(row) = "completed" THEN row.session
                        ELSE None]]
     \/ /\ Faults \cap {"network", "store", "crash"} # {}
        /\ poll' = [poll EXCEPT ![p] = [@ EXCEPT !.answer = "error"]]
  /\ UNCHANGED <<panel, stored, start, wait, popup, backend>>

CallAt(c, pc) == call' = [call EXCEPT ![c].pc = pc]
Answered(c) == call' = [call EXCEPT ![c] = [NoCall EXCEPT !.pc = "done"]]

\* getTransactionByState and the check of expiresAt.
Lookup(c) ==
  /\ call[c].pc = "lookup"
  /\ \E row \in View(call[c].tx) :
       \/ row = None /\ Answered(c)
       \/ row # None /\ row.left = 0 /\ CallAt(c, "fail")
       \/ row # None /\ row.left > 0 /\ CallAt(c, "exchange")
  /\ UNCHANGED <<panel, stored, start, wait, poll, popup, tx, replica, issued,
                 redeemed>>

\* exchangeAuthorizationCode: a code is good for one exchange.
Exchange(c) ==
  /\ call[c].pc = "exchange"
  /\ \/ /\ call[c].code \notin redeemed
        /\ redeemed' = redeemed \cup {call[c].code}
        /\ CallAt(c, "complete") \/ ("cognito" \in Faults /\ CallAt(c, "fail"))
     \/ /\ call[c].code \in redeemed \/ "cognito" \in Faults
        /\ CallAt(c, "fail")
        /\ UNCHANGED redeemed
  /\ UNCHANGED <<panel, stored, start, wait, poll, popup, tx, replica, issued>>

CompletedRow(c) ==
  [Row(call[c].tx) EXCEPT !.status = "completed", !.session = call[c].code]
FailedRow(c) == [Row(call[c].tx) EXCEPT !.status = "failed"]
SetRow(c, row) == tx' = [tx EXCEPT ![call[c].tx] = row]

MarkCompleted(c) ==
  /\ call[c].pc = "complete"
  /\ \/ SetRow(c, CompletedRow(c)) /\ Answered(c)
     \/ /\ "store" \in Faults
        /\ SetRow(c, CompletedRow(c)) \/ UNCHANGED tx
        /\ CallAt(c, "fail")
  /\ UNCHANGED <<panel, stored, start, wait, poll, popup, replica, issued,
                 redeemed>>

\* The catch block; an earlier session stays on the item.
MarkFailed(c) ==
  /\ call[c].pc = "fail"
  /\ \/ SetRow(c, FailedRow(c))
     \/ "store" \in Faults /\ UNCHANGED tx
  /\ Answered(c)
  /\ UNCHANGED <<panel, stored, start, wait, poll, popup, replica, issued,
                 redeemed>>

CallStops(c) ==
  /\ "crash" \in Faults
  /\ call[c].pc \notin {"idle", "done"}
  /\ Answered(c)
  /\ UNCHANGED <<panel, stored, start, wait, poll, popup, tx, replica, issued,
                 redeemed>>

-----------------------------------------------------------------------------
(* The table and the clock *)

Replicate(a) ==
  /\ "stale" \in Faults
  /\ replica[a] # tx[a]
  /\ replica' = [replica EXCEPT ![a] = tx[a]]
  /\ UNCHANGED <<panel, stored, start, wait, poll, popup, tx, call, issued,
                 redeemed>>

\* TTL deletion, some time after expiresAt.
Expire(a) ==
  /\ tx[a] # None
  /\ tx[a].token /\ tx[a].left = 0
  /\ tx' = [tx EXCEPT ![a] = None]
  /\ UNCHANGED <<panel, stored, start, wait, poll, popup, replica, call,
                 issued, redeemed>>

Minus1(n) == IF n > 0 THEN n - 1 ELSE 0
Older(row) == IF row = None THEN None
              ELSE [row EXCEPT !.left = Minus1(@)]

Tick ==
  /\ \E a \in Attempt : wait[a] > 0 \/ Older(tx[a]) # tx[a]
  /\ wait' = [a \in Attempt |-> Minus1(wait[a])]
  /\ tx' = [a \in Attempt |-> Older(tx[a])]
  /\ replica' = [a \in Attempt |-> Older(replica[a])]
  /\ UNCHANGED <<panel, stored, start, poll, popup, call, issued, redeemed>>

\* What the panel and the API do on their own.
StartStep(a) == StartPopupAuth(a) \/ StartReturns(a) \/ StartFails(a)
PollStep(p) == SendPoll(p) \/ AnswerPoll(p) \/ PollReturns(p)
CallStep(c) == Lookup(c) \/ Exchange(c) \/ MarkCompleted(c) \/ MarkFailed(c)

Next ==
  \/ \E a \in Attempt : Click(a) \/ StartStep(a) \/ Replicate(a) \/ Expire(a)
  \/ \E p \in Poll : PollStep(p)
  \/ \E c \in Call : Authorize(c) \/ ReloadCallback(c) \/ CallStep(c)
                     \/ CallStops(c)
  \/ Reload \/ ClosePopup \/ Tick

Spec == Init /\ [][Next]_vars

\* The interval fires, requests are answered, continuations run, time passes.
Fairness ==
  /\ \A a \in Attempt : WF_vars(StartStep(a))
  /\ WF_vars(\E p \in Poll : SendPoll(p))
  /\ \A p \in Poll : WF_vars(AnswerPoll(p) \/ PollReturns(p))
  /\ WF_vars(Tick)

-----------------------------------------------------------------------------
(* Properties *)

\* The button comes back: while it is disabled, either a start request is
\* under way or the timer is polling a transaction.  Answers to polls of
\* earlier attempts arrive at any time and reset these refs one by one.
SigningInIsLive ==
  panel.signingIn =>
    \/ \E a \in Attempt : start[a] \in {"requested", "created", "refused"}
    \/ panel.timer /\ panel.current # None

\* An attempt ends, with a session or with an error, whatever the user does
\* with the popup and whatever fails.
Settles == panel.signingIn ~> ~panel.signingIn

\* A session that the panel has accepted stays until it expires: no late
\* answer of another attempt replaces it.  Nothing ties an answer to the
\* attempt under way, so this rests on one poll at a time.
SessionIsFinal == [][stored # None => stored' \in {stored, None}]_stored

\* Nobody who is signed in is told that signing in failed.
ErrorMeansSignedOut == panel.error => panel.session = None
=============================================================================
