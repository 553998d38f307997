--------------------------- MODULE PopupAuthProofs ---------------------------
(***************************************************************************)
(* Proofs about PopupAuth, for any number of attempts, polls and callback  *)
(* requests and any timeouts, and about the two kinds of behaviours of     *)
(* MCPopupAuth.                                                            *)
(***************************************************************************)
EXTENDS MCPopupAuth, TLAPS

-----------------------------------------------------------------------------
(* Types *)

PollState == [tx : Attempt \cup {None}, answer : Answer \cup {None},
              session : Session \cup {None}]
CallState == [pc : CallPc, tx : Attempt \cup {None},
              code : Session \cup {None}]
PopupState == [page : Page, by : SUBSET Attempt, tx : Attempt \cup {None},
               code : Session \cup {None}]

\* The values that the panel's steps write.
LEMMA PanelType ==
  ASSUME TypeOK
  PROVE  /\ Stopped \in Panel
         /\ \A s \in Session \cup {None} : Accepted(s) \in Panel
         /\ \A s \in Session \cup {None} : Mounted(s) \in Panel
         /\ \A page \in Page : Window(page) \in PopupState
BY DEF TypeOK, Stopped, Accepted, Mounted, Window, Panel, PopupState

\* The values that the steps of the callback write.
LEMMA CallType ==
  ASSUME TypeOK, NEW c \in Call
  PROVE  /\ \A pc \in CallPc : CallAt(c, pc) => call' \in [Call -> CallState]
         /\ Answered(c) => call' \in [Call -> CallState]
<1>1. ASSUME NEW s \in CallState, call' = [call EXCEPT ![c] = s]
      PROVE  call' \in [Call -> CallState]
  BY <1>1 DEF TypeOK, CallState
<1>2. [NoCall EXCEPT !.pc = "done"] \in CallState
  BY DEF NoCall, CallState, CallPc
<1>3. ASSUME NEW pc \in CallPc, CallAt(c, pc)
      PROVE  call' \in [Call -> CallState]
  <2>1. [call[c] EXCEPT !.pc = pc] \in CallState
    BY DEF TypeOK, CallState
  <2> QED BY <1>3, <2>1, <1>1 DEF CallAt
<1> QED BY <1>1, <1>2, <1>3 DEF Answered

\* The items that the callback writes are transactions.
LEMMA RowType ==
  ASSUME TypeOK, NEW c \in Call
  PROVE  /\ SetRow(c, CompletedRow(c)) \/ SetRow(c, FailedRow(c)) =>
              tx' \in [Attempt -> Transaction \cup {None}]
<1>1. call[c].tx \in Attempt \cup {None} /\ call[c].code \in Session \cup {None}
  BY DEF TypeOK
<1>2. CASE call[c].tx \in Attempt
  <2>1. Row(call[c].tx) \in Transaction
    BY <1>2 DEF TypeOK, Row, Transaction, TxStatus
  <2>2. CompletedRow(c) \in Transaction /\ FailedRow(c) \in Transaction
    BY <1>1, <2>1 DEF CompletedRow, FailedRow, Transaction, TxStatus
  <2> QED BY <2>2 DEF SetRow, TypeOK
<1>3. CASE call[c].tx \notin Attempt
  BY <1>3 DEF SetRow, TypeOK
<1> QED BY <1>2, <1>3

\* The panel, the popup, the callbacks and the table stay well formed,
\* whichever of their steps interleave.
THEOREM TypeCorrect == Spec => []TypeOK
<1>1. Init => TypeOK
  BY DEF Init, TypeOK, Mounted, Panel, NoPoll, NoCall, Window, StartPc, CallPc,
         Page
<1>2. TypeOK /\ [Next]_vars => TypeOK'
  <2> SUFFICES ASSUME TypeOK, [Next]_vars PROVE TypeOK'
    OBVIOUS
  <2>1. ASSUME NEW a \in Attempt, Click(a) PROVE TypeOK'
    <3>1. panel' \in Panel
      BY <2>1, PanelType DEF Click, TypeOK, Panel
    <3>2. start' \in [Attempt -> StartPc]
      BY <2>1 DEF Click, TypeOK, StartPc
    <3>3. popup' \in PopupState
      <4>1. popup \in PopupState /\ Window("blank") \in PopupState
        BY DEF Window, TypeOK, PopupState, Page
      <4>2. \A w \in PopupState : [w EXCEPT !.by = @ \cup {a}] \in PopupState
        BY DEF PopupState
      <4>3. [Window("blank") EXCEPT !.by = {a}] \in PopupState
        BY DEF Window, PopupState, Page
      <4>4. Opened(a) \in PopupState
        <5>1. CASE popup.page = "closed"
          <6>1. Opened(a) = [Window("blank") EXCEPT !.by = {a}]
            BY <5>1 DEF Opened
          <6> QED BY <6>1, <4>3
        <5>2. CASE popup.page # "closed"
          <6>1. Opened(a) = [popup EXCEPT !.by = @ \cup {a}]
            BY <5>2 DEF Opened
          <6> QED BY <6>1, <4>1, <4>2
        <5> QED BY <5>1, <5>2
      <4>5. popup' = Opened(a) \/ popup' = popup
        BY <2>1 DEF Click
      <4> QED BY <4>1, <4>4, <4>5
    <3> QED BY <2>1, <3>1, <3>2, <3>3 DEF Click, TypeOK, PopupState, backend
  <2>2. ASSUME NEW a \in Attempt, StartReturns(a) PROVE TypeOK'
    <3>1. panel' \in Panel
      BY <2>2 DEF StartReturns, TypeOK, Panel
    <3>2. popup' \in PopupState
      BY <2>2 DEF StartReturns, TypeOK, PopupState, Page
    <3> QED BY <2>2, <3>1, <3>2, ConstantsAssumption
            DEF StartReturns, TypeOK, PopupState, StartPc, backend
  <2>3. ASSUME NEW a \in Attempt, StartFails(a) PROVE TypeOK'
    BY <2>3, PanelType DEF StartFails, TypeOK, PopupState, StartPc, backend, Page
  <2>4. ASSUME NEW a \in Attempt, StartPopupAuth(a) PROVE TypeOK'
    <3>1. [status |-> "pending", session |-> None, left |-> TransactionTtl,
           token |-> TRUE] \in Transaction
      BY ConstantsAssumption DEF Transaction, TxStatus
    <3>2. tx' \in [Attempt -> Transaction \cup {None}]
      BY <2>4, <3>1 DEF StartPopupAuth, TypeOK
    <3>3. start' \in [Attempt -> StartPc]
      BY <2>4 DEF StartPopupAuth, TypeOK, StartPc
    <3> QED BY <2>4, <3>2, <3>3 DEF StartPopupAuth, TypeOK
  <2>5. ASSUME NEW p \in Poll, SendPoll(p) PROVE TypeOK'
    <3>1. [NoPoll EXCEPT !.tx = panel.current] \in PollState
      BY DEF NoPoll, PollState, TypeOK, Panel
    <3> QED BY <2>5, <3>1 DEF SendPoll, TypeOK, PollState, backend
  <2>6. ASSUME NEW p \in Poll, AnswerPoll(p) PROVE TypeOK'
    <3>1. poll[p] \in PollState /\ poll[p].tx \in Attempt
      BY <2>6 DEF AnswerPoll, TypeOK, PollState
    <3>2. \A row \in View(poll[p].tx) : row \in Transaction \cup {None}
      BY <3>1 DEF View, TypeOK
    <3>3. ASSUME NEW row \in Transaction \cup {None}
          PROVE  [poll[p] EXCEPT !.answer = StatusOf(row),
                    !.session = IF StatusOf(row) = "completed"
                                THEN row.session ELSE None] \in PollState
      <4>1. StatusOf(row) \in Answer
        BY DEF StatusOf, Transaction, TxStatus, Answer
      <4>2. StatusOf(row) = "completed" => row.session \in Session
        BY DEF StatusOf, Transaction
      <4>3. (IF StatusOf(row) = "completed" THEN row.session ELSE None)
              \in Session \cup {None}
        BY <4>2
      <4> QED BY <3>1, <4>1, <4>3, Zenon DEF PollState
    <3>4. [poll[p] EXCEPT !.answer = "error"] \in PollState
      BY <3>1 DEF PollState, Answer
    <3>5. \E s \in PollState : poll' = [poll EXCEPT ![p] = s]
      <4>1. CASE poll' = [poll EXCEPT ![p] = [poll[p] EXCEPT !.answer = "error"]]
        BY <4>1, <3>4
      <4>2. ASSUME NEW row \in View(poll[p].tx),
                   poll' = [poll EXCEPT ![p] = [poll[p] EXCEPT
                     !.answer = StatusOf(row),
                     !.session = IF StatusOf(row) = "completed"
                                 THEN row.session ELSE None]]
            PROVE  \E s \in PollState : poll' = [poll EXCEPT ![p] = s]
        BY <4>2, <3>2, <3>3
      <4>3. (\E row \in View(poll[p].tx) :
               poll' = [poll EXCEPT ![p] = [poll[p] EXCEPT
                 !.answer = StatusOf(row),
                 !.session = IF StatusOf(row) = "completed"
                             THEN row.session ELSE None]])
            \/ poll' = [poll EXCEPT ![p] = [poll[p] EXCEPT !.answer = "error"]]
        BY <2>6 DEF AnswerPoll
      <4> QED BY <4>1, <4>2, <4>3, Zenon
    <3>6. poll' \in [Poll -> PollState]
      BY <3>5 DEF TypeOK, PollState
    <3>7. UNCHANGED <<panel, stored, start, wait, popup, tx, replica, call,
                      issued, redeemed>>
      BY <2>6 DEF AnswerPoll, backend
    <3> QED BY <3>6, <3>7 DEF TypeOK, PollState
  <2>7. ASSUME NEW p \in Poll, PollReturns(p) PROVE TypeOK'
    <3>1. NoPoll \in PollState /\ poll[p].session \in Session \cup {None}
      BY DEF NoPoll, PollState, TypeOK
    <3>2. poll' \in [Poll -> PollState]
      BY <2>7, <3>1 DEF PollReturns, TypeOK, PollState
    <3>3. panel' \in Panel /\ stored' \in Session \cup {None}
      BY <2>7, <3>1, PanelType DEF PollReturns, AcceptSession, TypeOK
    <3>4. popup' \in PopupState
      BY <2>7, PanelType DEF PollReturns, AcceptSession, TypeOK, PopupState, Page
    <3> QED BY <2>7, <3>2, <3>3, <3>4
            DEF PollReturns, TypeOK, PollState, PopupState, backend
  <2>8. CASE Reload
    <3>1. NoPoll \in PollState
      BY DEF NoPoll, PollState
    <3>2. stored' \in Session \cup {None} /\ panel' \in Panel
      BY <2>8, PanelType DEF Reload, TypeOK
    <3> QED BY <2>8, <3>1, <3>2 DEF Reload, TypeOK, PollState, StartPc, backend
  <2>9. ASSUME NEW c \in Call, Authorize(c) \/ ReloadCallback(c)
        PROVE  TypeOK'
    <3>1. issued + 1 \in Session
      BY DEF TypeOK, Session
    <3>2. \A code \in Session \cup {None} :
            [pc |-> "lookup", tx |-> popup.tx, code |-> code] \in CallState
      BY DEF TypeOK, CallState, CallPc
    <3>3. popup.code \in Session \cup {None}
      BY DEF TypeOK
    <3>4. call' \in [Call -> CallState]
      BY <2>9, <3>1, <3>2, <3>3 DEF Authorize, ReloadCallback, TypeOK, CallState
    <3>5. popup' \in PopupState
      BY <2>9, <3>1 DEF Authorize, ReloadCallback, TypeOK, PopupState, Page
    <3> QED BY <2>9, <3>1, <3>4, <3>5
            DEF Authorize, ReloadCallback, TypeOK, CallState, PopupState, Session
  <2>10. CASE ClosePopup
    BY <2>10, PanelType DEF ClosePopup, TypeOK, PopupState, Page, backend
  <2>11. ASSUME NEW c \in Call, CallStep(c) \/ CallStops(c)
         PROVE  TypeOK'
    <3>1. call' \in [Call -> CallState]
      BY <2>11, CallType DEF CallStep, CallStops, Lookup, Exchange,
         MarkCompleted, MarkFailed, CallPc
    <3>2. call[c].tx \in Attempt \cup {None}
          /\ call[c].code \in Session \cup {None}
      BY DEF TypeOK
    <3>3. redeemed' \subseteq Session \cup {None}
      BY <2>11, <3>2 DEF TypeOK, CallStep, CallStops, Lookup, Exchange,
                         MarkCompleted, MarkFailed
    <3>4. tx' \in [Attempt -> Transaction \cup {None}]
      BY <2>11, RowType, Zenon DEF TypeOK, CallStep, CallStops, Lookup,
         Exchange, MarkCompleted, MarkFailed
    <3>5. UNCHANGED <<panel, stored, start, wait, poll, popup, replica, issued>>
      BY <2>11 DEF CallStep, CallStops, Lookup, Exchange, MarkCompleted,
                   MarkFailed
    <3> QED BY <3>1, <3>3, <3>4, <3>5 DEF TypeOK, CallState
  <2>12. ASSUME NEW a \in Attempt, Replicate(a) \/ Expire(a) PROVE TypeOK'
    BY <2>12 DEF Replicate, Expire, TypeOK
  <2>13. CASE Tick
    <3>1. \A n \in Nat : Minus1(n) \in Nat
      BY DEF Minus1
    <3>2. \A row \in Transaction \cup {None} :
            Older(row) \in Transaction \cup {None}
      BY <3>1 DEF Older, Transaction
    <3> QED BY <2>13, <3>1, <3>2 DEF Tick, TypeOK
  <2>14. CASE UNCHANGED vars
    BY <2>14 DEF vars, TypeOK
  <2> QED BY <2>1, <2>2, <2>3, <2>4, <2>5, <2>6, <2>7, <2>8, <2>9, <2>10,
             <2>11, <2>12, <2>13, <2>14 DEF Next, StartStep, PollStep
<1> QED BY <1>1, <1>2, PTL DEF Spec

-----------------------------------------------------------------------------
(* The button *)

\* Every step that ends a start request or stops the timer gives the button
\* back in the same step, so it is never left disabled with nothing under way:
\* no attempt is stuck, however the answers of several attempts interleave.
THEOREM ButtonComesBack == Spec => []SigningInIsLive
<1>1. Init => SigningInIsLive
  BY DEF Init, Mounted, SigningInIsLive
<1>2. TypeOK /\ SigningInIsLive /\ [Next]_vars => SigningInIsLive'
  <2> SUFFICES ASSUME TypeOK, SigningInIsLive, [Next]_vars
               PROVE  SigningInIsLive'
    OBVIOUS
  <2> USE DEF SigningInIsLive
  <2>1. ASSUME NEW a \in Attempt, Click(a) PROVE SigningInIsLive'
    <3>1. CASE start' = [start EXCEPT ![a] = "requested"]
      BY <3>1 DEF TypeOK
    <3>2. CASE panel' = Stopped
      BY <3>2 DEF Stopped, TypeOK, Panel
    <3> QED BY <2>1, <3>1, <3>2 DEF Click
  <2>2. ASSUME NEW a \in Attempt, StartReturns(a) PROVE SigningInIsLive'
    BY <2>2, ConstantsAssumption DEF StartReturns, TypeOK, Panel
  <2>3. ASSUME NEW a \in Attempt, StartFails(a) PROVE SigningInIsLive'
    BY <2>3 DEF StartFails, Stopped, TypeOK, Panel
  <2>4. ASSUME NEW a \in Attempt, StartPopupAuth(a) PROVE SigningInIsLive'
    <3>1. start' = [start EXCEPT ![a] = "created"]
          \/ start' = [start EXCEPT ![a] = "refused"]
      BY <2>4 DEF StartPopupAuth
    <3>2. panel' = panel
      BY <2>4 DEF StartPopupAuth
    <3> QED BY <3>1, <3>2 DEF TypeOK
  <2>5. ASSUME NEW p \in Poll, SendPoll(p) \/ AnswerPoll(p)
        PROVE  SigningInIsLive'
    BY <2>5 DEF SendPoll, AnswerPoll
  <2>6. ASSUME NEW p \in Poll, PollReturns(p) PROVE SigningInIsLive'
    <3>1. CASE panel' = Stopped
      BY <3>1 DEF Stopped, TypeOK, Panel
    <3>2. CASE panel' = Accepted(poll[p].session)
      BY <3>2 DEF Accepted, TypeOK, Panel
    <3>3. CASE UNCHANGED <<panel, start>>
      BY <3>3
    <3> QED BY <2>6, <3>1, <3>2, <3>3 DEF PollReturns, AcceptSession
  <2>7. CASE Reload
    BY <2>7 DEF Reload, Mounted
  <2>8. CASE UNCHANGED <<panel, start>>
    BY <2>8
  <2>9. ASSUME NEW c \in Call, Authorize(c) \/ ReloadCallback(c)
                               \/ CallStep(c) \/ CallStops(c)
        PROVE  UNCHANGED <<panel, start>>
    BY <2>9 DEF Authorize, ReloadCallback, CallStep, CallStops, Lookup,
                Exchange, MarkCompleted, MarkFailed
  <2>10. ASSUME NEW a \in Attempt, Replicate(a) \/ Expire(a)
         PROVE  UNCHANGED <<panel, start>>
    BY <2>10 DEF Replicate, Expire
  <2>11. ClosePopup \/ Tick \/ UNCHANGED vars => UNCHANGED <<panel, start>>
    BY DEF ClosePopup, Tick, vars
  <2> QED BY <2>1, <2>2, <2>3, <2>4, <2>5, <2>6, <2>7, <2>8, <2>9, <2>10,
             <2>11 DEF Next, StartStep, PollStep
<1> QED BY <1>1, <1>2, TypeCorrect, PTL DEF Spec

-----------------------------------------------------------------------------
(* One poll at a time *)

Busy(a) == start[a] \in {"requested", "created", "refused"}

\* What holds between requests when the panel has at most one status request
\* outstanding: an attempt first waits for its start, then polls, and nothing
\* of it is left when it ends.
Orderly ==
  /\ \A a \in Attempt : Busy(a) => panel.signingIn /\ ~panel.timer
  /\ \A a, b \in Attempt : Busy(a) /\ Busy(b) => a = b
  /\ \A p \in Poll : poll[p].tx # None => panel.timer
  /\ \A p \in Poll : poll[p].answer # None => poll[p].tx # None
  /\ panel.timer => panel.signingIn
  /\ panel.signingIn => panel.session = None
  /\ panel.error => panel.session = None
  /\ stored = panel.session

\* At most one status request is outstanding.
Single == \A p, q \in Poll : poll[p].tx # None /\ poll[q].tx # None => p = q

\* Orderly is inductive, and its steps leave an accepted session alone.
LEMMA OrderlyStep ==
  ASSUME Single, TypeOK, Orderly, [Next]_vars
  PROVE  Orderly' /\ (stored # None => stored' \in {stored, None})
<1> USE DEF Orderly, Busy
<1>1. ASSUME NEW a \in Attempt, Click(a)
      PROVE  Orderly' /\ (stored # None => stored' \in {stored, None})
  <2>1. ~panel.signingIn /\ ~panel.timer /\ panel.session = None
    BY <1>1 DEF Click, SignInOffered
  <2>2. \A b \in Attempt : ~Busy(b)
    BY <2>1
  <2>3. \A p \in Poll : poll[p].tx = None
    BY <2>1
  <2>4. UNCHANGED <<poll, stored>>
    BY <1>1 DEF Click
  <2>5. CASE /\ panel' = [panel EXCEPT !.signingIn = TRUE, !.error = FALSE,
                                       !.popup = TRUE]
             /\ start' = [start EXCEPT ![a] = "requested"]
    <3>1. /\ panel'.signingIn /\ ~panel'.timer /\ ~panel'.error
          /\ panel'.session = panel.session
      BY <2>1, <2>5 DEF TypeOK, Panel
    <3>2. \A b \in Attempt : Busy(b)' => b = a
      BY <2>2, <2>5 DEF TypeOK
    <3> QED BY <2>1, <2>3, <2>4, <3>1, <3>2
  <2>6. CASE panel' = Stopped /\ start' = [start EXCEPT ![a] = "returned"]
    <3>1. /\ ~panel'.signingIn /\ ~panel'.timer
          /\ panel'.session = panel.session
      BY <2>6 DEF Stopped, TypeOK, Panel
    <3>2. \A b \in Attempt : ~Busy(b)'
      BY <2>2, <2>6 DEF TypeOK
    <3> QED BY <2>1, <2>3, <2>4, <3>1, <3>2
  <2> QED BY <1>1, <2>5, <2>6 DEF Click
<1>2. ASSUME NEW a \in Attempt, StartReturns(a) \/ StartFails(a)
      PROVE  Orderly' /\ (stored # None => stored' \in {stored, None})
  <2>1. Busy(a)
    BY <1>2 DEF StartReturns, StartFails
  <2>2. panel.signingIn /\ ~panel.timer /\ panel.session = None
    BY <2>1
  <2>3. \A p \in Poll : poll[p].tx = None
    BY <2>2
  <2>4. start' = [start EXCEPT ![a] = "returned"] /\ UNCHANGED <<poll, stored>>
    BY <1>2 DEF StartReturns, StartFails
  <2>5. \A b \in Attempt : ~Busy(b)'
    BY <2>1, <2>4 DEF TypeOK
  <2>6. panel'.session = panel.session /\ (panel'.timer => panel'.signingIn)
    BY <1>2, <2>2 DEF StartReturns, StartFails, Stopped, TypeOK, Panel
  <2> QED BY <2>2, <2>3, <2>4, <2>5, <2>6
<1>3. ASSUME NEW a \in Attempt, StartPopupAuth(a)
      PROVE  Orderly' /\ (stored # None => stored' \in {stored, None})
  <2>1. Busy(a) /\ UNCHANGED <<panel, poll, stored>>
    BY <1>3 DEF StartPopupAuth
  <2>2. \A b \in Attempt : Busy(b)' => Busy(b)
    <3>1. start' = [start EXCEPT ![a] = "created"]
          \/ start' = [start EXCEPT ![a] = "refused"]
      BY <1>3 DEF StartPopupAuth
    <3> QED BY <2>1, <3>1 DEF TypeOK
  <2> QED BY <2>1, <2>2
<1>4. ASSUME NEW p \in Poll, SendPoll(p) \/ AnswerPoll(p)
      PROVE  Orderly' /\ (stored # None => stored' \in {stored, None})
  <2>1. UNCHANGED <<panel, start, stored>>
    BY <1>4 DEF SendPoll, AnswerPoll
  <2>2. panel.timer
    BY <1>4 DEF SendPoll, AnswerPoll
  <2>3. poll'[p].tx # None
    <3>1. CASE SendPoll(p)
      BY <3>1 DEF SendPoll, NoPoll, TypeOK
    <3>2. CASE AnswerPoll(p)
      <4>1. poll'[p].tx = poll[p].tx
        <5>1. CASE poll' = [poll EXCEPT ![p] = [poll[p] EXCEPT !.answer = "error"]]
          BY <5>1 DEF TypeOK
        <5>2. ASSUME NEW row \in View(poll[p].tx),
                     poll' = [poll EXCEPT ![p] = [poll[p] EXCEPT
                       !.answer = StatusOf(row),
                       !.session = IF StatusOf(row) = "completed"
                                   THEN row.session ELSE None]]
              PROVE  poll'[p].tx = poll[p].tx
          BY <5>2 DEF TypeOK
        <5> QED BY <3>2, <5>1, <5>2, Zenon DEF AnswerPoll
      <4> QED BY <3>2, <4>1 DEF AnswerPoll
    <3> QED BY <1>4, <3>1, <3>2
  <2>4. \A q \in Poll : q # p => poll'[q] = poll[q]
    <3>1. \E new : poll' = [poll EXCEPT ![p] = new]
      BY <1>4 DEF SendPoll, AnswerPoll
    <3> QED BY <3>1 DEF TypeOK
  <2> QED BY <2>1, <2>2, <2>3, <2>4
<1>5. ASSUME NEW p \in Poll, PollReturns(p)
      PROVE  Orderly' /\ (stored # None => stored' \in {stored, None})
  <2>1. panel.timer /\ panel.signingIn /\ panel.session = None
    BY <1>5 DEF PollReturns
  <2>2. \A a \in Attempt : ~Busy(a)
    BY <2>1
  <2>3. \A q \in Poll : poll'[q].tx = None /\ poll'[q].answer = None
    <3>1. poll[p].tx # None
      BY <1>5 DEF PollReturns
    <3>2. \A q \in Poll : q # p => poll[q].tx = None /\ poll[q].answer = None
      BY <3>1 DEF Single
    <3> QED BY <1>5, <3>2 DEF PollReturns, NoPoll, TypeOK
  <2>4. start' = start
    BY <1>5 DEF PollReturns
  <2>5. CASE AcceptSession(poll[p].session)
    <3>1. /\ ~panel'.signingIn /\ ~panel'.timer /\ ~panel'.error
          /\ panel'.session = poll[p].session
      BY <2>5 DEF AcceptSession, Accepted, TypeOK, Panel
    <3>2. stored' = poll[p].session
      BY <2>5 DEF AcceptSession
    <3> QED BY <2>1, <2>2, <2>3, <2>4, <3>1, <3>2
  <2>6. CASE panel' = Stopped /\ stored' = stored
    <3>1. /\ ~panel'.signingIn /\ ~panel'.timer
          /\ panel'.session = panel.session
      BY <2>6 DEF Stopped, TypeOK, Panel
    <3> QED BY <2>1, <2>2, <2>3, <2>4, <2>6, <3>1
  <2>7. CASE UNCHANGED <<panel, stored>>
    BY <2>1, <2>2, <2>3, <2>4, <2>7
  <2> QED BY <1>5, <2>5, <2>6, <2>7 DEF PollReturns
<1>6. CASE Reload
  <2>1. /\ ~panel'.signingIn /\ ~panel'.timer /\ ~panel'.error
        /\ panel'.session = stored'
    BY <1>6 DEF Reload, Mounted
  <2>2. \A a \in Attempt : ~Busy(a)'
    BY <1>6 DEF Reload
  <2>3. \A p \in Poll : poll'[p].tx = None /\ poll'[p].answer = None
    BY <1>6 DEF Reload, NoPoll
  <2>4. stored' \in {stored, None}
    BY <1>6 DEF Reload
  <2> QED BY <2>1, <2>2, <2>3, <2>4
<1>7. CASE UNCHANGED <<panel, start, poll, stored>>
  BY <1>7
<1>8. ASSUME NEW c \in Call, Authorize(c) \/ ReloadCallback(c)
                             \/ CallStep(c) \/ CallStops(c)
      PROVE  UNCHANGED <<panel, start, poll, stored>>
  BY <1>8 DEF Authorize, ReloadCallback, CallStep, CallStops, Lookup,
              Exchange, MarkCompleted, MarkFailed
<1>9. ASSUME NEW a \in Attempt, Replicate(a) \/ Expire(a)
      PROVE  UNCHANGED <<panel, start, poll, stored>>
  BY <1>9 DEF Replicate, Expire
<1>10. ClosePopup \/ Tick \/ UNCHANGED vars
         => UNCHANGED <<panel, start, poll, stored>>
  BY DEF ClosePopup, Tick, vars
<1> QED BY <1>1, <1>2, <1>3, <1>4, <1>5, <1>6, <1>7, <1>8, <1>9, <1>10
        DEF Next, StartStep, PollStep

\* With a single place for a status request there is at most one.
LEMMA OrderlyHolds ==
  ASSUME \A p, q \in Poll : p = q
  PROVE  Spec => []Orderly
<1>1. Init => Orderly
  BY DEF Init, Orderly, Busy, Mounted, NoPoll
<1>2. TypeOK /\ Orderly /\ [Next]_vars => Orderly'
  BY OrderlyStep DEF Single
<1> QED BY <1>1, <1>2, TypeCorrect, PTL DEF Spec

\* With one place for polls nobody who is signed in is shown a sign-in error,
\* whatever users and servers do.
THEOREM ErrorsAreSignedOut ==
  ASSUME \A p, q \in Poll : p = q
  PROVE  Spec => []ErrorMeansSignedOut
<1>1. Orderly => ErrorMeansSignedOut
  BY DEF Orderly, ErrorMeansSignedOut
<1> QED BY <1>1, OrderlyHolds, PTL

\* With one place for polls no late answer replaces an accepted session.
THEOREM SessionsAreFinal ==
  ASSUME \A p, q \in Poll : p = q
  PROVE  Spec => SessionIsFinal
<1>1. TypeOK /\ Orderly /\ [Next]_vars
        => [stored # None => stored' \in {stored, None}]_stored
  BY OrderlyStep DEF Single
<1> QED BY <1>1, OrderlyHolds, TypeCorrect, PTL DEF Spec, SessionIsFinal

-----------------------------------------------------------------------------
(* Behaviours with any number of polls, one after the other or overlapping *)

\* In a behaviour whose polls do not overlap, what holds of one poll at a time.
OneByOne == ~overlapping => Orderly /\ Single

LEMMA OneByOneInitially == MCInit => OneByOne
  BY DEF MCInit, Init, OneByOne, Orderly, Single, Busy, Mounted, NoPoll

LEMMA OneByOneStep ==
  ASSUME TypeOK, OneByOne, [MCNext]_<<vars, overlapping>>
  PROVE  /\ OneByOne'
         /\ stored # None /\ ~overlapping => stored' \in {stored, None}
<1>1. CASE MCNext /\ ~overlapping
  <2>1. Next /\ OnePoll /\ UNCHANGED overlapping
    BY <1>1 DEF MCNext
  <2>2. Orderly' /\ (stored # None => stored' \in {stored, None})
    BY <1>1, <2>1, OrderlyStep DEF OneByOne
  <2>3. Single'
    BY <2>1 DEF OnePoll, Single, NoPoll
  <2> QED BY <1>1, <2>2, <2>3 DEF OneByOne
<1>2. CASE MCNext /\ overlapping
  BY <1>2 DEF MCNext, OneByOne
<1>3. CASE UNCHANGED <<vars, overlapping>>
  BY <1>3 DEF vars, OneByOne, Orderly, Single, Busy
<1> QED BY <1>1, <1>2, <1>3

LEMMA TypesOfRun == MCSpec => []TypeOK
<1>1. MCInit => Init
  BY DEF MCInit
<1>2. [MCNext]_<<vars, overlapping>> => [Next]_vars
  BY DEF MCNext
<1> QED BY <1>1, <1>2, TypeCorrect, PTL DEF MCSpec, Spec

\* Nobody who is signed in is told that signing in failed, in any behaviour
\* whose polls do not overlap, however many callback requests there are
\* (AuthGate.tsx: the interval of the effect).
THEOREM NoErrorsAfterSession == MCSpec => []NoErrorAfterSession
<1>1. TypeOK /\ OneByOne /\ [MCNext]_<<vars, overlapping>> => OneByOne'
  BY OneByOneStep
<1>2. OneByOne => NoErrorAfterSession
  BY DEF OneByOne, Orderly, NoErrorAfterSession, ErrorMeansSignedOut
<1> QED BY <1>1, <1>2, OneByOneInitially, TypesOfRun, PTL DEF MCSpec

\* An accepted session stays until it expires, in any behaviour whose polls do
\* not overlap (AuthGate.tsx: acceptSession).
THEOREM AcceptedSessionsStay == MCSpec => SessionStays
<1>1. TypeOK /\ OneByOne /\ [MCNext]_<<vars, overlapping>> => OneByOne'
  BY OneByOneStep
<1>2. TypeOK /\ OneByOne /\ [MCNext]_<<vars, overlapping>>
        => [stored # None /\ ~overlapping => stored' \in {stored, None}]_stored
  BY OneByOneStep
<1> QED BY <1>1, <1>2, OneByOneInitially, TypesOfRun, PTL DEF MCSpec, SessionStays
=============================================================================
