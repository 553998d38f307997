---------------------------- MODULE NotionPanel ----------------------------
(***************************************************************************)
(* How the chat panel connects Notion, and what it shows of it.  A click   *)
(* opens a window of a fixed name, asks the API for Notion's address and   *)
(* sends the window there; an interval watches the window, and the page    *)
(* the callback answers posts a message and closes the window.  The status *)
(* is read when the panel may ask, when a window is over and when the      *)
(* panel gets the focus: readings overlap, and the last answer is shown.   *)
(*                                                                         *)
(* The connection is the one NotionConnection describes, seen from here:   *)
(* it is there or not, a callback makes it and others may end it.          *)
(***************************************************************************)
EXTENDS Naturals, Sequences, SequencesExt

CONSTANTS
  Sites,       \* how the extension may be deployed: see Site
  Faults,      \* what may go wrong: see FaultKinds
  MaxClicks,   \* bound on the attempts to connect
  MaxReadings  \* bound on the readings under way when the panel gets the focus

\* "auth": only who is signed in may ask.  "together": the callback's page has
\* the panel's origin.  "alone": what Notion shows severs the window from its
\* opener, so the page has none.
Site == SUBSET {"auth", "together", "alone"}

\* The browser blocks the window; the API does not start the connection; Notion
\* or the callback refuses; a reading fails or lags behind the connection.
FaultKinds == {"blocked", "start", "refused", "read"}

VARIABLES
  site,        \* the deployment
  signedIn,    \* does the panel have a session token?
  shown,       \* the status that is shown, "unknown" before the first answer
  connecting,  \* isNotionConnecting
  clicks,      \* the attempts so far
  starts,      \* the attempts that wait for Notion's address, with their windows
  window,      \* the window of the fixed name
  watched,     \* notionPopupRef: the window that is watched, or 0
  polling,     \* notionPopupPollerRef: is there an interval?
  posted,      \* the messages the panel has not handled yet
  callbacks,   \* the attempts whose callback is on its way to the API
  readings,    \* the readings of the status under way, in the order they began
  connection,  \* what the connection is: see Connection
  doubtful     \* is what is shown a failure, a refusal, or after a later answer?

vars == <<site, signedIn, shown, connecting, clicks, starts, window, watched,
          polling, posted, callbacks, readings, connection, doubtful>>

popup == <<starts, window, watched, polling>>
api == <<callbacks, connection>>
status == <<shown, readings, doubtful>>

-----------------------------------------------------------------------------
(* Values *)

Click == 1..MaxClicks

\* A window is blank, at Notion, waits for the callback, shows its page or the
\* panel's own address.  One that is closed keeps the click that opened it.
Window == [id : 0..MaxClicks, for : 0..MaxClicks,
           at : {"blank", "notion", "callback", "page", "panel", "closed"}]

\* There or not, and made by a window that saw its callback end?
Connection == [there : BOOLEAN, seen : BOOLEAN]

Answer == {"connected", "disconnected", "failed"}

Reading == [token : BOOLEAN, answer : Answer \cup {"none"}, late : BOOLEAN]

TypeOK ==
  /\ site \in Sites
  /\ signedIn \in BOOLEAN
  /\ shown \in {"unknown", "connected", "disconnected"}
  /\ connecting \in BOOLEAN
  /\ clicks \in 0..MaxClicks
  /\ starts \subseteq [click : Click, window : Click]
  /\ window \in Window
  /\ watched \in 0..MaxClicks
  /\ polling \in BOOLEAN
  /\ posted \in 0..MaxClicks
  /\ callbacks \subseteq Click
  /\ readings \in Seq(Reading)
  /\ connection \in Connection
  /\ doubtful \in BOOLEAN

Open(id) == id # 0 /\ window.id = id /\ window.at # "closed"

\* A request with or without a token: authenticateRequest.
Accepts(token) == token \/ "auth" \notin site

\* The session is read after the panel is mounted, so what is made once when it
\* is mounted has no token.
MountToken == FALSE

-----------------------------------------------------------------------------
(* The status: refreshNotionStatus *)

Begun(token) == [token |-> token, answer |-> "none", late |-> FALSE]

Read(token) == readings' = Append(readings, Begun(token))

\* A request is denied, or finds the connection there or not; or it fails.
AnswersTo(token) ==
  {IF Accepts(token) /\ connection.there THEN "connected" ELSE "disconnected"}
  \cup (IF "read" \in Faults THEN {"failed"} ELSE {})

Serve(i) ==
  /\ readings[i].answer = "none"
  /\ \E answer \in AnswersTo(readings[i].token) :
       readings' = [readings EXCEPT ![i].answer = answer]
  /\ UNCHANGED <<site, signedIn, shown, connecting, clicks, popup, posted, api, doubtful>>

\* An answer is shown, whichever began before or after it; a failure is shown as
\* disconnected.
Show(i) ==
  /\ readings[i].answer # "none"
  /\ shown' = IF readings[i].answer = "connected" THEN "connected" ELSE "disconnected"
  /\ doubtful' = (\/ readings[i].late \/ readings[i].answer = "failed"
                  \/ ~Accepts(readings[i].token))
  /\ readings' = RemoveAt([j \in DOMAIN readings |->
                             [readings[j] EXCEPT !.late = @ \/ j < i]], i)
  /\ UNCHANGED <<site, signedIn, connecting, clicks, popup, posted, api>>

\* The session is there, stored or of a new sign-in: the effect on authToken.
SignIn ==
  /\ "auth" \in site /\ ~signedIn
  /\ signedIn' = TRUE
  /\ Read(TRUE)
  /\ UNCHANGED <<site, shown, connecting, clicks, popup, posted, api, doubtful>>

Focus ==
  /\ Len(readings) < MaxReadings
  /\ signedIn \/ "auth" \notin site
  /\ Read(signedIn)
  /\ UNCHANGED <<site, signedIn, shown, connecting, clicks, popup, posted, api, doubtful>>

-----------------------------------------------------------------------------
(* An attempt: handleConnectNotion *)

\* notionActionDisabled, and the lock of who is not signed in.
MayConnect ==
  /\ clicks < MaxClicks
  /\ ~connecting /\ shown # "connected"
  /\ signedIn \/ "auth" \notin site

\* window.open: a window of that name that is open is used again.
OpenWindow(c) ==
  window' = [id |-> IF window.at = "closed" THEN c ELSE window.id, for |-> c,
             at |-> "blank"]

Connect ==
  /\ MayConnect
  /\ clicks' = clicks + 1
  /\ OpenWindow(clicks + 1)
  /\ connecting' = TRUE
  /\ watched' = window'.id
  /\ starts' = starts \cup {[click |-> clicks + 1, window |-> window'.id]}
  /\ UNCHANGED <<site, signedIn, polling, posted, api, status>>

\* Mutant: the attempt that failed stays under way.
GiveUpQuietly ==
  /\ window' = IF Open(watched) THEN [window EXCEPT !.at = "closed"] ELSE window
  /\ watched' = 0
  /\ polling' = FALSE
  /\ UNCHANGED connecting

\* The catch block: it closes the window that is watched, whosever it is.
GiveUp ==
  /\ window' = IF Open(watched) THEN [window EXCEPT !.at = "closed"] ELSE window
  /\ watched' = 0
  /\ polling' = FALSE
  /\ connecting' = FALSE

ConnectBlocked ==
  /\ "blocked" \in Faults
  /\ MayConnect
  /\ clicks' = clicks + 1
  /\ GiveUp
  /\ UNCHANGED <<site, signedIn, starts, posted, api, status>>

StartFails(s) ==
  /\ "start" \in Faults
  /\ starts' = starts \ {s}
  /\ GiveUp
  /\ UNCHANGED <<site, signedIn, clicks, posted, api, status>>

\* The window goes to Notion, if it is still open, and is watched from now on:
\* the interval looks at the window of the latest click, or at none.
StartReturns(s) ==
  /\ starts' = starts \ {s}
  /\ window' = IF Open(s.window) THEN [window EXCEPT !.at = "notion", !.for = s.click]
               ELSE window
  /\ polling' = TRUE
  /\ UNCHANGED <<site, signedIn, connecting, clicks, watched, posted, api, status>>

\* The window is closed, or back at the panel's own address.
Over == ~Open(watched) \/ window.at = "panel"

EndWatch ==
  /\ watched' = 0
  /\ polling' = FALSE
  /\ connecting' = FALSE

\* Mutant: the message will have the status read.
TickSilently ==
  /\ polling /\ watched # 0
  /\ Over
  /\ EndWatch
  /\ window' = IF window.at = "panel" THEN [window EXCEPT !.at = "closed"] ELSE window
  /\ UNCHANGED <<site, signedIn, clicks, starts, posted, api, status>>

\* The interval finds the window over.
Tick ==
  /\ polling /\ watched # 0
  /\ Over
  /\ EndWatch
  /\ window' = IF window.at = "panel" THEN [window EXCEPT !.at = "closed"] ELSE window
  /\ Read(signedIn)
  /\ UNCHANGED <<site, signedIn, shown, clicks, starts, posted, api, doubtful>>

\* handleNotionCompleteMessage, attached when the panel was mounted: whatever
\* the panel watches by now, it is told that a window is over.
MessageArrives ==
  /\ posted > 0
  /\ posted' = posted - 1
  /\ EndWatch
  /\ Read(MountToken)
  /\ UNCHANGED <<site, signedIn, shown, clicks, starts, window, api, doubtful>>

-----------------------------------------------------------------------------
(* The window *)

\* The user agrees or declines at Notion, and is sent to the callback.
Agree ==
  /\ window.at = "notion"
  /\ window' = [window EXCEPT !.at = "callback"]
  /\ callbacks' = callbacks \cup {window.for}
  /\ UNCHANGED <<site, signedIn, connecting, clicks, starts, watched, polling, posted,
                 connection, status>>

\* Anywhere, the callback on its way or not.
CloseWindow ==
  /\ window.at # "closed"
  /\ window' = [window EXCEPT !.at = "closed"]
  /\ UNCHANGED <<site, signedIn, connecting, clicks, starts, watched, polling, posted,
                 api, status>>

\* The callback's page tells its opener, if that has its origin, and closes;
\* without an opener it goes to the panel's address, or after an error to "/".
RunPage(ok) ==
  \/ /\ "alone" \notin site
     /\ window' = [window EXCEPT !.at = "closed"]
     /\ posted' = IF "together" \in site THEN posted + 1 ELSE posted
  \/ /\ "alone" \in site
     /\ window' = [window EXCEPT !.at = IF ok \/ "together" \in site THEN "panel" ELSE "page"]
     /\ UNCHANGED posted

\* The API handles the callback, though its window may be closed or elsewhere.
CallbackReturns(c, ok) ==
  /\ ok \/ "refused" \in Faults
  /\ callbacks' = callbacks \ {c}
  /\ LET here == window.at = "callback" /\ window.for = c IN
     /\ connection' = IF ok THEN [there |-> TRUE,
                                  seen |-> here \/ (connection.there /\ connection.seen)]
                      ELSE connection
     /\ IF here THEN RunPage(ok) ELSE UNCHANGED <<window, posted>>
  /\ UNCHANGED <<site, signedIn, connecting, clicks, starts, watched, polling, status>>

\* A disconnection, or a save that cannot refresh its token.
Disconnect ==
  /\ connection.there
  /\ connection' = [there |-> FALSE, seen |-> FALSE]
  /\ UNCHANGED <<site, signedIn, shown, connecting, clicks, popup, posted, callbacks,
                 readings, doubtful>>

-----------------------------------------------------------------------------

\* Where no one signs in, the effect on authToken reads the status at once.
Init ==
  /\ site \in Sites
  /\ signedIn = FALSE
  /\ shown = "unknown"
  /\ connecting = FALSE
  /\ clicks = 0
  /\ starts = {}
  /\ window = [id |-> 0, for |-> 0, at |-> "closed"]
  /\ watched = 0
  /\ polling = FALSE
  /\ posted = 0
  /\ callbacks = {}
  /\ readings = IF "auth" \in site THEN <<>> ELSE <<Begun(MountToken)>>
  /\ connection \in [there : BOOLEAN, seen : {FALSE}]
  /\ doubtful = FALSE

Answered == \E i \in DOMAIN readings : Serve(i) \/ Show(i)
Started == \E s \in starts : StartReturns(s) \/ StartFails(s)
Returned == \E c \in callbacks, ok \in BOOLEAN : CallbackReturns(c, ok)

User == SignIn \/ Focus \/ Connect \/ ConnectBlocked \/ Agree \/ CloseWindow

Next == Answered \/ Started \/ Tick \/ MessageArrives \/ Returned \/ User \/ Disconnect

Spec == Init /\ [][Next]_vars

-----------------------------------------------------------------------------
(* Properties *)

\* Nothing is under way that would have the status read or shown.
Quiet == readings = <<>> /\ posted = 0 /\ ~connecting

\* A connection that a window of the panel saw made is shown, unless the reading
\* that is shown failed, was denied or overtook a later one: no attempt, message
\* or interval that ends another's leaves it unseen.  The reading of a message is
\* denied wherever users sign in (ChatPanel.tsx: handleConnectNotion,
\* handleNotionCompleteMessage).
ConnectedIsShown ==
  Quiet /\ connection.there /\ connection.seen /\ ~doubtful => shown = "connected"

\* An attempt that is shown as under way has something that will end it: it
\* waits for its address, or the interval watches the window there is; neither an
\* address that comes late nor the end of another attempt takes that away
\* (ChatPanel.tsx: handleConnectNotion).
AttemptIsWatched ==
  connecting =>
    /\ watched # 0 /\ watched = window.id
    /\ polling \/ \E s \in starts : s.click = clicks
=============================================================================
