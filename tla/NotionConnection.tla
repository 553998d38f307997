--------------------------- MODULE NotionConnection ---------------------------
(***************************************************************************)
(* One user's connection to Notion: the row of the connections table, the  *)
(* rows of the OAuth states table, and the API requests that read, replace *)
(* and delete them - the OAuth callback, the saving of a post idea with    *)
(* its token refreshes, the change of settings, the disconnection.         *)
(*                                                                         *)
(* Every write of the connection is a put of a whole item that was read    *)
(* some requests earlier, and nothing makes two API requests of one user   *)
(* wait for each other.  Notion may give a new refresh token with a        *)
(* refresh, and from then on it honours no other.                          *)
(***************************************************************************)
EXTENDS Naturals

CONSTANTS
  Request,  \* API requests
  Grant,    \* authorizations: a connect, its state, its code, its tokens
  None,     \* no record, no token
  Faults,   \* what may go wrong: see FaultKinds
  Kinds,    \* the kinds of request that are made
  Alone,    \* kinds of request under way only when no other request is
  Rotation, \* does Notion rotate refresh tokens: {TRUE}, {FALSE}, or at will
  Defaults  \* number of default targets in the configuration

Kind == {"callback", "save", "settings", "disconnect"}

\* A request to Notion fails before or after it took effect; a request to the
\* tables or for the encryption key rejects; the API process stops; an
\* eventually consistent read returns an earlier item; the user takes longer
\* at Notion than a state lives.
FaultKinds == {"notion", "lost", "store", "crash", "stale", "late"}

\* Parents a page may get: at most a data source and a page.
Targets == 0 .. 2

ASSUME ConstantsAssumption ==
  /\ Faults \subseteq FaultKinds
  /\ Kinds \subseteq Kind
  /\ Alone \subseteq Kind
  /\ Rotation \subseteq BOOLEAN
  /\ Defaults \in Targets

VARIABLES
  row,      \* the item of the connections table, or None
  replica,  \* the item that a lagging read may return
  oauth,    \* per authorization: its item in the states table
  kind,     \* per request: what it was asked to do
  pc,       \* per request: the request to a service it makes next
  local,    \* per request: its local variables
  answer,   \* per request: how it was answered
  idea,     \* per save: the parents it has, the pages it created in Notion
  issued,   \* number of the last token Notion issued
  newest,   \* per authorization: the refresh token Notion honours
  spent,    \* authorizations whose code was exchanged
  revoked,  \* authorizations the user withdrew in Notion
  aged,     \* tokens up to this one expire within 30 s, or have expired
  hurt      \* authorizations a fault interfered with

tables == <<row, replica, oauth>>
request == <<kind, pc, local, answer, idea>>
notion == <<issued, newest, spent, revoked, aged>>
vars == <<tables, request, notion, hurt>>

-----------------------------------------------------------------------------
(* Values.  Tokens are numbered in the order in which Notion issues them.  *)
(* An access token and the refresh token that came with it have the same   *)
(* number; "expires" is the token whose lifetime expiresAt tells.          *)

Token == Nat
Connection == [grant : Grant, access : Token, refresh : Token \cup {None},
               expires : Token \cup {None}, targets : Targets,
               status : {"connected", "refresh_failed"}]
Error == {"invalid_token", "unauthorized", "other"}

ASSUME NoneAssumption ==
  /\ None \notin Grant /\ None \notin Token /\ None \notin Connection
  /\ None \notin Kind /\ None \notin Error /\ None \notin {"ok", "error"}

Pc == {"idle", "lookup", "exchange", "read", "refresh", "store", "giveUp",
       "create", "mark", "cleanup", "delete", "done"}

\* grant: the authorization a callback is about.  conn: the connection a save
\* began with.  rec: the one it uses or refreshes.  new: the one to be put.
\* again: has the save gone back for a refreshed connection?  todo: parents
\* left to try.  error: the last error.
Local == [grant : Grant \cup {None}, conn : Connection \cup {None},
          rec : Connection \cup {None}, new : Connection \cup {None},
          again : BOOLEAN, todo : Targets, error : Error \cup {None}]

TypeOK ==
  /\ row \in Connection \cup {None}
  /\ replica \in Connection \cup {None}
  /\ oauth \in [Grant -> {"none", "valid", "expired", "deleted"}]
  /\ kind \in [Request -> Kind \cup {None}]
  /\ pc \in [Request -> Pc]
  /\ local \in [Request -> Local]
  /\ answer \in [Request -> {"ok", "error", None}]
  /\ idea \in [Request -> [parents : Targets, pages : Nat]]
  /\ issued \in Token
  /\ newest \in [Grant -> Token \cup {None}]
  /\ spent \subseteq Grant
  /\ revoked \subseteq Grant
  /\ aged \in Token
  /\ hurt \subseteq Grant

NoLocal == [grant |-> None, conn |-> None, rec |-> None, new |-> None,
            again |-> FALSE, todo |-> 0, error |-> None]

Init ==
  /\ row = None
  /\ replica = None
  /\ oauth = [g \in Grant |-> "none"]
  /\ kind = [r \in Request |-> None]
  /\ pc = [r \in Request |-> "idle"]
  /\ local = [r \in Request |-> NoLocal]
  /\ answer = [r \in Request |-> None]
  /\ idea = [r \in Request |-> [parents |-> 0, pages |-> 0]]
  /\ issued = 0
  /\ newest = [g \in Grant |-> None]
  /\ spent = {}
  /\ revoked = {}
  /\ aged = 0
  /\ hurt = {}

Active(r) == pc[r] \notin {"idle", "done"}

Put(record) ==
  /\ row' = record
  /\ replica' = IF "stale" \in Faults THEN replica ELSE record

Goto(r, label, locals) ==
  /\ pc' = [pc EXCEPT ![r] = label]
  /\ local' = [local EXCEPT ![r] = locals]
  /\ UNCHANGED answer

Finish(r, how) ==
  /\ pc' = [pc EXCEPT ![r] = "done"]
  /\ local' = [local EXCEPT ![r] = NoLocal]
  /\ answer' = [answer EXCEPT ![r] = how]

-----------------------------------------------------------------------------
(* What the code makes of a connection. *)

\* Mutant: the refresh token is not saved.
ConnectedWithoutRefresh(g, token, refresh, expires) ==
  [grant |-> g, access |-> token, refresh |-> None, expires |-> expires,
   targets |-> Defaults, status |-> "connected"]

\* handleCallback: the connection of a new authorization.
Connected(g, token, refresh, expires) ==
  [grant |-> g, access |-> token, refresh |-> refresh, expires |-> expires,
   targets |-> Defaults, status |-> "connected"]

\* Mutant: the rotated refresh token is not saved.
RenewedAccessOnly(record, token, rotates, timed) ==
  [record EXCEPT !.access = token, !.status = "connected",
                 !.expires = IF timed THEN token ELSE @]

\* getConnectionForUse: the connection after a refresh.
Renewed(record, token, rotates, timed) ==
  [record EXCEPT !.access = token,
                 !.refresh = IF rotates THEN token ELSE @,
                 !.expires = IF timed THEN token ELSE @,
                 !.status = "connected"]

Failed(record) == [record EXCEPT !.status = "refresh_failed"]

Usable(record) == record # None /\ record.status = "connected"

Due(record) == record.expires # None /\ record.expires <= aged

\* Mutant: tries again after any error.
RetriesAll(e) == e \in Error

\* createPostIdea: the errors after which it refreshes and tries again.
Retries(e) == e \in {"invalid_token", "unauthorized"}

-----------------------------------------------------------------------------
(* The user and the browser. *)

\* buildAuthorizationUrl saves a state.
Connect(g) ==
  /\ oauth[g] = "none"
  /\ oauth' = [oauth EXCEPT ![g] = "valid"]
  /\ UNCHANGED <<row, replica, request, notion, hurt>>

Lets(k) ==
  \A q \in Request : Active(q) => k \notin Alone /\ kind[q] \notin Alone

Begin(r, k, label, locals) ==
  /\ pc[r] = "idle"
  /\ k \in Kinds
  /\ Lets(k)
  /\ kind' = [kind EXCEPT ![r] = k]
  /\ Goto(r, label, locals)
  /\ UNCHANGED <<tables, idea, notion, hurt>>

\* The browser may repeat a callback.
BeginCallback(r, g) ==
  /\ oauth[g] # "none"
  /\ Begin(r, "callback", "lookup", [NoLocal EXCEPT !.grant = g])

BeginOther(r) ==
  \/ Begin(r, "save", "read", NoLocal)
  \/ Begin(r, "settings", "read", NoLocal)
  \/ Begin(r, "disconnect", "delete", NoLocal)

Revoke(g) ==
  /\ g \in spent \ revoked
  /\ revoked' = revoked \cup {g}
  /\ UNCHANGED <<tables, request, issued, newest, spent, aged, hurt>>

-----------------------------------------------------------------------------
(* The callback. *)

\* What a read of the state of g may find; the table deletes expired items
\* some time later.
Seen(g) == IF oauth[g] = "expired" THEN {"expired", "deleted"}
           ELSE IF "stale" \in Faults THEN {"valid", "deleted"}
           ELSE {oauth[g]}

Lookup(r) ==
  LET found == Seen(local[r].grant) IN
  /\ pc[r] = "lookup"
  /\ \/ "valid" \in found /\ Goto(r, "exchange", local[r])
     \/ "expired" \in found
          /\ Goto(r, "cleanup", [local[r] EXCEPT !.error = "other"])
     \/ "deleted" \in found /\ Finish(r, "error")
  /\ UNCHANGED <<tables, kind, idea, notion, hurt>>

\* Notion takes a code once; a refresh token and expires_in are optional.
Issue(g, refresh) ==
  /\ g \notin spent
  /\ spent' = spent \cup {g}
  /\ issued' = issued + 1
  /\ newest' = [newest EXCEPT ![g] = refresh]
  /\ UNCHANGED <<revoked, aged>>

Exchange(r) ==
  LET g == local[r].grant IN
  /\ pc[r] = "exchange"
  /\ \E refresh, expires \in {issued + 1, None} :
       /\ Issue(g, refresh)
       /\ Goto(r, "store",
               [local[r] EXCEPT
                  !.new = Connected(g, issued + 1, refresh, expires)])
  /\ UNCHANGED <<tables, kind, idea, hurt>>

ExchangeFails(r) ==
  LET g == local[r].grant IN
  /\ pc[r] = "exchange"
  /\ \/ g \in spent /\ UNCHANGED notion
     \/ "notion" \in Faults /\ UNCHANGED notion
     \/ /\ "lost" \in Faults
        /\ \E refresh \in {issued + 1, None} : Issue(g, refresh)
  /\ Goto(r, "cleanup", [local[r] EXCEPT !.error = "other"])
  /\ UNCHANGED <<tables, kind, idea, hurt>>

\* The state is deleted whatever came before, and if that fails it is logged.
Cleanup(r) ==
  /\ pc[r] = "cleanup"
  /\ \/ oauth' = [oauth EXCEPT ![local[r].grant] = "deleted"]
     \/ "store" \in Faults /\ UNCHANGED oauth
  /\ Finish(r, IF local[r].error = None THEN "ok" ELSE "error")
  /\ UNCHANGED <<row, replica, kind, idea, notion, hurt>>

-----------------------------------------------------------------------------
(* Putting a connection. *)

\* getConnectionForUse has a connection for the save, which takes the parents
\* of its pages from the first one it gets.
Uses(r, record) ==
  LET first == IF local[r].again THEN local[r].conn ELSE record IN
  /\ idea' = [idea EXCEPT ![r].parents = first.targets]
  /\ IF first.targets = 0
     THEN Finish(r, "error")
     ELSE Goto(r, "create", [local[r] EXCEPT !.rec = record, !.conn = first,
                                             !.todo = first.targets])

Store(r) ==
  /\ pc[r] = "store"
  /\ Put(local[r].new)
  /\ \/ kind[r] = "save" /\ Uses(r, local[r].new)
     \/ kind[r] = "settings" /\ Finish(r, "ok") /\ UNCHANGED idea
     \/ kind[r] = "callback" /\ Goto(r, "cleanup", local[r]) /\ UNCHANGED idea
  /\ UNCHANGED <<oauth, kind, notion, hurt>>

StoreFails(r) ==
  LET failed == [local[r] EXCEPT !.error = "other"] IN
  /\ "store" \in Faults
  /\ pc[r] = "store"
  /\ \/ /\ kind[r] = "save"
        /\ Goto(r, "giveUp", failed)
        /\ hurt' = hurt \cup {local[r].rec.grant}
     \/ kind[r] = "settings" /\ Finish(r, "error") /\ UNCHANGED hurt
     \/ kind[r] = "callback" /\ Goto(r, "cleanup", failed) /\ UNCHANGED hurt
  /\ UNCHANGED <<tables, kind, idea, notion>>

-----------------------------------------------------------------------------
(* Saving an idea: the connection and its refresh. *)

Refreshes(r, record) ==
  local[r].again \/ Due(record)

ReadConnection(r) ==
  /\ pc[r] = "read"
  /\ kind[r] = "save"
  /\ \E found \in {row, replica} :
       \/ /\ ~Usable(found)
          /\ Finish(r, "error")
          /\ UNCHANGED idea
       \/ /\ Usable(found)
          /\ ~Refreshes(r, found)
          /\ Uses(r, found)
       \/ /\ Usable(found)
          /\ Refreshes(r, found)
          /\ found.refresh # None
          /\ Goto(r, "refresh", [local[r] EXCEPT !.rec = found])
          /\ UNCHANGED idea
       \/ /\ Usable(found)
          /\ Refreshes(r, found)
          /\ found.refresh = None
          /\ Goto(r, "giveUp",
                  [local[r] EXCEPT !.rec = found, !.error = "other"])
          /\ UNCHANGED idea
  /\ UNCHANGED <<tables, kind, notion, hurt>>

Honours(record) ==
  newest[record.grant] = record.refresh /\ record.grant \notin revoked

Refresh(g, rotates) ==
  /\ issued' = issued + 1
  /\ newest' = IF rotates THEN [newest EXCEPT ![g] = issued + 1] ELSE newest
  /\ UNCHANGED <<spent, revoked, aged>>

RefreshToken(r) ==
  LET record == local[r].rec IN
  /\ pc[r] = "refresh"
  /\ Honours(record)
  /\ \E rotates \in Rotation, timed \in BOOLEAN :
       /\ Refresh(record.grant, rotates)
       /\ Goto(r, "store",
               [local[r] EXCEPT
                  !.new = Renewed(record, issued + 1, rotates, timed)])
  /\ UNCHANGED <<tables, kind, idea, hurt>>

RefreshFails(r) ==
  LET record == local[r].rec IN
  /\ pc[r] = "refresh"
  /\ \/ ~Honours(record) /\ UNCHANGED <<notion, hurt>>
     \/ /\ "notion" \in Faults
        /\ hurt' = hurt \cup {record.grant}
        /\ UNCHANGED notion
     \/ /\ "lost" \in Faults
        /\ Honours(record)
        /\ \E rotates \in Rotation : Refresh(record.grant, rotates)
        /\ hurt' = hurt \cup {record.grant}
  /\ \E e \in {"invalid_token", "other"} :
       Goto(r, "giveUp", [local[r] EXCEPT !.error = e])
  /\ UNCHANGED <<tables, kind, idea>>

\* An error of getConnectionForUse leaves createPostIdea, which puts the
\* connection it began with once more if the second refresh was refused as
\* an invalid token.
Rethrows(r, e) ==
  IF local[r].again /\ e = "invalid_token"
  THEN Goto(r, "mark", local[r])
  ELSE Finish(r, "error")

GiveUp(r) ==
  /\ pc[r] = "giveUp"
  /\ \/ Put(Failed(local[r].rec)) /\ Rethrows(r, local[r].error)
     \/ "store" \in Faults /\ Finish(r, "error") /\ UNCHANGED <<row, replica>>
  /\ UNCHANGED <<oauth, kind, idea, notion, hurt>>

-----------------------------------------------------------------------------
(* Saving an idea: the page. *)

Revoked(r) == local[r].rec.grant \in revoked

\* A token within 30 s of its end may have expired.
MayRefuse(r) == Revoked(r) \/ local[r].rec.access <= aged

CreatePage(r) ==
  /\ pc[r] = "create"
  /\ ~Revoked(r)
  /\ idea' = [idea EXCEPT ![r].pages = @ + 1]
  /\ Finish(r, "ok")
  /\ UNCHANGED <<tables, kind, notion, hurt>>

\* The last error of the parents, or of the connection to the MCP server.
PageFails(r, e) ==
  IF Retries(e) /\ ~local[r].again
  THEN Goto(r, "read", [local[r] EXCEPT !.again = TRUE])
  ELSE Rethrows(r, e)

Says(r, e) == e = "invalid_token" => MayRefuse(r)

\* One parent fails; if the reply was lost, the page exists.
ParentFails(r) ==
  /\ pc[r] = "create"
  /\ \E e \in Error :
       /\ Says(r, e)
       /\ \/ UNCHANGED idea
          \/ /\ "lost" \in Faults
             /\ e = "other"
             /\ ~Revoked(r)
             /\ idea' = [idea EXCEPT ![r].pages = @ + 1]
       /\ IF local[r].todo > 1
          THEN Goto(r, "create", [local[r] EXCEPT !.todo = @ - 1])
          ELSE PageFails(r, e)
  /\ UNCHANGED <<tables, kind, notion, hurt>>

\* The MCP server refuses the connection, or the tool is not allowed.
ServerFails(r) ==
  /\ pc[r] = "create"
  /\ local[r].todo = idea[r].parents
  /\ \E e \in Error : Says(r, e) /\ PageFails(r, e)
  /\ UNCHANGED <<tables, kind, idea, notion, hurt>>

\* The connection the save began with, whatever the second refresh stored.
Mark(r) ==
  /\ pc[r] = "mark"
  /\ Put(Failed(local[r].conn))
  /\ Finish(r, "error")
  /\ UNCHANGED <<oauth, kind, idea, notion, hurt>>

-----------------------------------------------------------------------------
(* Settings and disconnection. *)

\* Mutant: the settings are written whether or not there is a connection.
ReadSettingsUpserts(r) ==
  /\ pc[r] = "read"
  /\ kind[r] = "settings"
  /\ \E t \in Targets, g \in Grant :
       Goto(r, "store",
            [local[r] EXCEPT !.new =
               [(IF row = None THEN Connected(g, 0, None, None) ELSE row)
                  EXCEPT !.targets = t]])
  /\ UNCHANGED <<tables, kind, idea, notion, hurt>>

ReadSettings(r) ==
  /\ pc[r] = "read"
  /\ kind[r] = "settings"
  /\ \E found \in {row, replica} :
       \/ found = None /\ Finish(r, "error")
       \/ /\ found # None
          /\ \E t \in Targets :
               Goto(r, "store",
                    [local[r] EXCEPT !.new = [found EXCEPT !.targets = t]])
  /\ UNCHANGED <<tables, kind, idea, notion, hurt>>

Disconnect(r) ==
  /\ pc[r] = "delete"
  /\ Put(None)
  /\ Finish(r, "ok")
  /\ UNCHANGED <<oauth, kind, idea, notion, hurt>>

-----------------------------------------------------------------------------
(* Faults and time. *)

\* A request to the tables or for the key fails outside of the code's
\* try blocks.
RequestFails(r) ==
  /\ "store" \in Faults
  /\ pc[r] \in {"lookup", "read", "refresh", "mark", "delete"}
  /\ Finish(r, "error")
  /\ UNCHANGED <<tables, kind, idea, notion, hurt>>

Stop(r) ==
  LET record == local[r].rec IN
  /\ "crash" \in Faults
  /\ Active(r)
  /\ Finish(r, None)
  /\ hurt' = hurt \cup IF record = None THEN {} ELSE {record.grant}
  /\ UNCHANGED <<tables, kind, idea, notion>>

\* The time to live of a state runs out.
ExpireState(g) ==
  /\ "late" \in Faults
  /\ oauth[g] = "valid"
  /\ oauth' = [oauth EXCEPT ![g] = "expired"]
  /\ UNCHANGED <<row, replica, request, notion, hurt>>

Replicate ==
  /\ replica # row
  /\ replica' = row
  /\ UNCHANGED <<row, oauth, request, notion, hurt>>

\* A token outlives the request that has just received it.
Age ==
  /\ aged < issued
  /\ \A r \in Request :
       local[r].new # None => local[r].new.access > aged + 1
  /\ aged' = aged + 1
  /\ UNCHANGED <<tables, request, issued, newest, spent, revoked, hurt>>

Step(r) ==
  \/ Lookup(r) \/ Exchange(r) \/ ExchangeFails(r) \/ Cleanup(r)
  \/ Store(r) \/ StoreFails(r)
  \/ ReadConnection(r) \/ RefreshToken(r) \/ RefreshFails(r) \/ GiveUp(r)
  \/ CreatePage(r) \/ ParentFails(r) \/ ServerFails(r) \/ Mark(r)
  \/ ReadSettings(r) \/ Disconnect(r) \/ RequestFails(r) \/ Stop(r)

Next ==
  \/ \E g \in Grant : Connect(g) \/ Revoke(g) \/ ExpireState(g)
  \/ \E r \in Request :
       \/ \E g \in Grant : BeginCallback(r, g)
       \/ BeginOther(r)
       \/ Step(r)
  \/ Replicate \/ Age

Spec == Init /\ [][Next]_vars

-----------------------------------------------------------------------------
(* Properties. *)

\* A save that has read the tokens of g and is about to write them.
Refreshing(g) ==
  \E r \in Request :
    /\ kind[r] = "save"
    /\ pc[r] \in {"store", "giveUp"}
    /\ local[r].rec.grant = g

\* No overlap of saves, callbacks and disconnections loses a rotated refresh
\* token: a connection that is shown as connected holds the refresh token
\* Notion honours, unless a save is about to write the newer one or to give
\* the connection up.
NewestTokenKept ==
  Usable(row) =>
    \/ row.refresh = newest[row.grant]
    \/ Refreshing(row.grant)

\* One idea is one page.  Only a reply that was lost makes the code try the
\* next parent, or all of them again after a refresh, though the page exists;
\* with a single parent even that leaves one page.  An idea that is answered
\* as saved has its page, one that is answered as failed has none.
OneIdeaOnePage ==
  \A r \in Request :
    LET made == idea[r].pages IN
    /\ made > 1 => "lost" \in Faults /\ made <= 2 * idea[r].parents - 1
    /\ kind[r] = "save" /\ answer[r] = "ok" => made > 0
    /\ answer[r] = "error" /\ "lost" \notin Faults => made = 0

\* While saves do not overlap other requests, the user is sent back to the
\* connect button only if Notion itself no longer accepts the connection, gave
\* no refresh token for it, or a fault got in the way of its refresh.
NoNeedlessReconnect ==
  row # None /\ row.status = "refresh_failed" =>
    \/ row.grant \in revoked \cup hurt
    \/ newest[row.grant] = None

\* The step gives the user a connection only if it is the callback's.
ConnectsByCallback ==
  row' # None /\ (row = None \/ row'.grant # row.grant) =>
    \E r \in Request :
      kind[r] = "callback" /\ pc[r] = "store" /\ pc'[r] = "cleanup"

\* While connecting and disconnecting do not overlap other requests, only the
\* callback makes a connection: nothing brings back the one that the user
\* ended, or the one that another has replaced.
OnlyCallbackConnects == [][ConnectsByCallback]_vars
=============================================================================
