----------------------- MODULE NotionConnectionProofs -----------------------
(***************************************************************************)
(* Proofs about NotionConnection, for any number of requests and           *)
(* authorizations.                                                         *)
(***************************************************************************)
EXTENDS NotionConnection, TLAPS

-----------------------------------------------------------------------------
(* Requests *)

\* What a request of kind k has in hand at the step named label.
WellAt(k, label, l) ==
  /\ label \in {"lookup", "exchange", "cleanup"} => k = "callback"
  /\ label \in {"refresh", "giveUp", "create", "mark"} => k = "save"
  /\ label = "delete" => k = "disconnect"
  /\ k = "callback" /\ label \notin {"idle", "done"} => l.grant \in Grant
  /\ label = "store" => l.new # None
  /\ label \in {"refresh", "giveUp", "create"} => l.rec # None
  /\ label = "store" /\ k = "save" => l.rec # None
  /\ label \in {"create", "mark"} \/ l.again => l.conn # None
  /\ label = "create" => l.todo > 0
  /\ label = "refresh" => l.rec.refresh # None
  /\ label = "idle" => l = NoLocal

Well(r) == WellAt(kind[r], pc[r], local[r])

TypeInv == TypeOK /\ \A r \in Request : Well(r)

\* The part of it that is about requests.
RequestInv ==
  /\ kind \in [Request -> Kind \cup {None}]
  /\ pc \in [Request -> Pc]
  /\ local \in [Request -> Local]
  /\ answer \in [Request -> {"ok", "error", None}]
  /\ \A r \in Request : Well(r)

\* A request that goes on changes nothing of another one.
LEMMA GotoFacts ==
  ASSUME TypeOK, NEW r \in Request, NEW label, NEW l, Goto(r, label, l)
  PROVE  /\ pc'[r] = label /\ local'[r] = l /\ answer' = answer
         /\ \A q \in Request \ {r} : pc'[q] = pc[q] /\ local'[q] = local[q]
BY DEF Goto, TypeOK

\* A request that ends keeps no locals.
LEMMA FinishFacts ==
  ASSUME TypeOK, NEW r \in Request, NEW how, Finish(r, how)
  PROVE  /\ pc'[r] = "done" /\ local'[r] = NoLocal /\ answer'[r] = how
         /\ \A q \in Request \ {r} :
              /\ pc'[q] = pc[q] /\ local'[q] = local[q]
              /\ answer'[q] = answer[q]
BY DEF Finish, TypeOK

\* Changing fields of the locals leaves well formed locals.
LEMMA LocalType ==
  ASSUME NEW l \in Local
  PROVE  /\ \A c \in Connection : [l EXCEPT !.rec = c] \in Local
         /\ \A c \in Connection : [l EXCEPT !.new = c] \in Local
         /\ \A e \in Error : [l EXCEPT !.error = e] \in Local
         /\ \A c \in Connection, e \in Error :
              [l EXCEPT !.rec = c, !.error = e] \in Local
         /\ \A c, d \in Connection, n \in Targets :
              [l EXCEPT !.rec = c, !.conn = d, !.todo = n] \in Local
         /\ \A n \in Targets : [l EXCEPT !.todo = n] \in Local
         /\ [l EXCEPT !.again = TRUE] \in Local
<1>1. \A c \in Connection : [l EXCEPT !.rec = c] \in Local
  BY Zenon DEF Local
<1>2. \A c \in Connection : [l EXCEPT !.new = c] \in Local
  BY Zenon DEF Local
<1>3. \A e \in Error : [l EXCEPT !.error = e] \in Local
  BY Zenon DEF Local
<1>4. \A c \in Connection, e \in Error :
        [l EXCEPT !.rec = c, !.error = e] \in Local
  BY <1>1, <1>3, Zenon DEF Local
<1>5. \A c, d \in Connection, n \in Targets :
        [l EXCEPT !.rec = c, !.conn = d, !.todo = n] \in Local
  BY Zenon DEF Local
<1>6. \A n \in Targets : [l EXCEPT !.todo = n] \in Local
  BY Zenon DEF Local
<1>7. [l EXCEPT !.again = TRUE] \in Local
  BY Zenon DEF Local
<1> QED BY <1>1, <1>2, <1>3, <1>4, <1>5, <1>6, <1>7

\* What they leave as it was.
LEMMA LocalFields ==
  ASSUME NEW l \in Local
  PROVE  /\ \A e : LET m == [l EXCEPT !.error = e] IN
                   /\ m.grant = l.grant /\ m.conn = l.conn /\ m.rec = l.rec
                   /\ m.new = l.new /\ m.again = l.again /\ m.todo = l.todo
         /\ \A c : LET m == [l EXCEPT !.new = c] IN
                   /\ m.grant = l.grant /\ m.conn = l.conn /\ m.rec = l.rec
                   /\ m.new = c /\ m.again = l.again /\ m.todo = l.todo
         /\ \A c : LET m == [l EXCEPT !.rec = c] IN
                   /\ m.grant = l.grant /\ m.conn = l.conn /\ m.rec = c
                   /\ m.new = l.new /\ m.again = l.again /\ m.todo = l.todo
BY DEF Local

LEMMA NoLocalType ==
  /\ NoLocal \in Local
  /\ \A g \in Grant : [NoLocal EXCEPT !.grant = g] \in Local
<1>1. 0 \in Targets
  BY DEF Targets
<1>2. NoLocal \in Local
  BY <1>1, Zenon DEF NoLocal, Local
<1>3. ASSUME NEW l \in Local, NEW g \in Grant
      PROVE  [l EXCEPT !.grant = g] \in Local
  BY Zenon DEF Local
<1> QED BY <1>2, <1>3

\* A request keeps the invariant if what it goes on with is well formed.
LEMMA GotoKeeps ==
  ASSUME RequestInv, NEW r \in Request, NEW label \in Pc, NEW l \in Local,
         Goto(r, label, l), kind' \in [Request -> Kind \cup {None}],
         \A q \in Request \ {r} : kind'[q] = kind[q],
         WellAt(kind'[r], label, l)
  PROVE  RequestInv'
<1>1. pc' \in [Request -> Pc] /\ local' \in [Request -> Local] /\ answer' = answer
  BY DEF RequestInv, Goto
<1>2. pc'[r] = label /\ local'[r] = l
  BY DEF RequestInv, Goto
<1>3. \A q \in Request \ {r} : pc'[q] = pc[q] /\ local'[q] = local[q]
  BY DEF RequestInv, Goto
<1>4. WellAt(kind'[r], pc'[r], local'[r])
  BY <1>2
<1>5. \A q \in Request \ {r} : WellAt(kind'[q], pc'[q], local'[q])
  BY <1>3 DEF RequestInv, Well
<1> QED BY <1>1, <1>4, <1>5 DEF RequestInv, Well

LEMMA FinishKeeps ==
  ASSUME RequestInv, NEW r \in Request, NEW how \in {"ok", "error", None},
         Finish(r, how), kind' = kind
  PROVE  RequestInv'
<1>1. pc' \in [Request -> Pc] /\ answer' \in [Request -> {"ok", "error", None}]
  BY DEF RequestInv, Finish, Pc
<1>2. local' \in [Request -> Local]
  BY NoLocalType DEF RequestInv, Finish
<1>3. pc'[r] = "done" /\ local'[r] = NoLocal
  BY DEF RequestInv, Finish
<1>4. \A q \in Request \ {r} : pc'[q] = pc[q] /\ local'[q] = local[q]
  BY DEF RequestInv, Finish
<1>5. WellAt(kind'[r], pc'[r], local'[r])
  BY <1>3 DEF WellAt, NoLocal
<1>6. \A q \in Request \ {r} : WellAt(kind'[q], pc'[q], local'[q])
  BY <1>4 DEF RequestInv, Well
<1> QED BY <1>1, <1>2, <1>5, <1>6 DEF RequestInv, Well

LEMMA RequestsKept ==
  ASSUME RequestInv, UNCHANGED <<kind, pc, local, answer>>
  PROVE  RequestInv'
BY DEF RequestInv, Well

LEMMA NotConnection == \A c \in Connection : c # None
BY NoneAssumption

\* The connections that the code makes of a connection.
LEMMA ConnectionType ==
  ASSUME NEW c \in Connection
  PROVE  /\ Failed(c) \in Connection
         /\ \A t \in Targets : [c EXCEPT !.targets = t] \in Connection
         /\ \A n \in Token, rotates, timed \in BOOLEAN :
              Renewed(c, n, rotates, timed) \in Connection
<1>1. Failed(c) \in Connection
  BY DEF Failed, Connection
<1>2. \A t \in Targets : [c EXCEPT !.targets = t] \in Connection
  BY DEF Connection
<1>3. ASSUME NEW n \in Token, NEW rotates \in BOOLEAN, NEW timed \in BOOLEAN
      PROVE  Renewed(c, n, rotates, timed) \in Connection
  <2>1. (IF rotates THEN n ELSE c.refresh) \in Token \cup {None}
    BY DEF Connection
  <2>2. (IF timed THEN n ELSE c.expires) \in Token \cup {None}
    BY DEF Connection
  <2> QED BY <2>1, <2>2, Zenon DEF Renewed, Connection
<1> QED BY <1>1, <1>2, <1>3

\* The fields of a connection after a refresh.
LEMMA RenewedFields ==
  ASSUME NEW c \in Connection, NEW n, NEW rotates, NEW timed
  PROVE  /\ Renewed(c, n, rotates, timed).grant = c.grant
         /\ Renewed(c, n, rotates, timed).access = n
         /\ Renewed(c, n, rotates, timed).status = "connected"
         /\ Renewed(c, n, rotates, timed).refresh =
              IF rotates THEN n ELSE c.refresh
BY DEF Renewed, Connection

LEMMA FailedFields ==
  ASSUME NEW c \in Connection
  PROVE  /\ Failed(c).grant = c.grant
         /\ Failed(c).refresh = c.refresh
         /\ Failed(c).status = "refresh_failed"
BY DEF Failed, Connection

LEMMA TypeParts ==
  /\ TypeInv => RequestInv
  /\ \A r \in Request : TypeInv => /\ local[r] \in Local /\ Well(r)
                                   /\ kind[r] \in Kind \cup {None}
                                   /\ pc[r] \in Pc
                                   /\ idea[r] \in [parents : Targets, pages : Nat]
BY DEF TypeInv, TypeOK, RequestInv

-----------------------------------------------------------------------------
(* Types *)

LEMMA UsesKeeps ==
  ASSUME TypeInv, NEW r \in Request, NEW c \in Connection, Uses(r, c),
         kind' = kind, kind[r] = "save"
  PROVE  /\ RequestInv'
         /\ idea' \in [Request -> [parents : Targets, pages : Nat]]
<1> DEFINE first == IF local[r].again THEN local[r].conn ELSE c
           l == [local[r] EXCEPT !.rec = c, !.conn = first,
                                 !.todo = first.targets]
<1>1. local[r] \in Local /\ Well(r) /\ RequestInv
  BY TypeParts
<1>2. first \in Connection
  BY <1>1 DEF Well, WellAt, Local
<1>3. first.targets \in Targets
  BY <1>2, Zenon DEF Connection
<1>4. idea' \in [Request -> [parents : Targets, pages : Nat]]
  BY <1>3 DEF Uses, TypeInv, TypeOK
<1>5. CASE first.targets = 0
  BY <1>1, <1>4, <1>5, FinishKeeps DEF Uses
<1>6. CASE first.targets # 0
  <2>1. l \in Local
    BY <1>1, <1>2, <1>3, LocalType
  <2>2. l.rec = c /\ l.conn = first /\ l.todo = first.targets
    BY <1>1 DEF Local
  <2>3. c # None /\ first # None /\ first.targets > 0
    BY <1>2, <1>3, <1>6, NotConnection DEF Targets
  <2>4. WellAt(kind'[r], "create", l)
    BY <2>2, <2>3 DEF WellAt
  <2>5. Goto(r, "create", l)
    BY <1>6 DEF Uses
  <2>6. kind' \in [Request -> Kind \cup {None}] /\ "create" \in Pc
    BY DEF TypeInv, TypeOK, Pc
  <2> QED BY <1>1, <1>4, <2>1, <2>4, <2>5, <2>6, GotoKeeps
<1> QED BY <1>5, <1>6

LEMMA RethrowsKeeps ==
  ASSUME TypeInv, NEW r \in Request, NEW e, Rethrows(r, e),
         kind' = kind, kind[r] = "save"
  PROVE  RequestInv'
<1>1. local[r] \in Local /\ Well(r) /\ RequestInv
  BY TypeParts
<1>2. CASE local[r].again /\ e = "invalid_token"
  <2>1. WellAt(kind'[r], "mark", local[r])
    BY <1>1, <1>2 DEF Well, WellAt
  <2>2. kind' \in [Request -> Kind \cup {None}] /\ "mark" \in Pc
    BY DEF TypeInv, TypeOK, Pc
  <2> QED BY <1>1, <1>2, <2>1, <2>2, GotoKeeps DEF Rethrows
<1>3. CASE ~(local[r].again /\ e = "invalid_token")
  BY <1>1, <1>3, FinishKeeps DEF Rethrows
<1> QED BY <1>2, <1>3

LEMMA PageFailsKeeps ==
  ASSUME TypeInv, NEW r \in Request, NEW e, PageFails(r, e),
         kind' = kind, pc[r] = "create"
  PROVE  RequestInv'
<1>1. local[r] \in Local /\ Well(r) /\ RequestInv
  BY TypeParts
<1>2. kind[r] = "save"
  BY <1>1 DEF Well, WellAt
<1>3. CASE Retries(e) /\ ~local[r].again
  <2> DEFINE l == [local[r] EXCEPT !.again = TRUE]
  <2>1. l \in Local /\ l.conn = local[r].conn
    BY <1>1, LocalType DEF Local
  <2>2. WellAt(kind'[r], "read", l)
    BY <1>1, <1>2, <2>1 DEF Well, WellAt
  <2>3. kind' \in [Request -> Kind \cup {None}] /\ "read" \in Pc
    BY DEF TypeInv, TypeOK, Pc
  <2> QED BY <1>1, <1>3, <2>1, <2>2, <2>3, GotoKeeps DEF PageFails
<1>4. CASE ~(Retries(e) /\ ~local[r].again)
  BY <1>2, <1>4, RethrowsKeeps DEF PageFails
<1> QED BY <1>3, <1>4

\* The part of the type invariant that is about tables and about Notion.
DataInv ==
  /\ row \in Connection \cup {None}
  /\ replica \in Connection \cup {None}
  /\ oauth \in [Grant -> {"none", "valid", "expired", "deleted"}]
  /\ idea \in [Request -> [parents : Targets, pages : Nat]]
  /\ issued \in Token
  /\ newest \in [Grant -> Token \cup {None}]
  /\ spent \subseteq Grant
  /\ revoked \subseteq Grant
  /\ aged \in Token
  /\ hurt \subseteq Grant

LEMMA TypeWhole == TypeInv <=> RequestInv /\ DataInv
BY DEF TypeInv, TypeOK, RequestInv, DataInv

LEMMA GotoOn ==
  ASSUME TypeInv, DataInv', NEW r \in Request, NEW label \in Pc, NEW l \in Local,
         Goto(r, label, l), kind' = kind, WellAt(kind[r], label, l)
  PROVE  TypeInv'
<1>1. RequestInv /\ kind' \in [Request -> Kind \cup {None}]
  BY TypeWhole DEF TypeInv, TypeOK
<1>2. RequestInv'
  BY <1>1, GotoKeeps
<1> QED BY <1>2, TypeWhole DEF TypeInv, TypeOK, RequestInv, DataInv

LEMMA FinishOn ==
  ASSUME TypeInv, DataInv', NEW r \in Request, NEW how \in {"ok", "error", None},
         Finish(r, how), kind' = kind
  PROVE  TypeInv'
<1>1. RequestInv'
  BY FinishKeeps, TypeWhole
<1> QED BY <1>1, TypeWhole DEF TypeInv, TypeOK, RequestInv, DataInv

LEMMA WellCallback ==
  ASSUME NEW l, NEW label \in {"exchange", "store", "cleanup"},
         l.grant \in Grant, l.again => l.conn # None,
         label = "store" => l.new # None
  PROVE  WellAt("callback", label, l)
BY DEF WellAt

LEMMA CallbackType ==
  ASSUME TypeInv, NEW r \in Request,
         Lookup(r) \/ Exchange(r) \/ ExchangeFails(r) \/ Cleanup(r)
  PROVE  TypeInv'
<1> DEFINE g == local[r].grant
<1>1. local[r] \in Local /\ Well(r) /\ RequestInv /\ DataInv
  BY TypeParts, TypeWhole
<1>2. kind \in [Request -> Kind \cup {None}] /\ {"exchange", "store", "cleanup"} \subseteq Pc
  BY DEF TypeInv, TypeOK, Pc
<1>3. ASSUME pc[r] \in {"lookup", "exchange", "cleanup"}
      PROVE  /\ kind[r] = "callback"
             /\ g \in Grant
             /\ local[r].again => local[r].conn # None
  BY <1>1, <1>3 DEF Well, WellAt
<1>4. /\ [local[r] EXCEPT !.error = "other"] \in Local
      /\ [local[r] EXCEPT !.error = "other"].grant = g
      /\ [local[r] EXCEPT !.error = "other"].again = local[r].again
      /\ [local[r] EXCEPT !.error = "other"].conn = local[r].conn
  BY <1>1, LocalType, LocalFields DEF Error
<1>5. CASE Lookup(r)
  <2>1. DataInv' /\ kind' = kind /\ pc[r] = "lookup"
    BY <1>1, <1>5 DEF Lookup, DataInv, tables, notion
  <2>2. CASE Goto(r, "exchange", local[r])
    <3>1. WellAt(kind[r], "exchange", local[r])
      BY <2>1, <1>3, WellCallback
    <3> QED BY <1>1, <1>2, <2>1, <2>2, <3>1, GotoOn
  <2>3. CASE Goto(r, "cleanup", [local[r] EXCEPT !.error = "other"])
    <3> DEFINE l == [local[r] EXCEPT !.error = "other"]
    <3>1. /\ l \in Local /\ l.grant = g
          /\ l.again = local[r].again /\ l.conn = local[r].conn
      BY <1>4
    <3>2. WellAt(kind[r], "cleanup", l)
      BY <2>1, <3>1, <1>3, WellCallback
    <3> QED BY <1>2, <2>1, <2>3, <3>1, <3>2, GotoOn
  <2>4. CASE Finish(r, "error")
    BY <2>1, <2>4, FinishOn
  <2> QED BY <1>5, <2>2, <2>3, <2>4 DEF Lookup
<1>6. CASE Exchange(r)
  <2>1. PICK refresh \in {issued + 1, None}, expires \in {issued + 1, None} :
          /\ Issue(g, refresh)
          /\ Goto(r, "store",
                  [local[r] EXCEPT
                     !.new = Connected(g, issued + 1, refresh, expires)])
    BY <1>6 DEF Exchange
  <2> DEFINE c == Connected(g, issued + 1, refresh, expires)
             l == [local[r] EXCEPT !.new = c]
  <2>2. pc[r] = "exchange" /\ kind' = kind
    BY <1>6 DEF Exchange
  <2>3. issued + 1 \in Token
    BY <1>1 DEF DataInv, Token
  <2>4. DataInv'
    BY <1>6, <2>1, <2>3, <1>1, <1>3, <2>2 DEF Exchange, Issue, DataInv, tables
  <2>5. c \in Connection
    BY <2>1, <2>2, <2>3, <1>3, ConstantsAssumption, Zenon DEF Connected, Connection
  <2>6. /\ l \in Local /\ l.grant = g /\ l.new = c
        /\ l.again = local[r].again /\ l.conn = local[r].conn
    BY <1>1, <2>5, LocalType, LocalFields
  <2>7. WellAt(kind[r], "store", l)
    BY <2>2, <2>5, <2>6, <1>3, NotConnection, WellCallback
  <2> QED BY <1>2, <2>1, <2>2, <2>4, <2>6, <2>7, GotoOn
<1>7. CASE ExchangeFails(r)
  <2>1. pc[r] = "exchange" /\ kind' = kind
    BY <1>7 DEF ExchangeFails
  <2>2. issued + 1 \in Token
    BY <1>1 DEF DataInv, Token
  <2>3. DataInv'
    <3>1. CASE UNCHANGED notion
      BY <1>7, <3>1, <1>1 DEF ExchangeFails, DataInv, tables, notion
    <3>2. CASE \E refresh \in {issued + 1, None} : Issue(g, refresh)
      BY <1>7, <3>2, <2>1, <2>2, <1>1, <1>3 DEF ExchangeFails, Issue, DataInv, tables
    <3> QED BY <1>7, <3>1, <3>2 DEF ExchangeFails
  <2> DEFINE l == [local[r] EXCEPT !.error = "other"]
  <2>4. /\ l \in Local /\ l.grant = g
        /\ l.again = local[r].again /\ l.conn = local[r].conn
    BY <1>4
  <2>5. WellAt(kind[r], "cleanup", l)
    BY <2>1, <2>4, <1>3, WellCallback
  <2>6. Goto(r, "cleanup", l)
    BY <1>7 DEF ExchangeFails
  <2> QED BY <1>2, <2>1, <2>3, <2>4, <2>5, <2>6, GotoOn
<1>8. CASE Cleanup(r)
  <2>1. kind' = kind /\ Finish(r, IF local[r].error = None THEN "ok" ELSE "error")
    BY <1>8 DEF Cleanup
  <2>2. DataInv'
    BY <1>8, <1>1 DEF Cleanup, DataInv, notion
  <2> QED BY <2>1, <2>2, FinishOn
<1> QED BY <1>5, <1>6, <1>7, <1>8

\* Putting a connection, or none, keeps the tables well formed.
LEMMA PutKeeps ==
  ASSUME DataInv, NEW c \in Connection \cup {None}, Put(c),
         UNCHANGED <<oauth, idea, notion, hurt>>
  PROVE  DataInv'
BY DEF DataInv, Put, notion

LEMMA StoreType ==
  ASSUME TypeInv, NEW r \in Request, Store(r) \/ StoreFails(r)
  PROVE  TypeInv'
<1> DEFINE c == local[r].new
           failed == [local[r] EXCEPT !.error = "other"]
<1>1. local[r] \in Local /\ Well(r) /\ RequestInv /\ DataInv
  BY TypeParts, TypeWhole
<1>2. {"giveUp", "cleanup"} \subseteq Pc /\ pc[r] = "store"
  BY DEF Pc, Store, StoreFails
<1>3. c \in Connection
  BY <1>1, <1>2 DEF Well, WellAt, Local
<1>4. WellAt(kind[r], "store", local[r])
  BY <1>1, <1>2 DEF Well
<1>5. CASE Store(r)
  <2>1. kind' = kind /\ Put(c) /\ UNCHANGED <<oauth, notion, hurt>>
    BY <1>5 DEF Store
  <2>2. CASE kind[r] = "save" /\ Uses(r, c)
    <3>1. RequestInv' /\ idea' \in [Request -> [parents : Targets, pages : Nat]]
      BY <1>3, <2>1, <2>2, UsesKeeps
    <3>2. DataInv'
      BY <1>1, <1>3, <2>1, <3>1 DEF DataInv, Put, notion
    <3> QED BY <3>1, <3>2, TypeWhole DEF TypeInv, TypeOK, RequestInv, DataInv
  <2>3. CASE kind[r] = "settings" /\ Finish(r, "ok") /\ UNCHANGED idea
    BY <1>1, <1>3, <2>1, <2>3, PutKeeps, FinishOn
  <2>4. CASE kind[r] = "callback" /\ Goto(r, "cleanup", local[r]) /\ UNCHANGED idea
    <3>1. WellAt(kind[r], "cleanup", local[r])
      BY <2>4, <1>4 DEF WellAt
    <3>2. DataInv'
      BY <1>1, <1>3, <2>1, <2>4, PutKeeps
    <3> QED BY <1>1, <1>2, <2>1, <2>4, <3>1, <3>2, GotoOn
  <2> QED BY <1>5, <2>2, <2>3, <2>4 DEF Store
<1>6. CASE StoreFails(r)
  <2>1. kind' = kind /\ UNCHANGED <<tables, idea, notion>>
    BY <1>6 DEF StoreFails
  <2>2. failed \in Local /\ failed.grant = local[r].grant
        /\ failed.again = local[r].again /\ failed.conn = local[r].conn
        /\ failed.rec = local[r].rec
    BY <1>1, LocalType, LocalFields DEF Error
  <2>3. CASE /\ kind[r] = "save" /\ Goto(r, "giveUp", failed)
             /\ hurt' = hurt \cup {local[r].rec.grant}
    <3>1. local[r].rec \in Connection
      BY <1>1, <1>2, <2>3 DEF Well, WellAt, Local
    <3>2. local[r].rec.grant \in Grant
      BY <3>1 DEF Connection
    <3>3. DataInv'
      BY <1>1, <2>1, <2>3, <3>2 DEF DataInv, tables, notion
    <3>4. WellAt(kind[r], "giveUp", failed)
      BY <1>4, <2>2, <2>3 DEF WellAt
    <3> QED BY <1>2, <2>1, <2>2, <2>3, <3>3, <3>4, GotoOn
  <2>4. ASSUME UNCHANGED hurt PROVE DataInv'
    BY <1>1, <2>1, <2>4 DEF DataInv, tables, notion
  <2>5. CASE kind[r] = "settings" /\ Finish(r, "error") /\ UNCHANGED hurt
    BY <2>1, <2>4, <2>5, FinishOn
  <2>6. CASE kind[r] = "callback" /\ Goto(r, "cleanup", failed) /\ UNCHANGED hurt
    <3>1. WellAt(kind[r], "cleanup", failed)
      BY <1>4, <2>2, <2>6 DEF WellAt
    <3> QED BY <1>2, <2>1, <2>2, <2>4, <2>6, <3>1, GotoOn
  <2> QED BY <1>6, <2>3, <2>5, <2>6 DEF StoreFails
<1> QED BY <1>5, <1>6

LEMMA ReadType ==
  ASSUME TypeInv, NEW r \in Request, ReadConnection(r)
  PROVE  TypeInv'
<1>1. local[r] \in Local /\ Well(r) /\ RequestInv /\ DataInv
  BY TypeParts, TypeWhole
<1>2. /\ pc[r] = "read" /\ kind[r] = "save" /\ kind' = kind
      /\ UNCHANGED <<tables, notion, hurt>> /\ {"refresh", "giveUp"} \subseteq Pc
  BY DEF ReadConnection, Pc
<1>3. local[r].again => local[r].conn # None
  BY <1>1, <1>2 DEF Well, WellAt
<1>4. PICK found \in {row, replica} :
       \/ ~Usable(found) /\ Finish(r, "error") /\ UNCHANGED idea
       \/ Usable(found) /\ Uses(r, found)
       \/ /\ Usable(found) /\ found.refresh # None
          /\ Goto(r, "refresh", [local[r] EXCEPT !.rec = found])
          /\ UNCHANGED idea
       \/ /\ Usable(found)
          /\ Goto(r, "giveUp",
                  [local[r] EXCEPT !.rec = found, !.error = "other"])
          /\ UNCHANGED idea
  BY Zenon DEF ReadConnection
<1>5. UNCHANGED idea => DataInv'
  BY <1>1, <1>2 DEF DataInv, tables, notion
<1>6. Usable(found) => found \in Connection
  BY <1>1, <1>4 DEF DataInv, Usable
<1>7. CASE ~Usable(found) /\ Finish(r, "error") /\ UNCHANGED idea
  BY <1>2, <1>5, <1>7, FinishOn
<1>8. CASE Usable(found) /\ Uses(r, found)
  <2>1. RequestInv' /\ idea' \in [Request -> [parents : Targets, pages : Nat]]
    BY <1>2, <1>6, <1>8, UsesKeeps
  <2>2. DataInv'
    BY <1>1, <1>2, <2>1 DEF DataInv, tables, notion
  <2> QED BY <2>1, <2>2, TypeWhole DEF TypeInv, TypeOK, RequestInv, DataInv
<1>9. CASE /\ Usable(found) /\ found.refresh # None
           /\ Goto(r, "refresh", [local[r] EXCEPT !.rec = found])
           /\ UNCHANGED idea
  <2> DEFINE l == [local[r] EXCEPT !.rec = found]
  <2>1. l \in Local /\ l.rec = found /\ l.again = local[r].again
        /\ l.conn = local[r].conn
    BY <1>1, <1>6, <1>9, LocalType, LocalFields
  <2>2. WellAt(kind[r], "refresh", l)
    BY <1>2, <1>3, <1>6, <1>9, <2>1, NotConnection DEF WellAt
  <2> QED BY <1>2, <1>5, <1>9, <2>1, <2>2, GotoOn
<1>10. CASE /\ Usable(found)
            /\ Goto(r, "giveUp",
                    [local[r] EXCEPT !.rec = found, !.error = "other"])
            /\ UNCHANGED idea
  <2> DEFINE l == [local[r] EXCEPT !.rec = found, !.error = "other"]
  <2>1. l \in Local
    BY <1>1, <1>6, <1>10, LocalType DEF Error
  <2>2. l.rec = found /\ l.again = local[r].again /\ l.conn = local[r].conn
    BY <1>1 DEF Local
  <2>3. WellAt(kind[r], "giveUp", l)
    BY <1>2, <1>3, <1>6, <1>10, <2>2, NotConnection DEF WellAt
  <2> QED BY <1>2, <1>5, <1>10, <2>1, <2>3, GotoOn
<1> QED BY <1>4, <1>7, <1>8, <1>9, <1>10

\* A refresh keeps the tokens of Notion well formed.
LEMMA RefreshKeeps ==
  ASSUME DataInv, NEW g \in Grant, NEW rotates, Refresh(g, rotates)
  PROVE  /\ issued' \in Token /\ newest' \in [Grant -> Token \cup {None}]
         /\ UNCHANGED <<spent, revoked, aged>>
<1>1. issued + 1 \in Token
  BY DEF DataInv, Token
<1>2. newest' \in [Grant -> Token \cup {None}]
  BY <1>1 DEF DataInv, Refresh
<1> QED BY <1>1, <1>2 DEF Refresh

LEMMA RefreshType ==
  ASSUME TypeInv, NEW r \in Request, RefreshToken(r) \/ RefreshFails(r)
  PROVE  TypeInv'
<1> DEFINE c == local[r].rec
<1>1. local[r] \in Local /\ Well(r) /\ RequestInv /\ DataInv
  BY TypeParts, TypeWhole
<1>2. /\ pc[r] = "refresh" /\ kind' = kind /\ UNCHANGED <<tables, idea>>
      /\ {"store", "giveUp"} \subseteq Pc
  BY DEF RefreshToken, RefreshFails, Pc
<1>3. /\ c \in Connection /\ kind[r] = "save"
      /\ local[r].again => local[r].conn # None
  BY <1>1, <1>2 DEF Well, WellAt, Local
<1>4. c.grant \in Grant
  BY <1>3 DEF Connection
<1>5. CASE RefreshToken(r)
  <2>1. PICK rotates \in Rotation, timed \in BOOLEAN :
          /\ Refresh(c.grant, rotates)
          /\ Goto(r, "store",
                  [local[r] EXCEPT
                     !.new = Renewed(c, issued + 1, rotates, timed)])
    BY <1>5 DEF RefreshToken
  <2> DEFINE n == Renewed(c, issued + 1, rotates, timed)
             l == [local[r] EXCEPT !.new = n]
  <2>2. issued + 1 \in Token /\ rotates \in BOOLEAN
    BY <1>1, ConstantsAssumption DEF DataInv, Token
  <2>3. n \in Connection
    BY <1>3, <2>2, ConnectionType
  <2>4. l \in Local /\ l.new = n /\ l.rec = c /\ l.again = local[r].again
        /\ l.conn = local[r].conn
    <3> HIDE DEF n
    <3>1. l \in Local
      BY <1>1, <2>3, LocalType, Zenon
    <3>2. l.new = n /\ l.rec = c /\ l.again = local[r].again /\ l.conn = local[r].conn
      BY <1>1, LocalFields
    <3> QED BY <3>1, <3>2
  <2>5. WellAt(kind[r], "store", l)
    BY <1>3, <2>3, <2>4, NotConnection DEF WellAt
  <2>6. UNCHANGED hurt
    BY <1>5 DEF RefreshToken
  <2>7. DataInv'
    BY <1>1, <1>2, <1>4, <2>1, <2>6, RefreshKeeps DEF DataInv, tables
  <2>8. Goto(r, "store", l)
    BY <2>1
  <2> QED BY <1>2, <2>4, <2>5, <2>7, <2>8, GotoOn
<1>6. CASE RefreshFails(r)
  <2>1. DataInv'
    <3>1. CASE UNCHANGED notion /\ (UNCHANGED hurt \/ hurt' = hurt \cup {c.grant})
      BY <1>1, <1>2, <1>4, <3>1 DEF DataInv, tables, notion
    <3>2. CASE /\ hurt' = hurt \cup {c.grant}
               /\ \E rotates \in Rotation : Refresh(c.grant, rotates)
      BY <1>1, <1>2, <1>4, <3>2, RefreshKeeps DEF DataInv, tables
    <3> QED BY <1>6, <3>1, <3>2 DEF RefreshFails
  <2>2. PICK e \in {"invalid_token", "other"} :
          Goto(r, "giveUp", [local[r] EXCEPT !.error = e])
    BY <1>6 DEF RefreshFails
  <2> DEFINE l == [local[r] EXCEPT !.error = e]
  <2>3. l \in Local /\ l.rec = c /\ l.again = local[r].again
        /\ l.conn = local[r].conn
    BY <1>1, LocalType, LocalFields DEF Error
  <2>4. WellAt(kind[r], "giveUp", l)
    BY <1>3, <2>3, NotConnection DEF WellAt
  <2>5. Goto(r, "giveUp", l)
    BY <2>2
  <2> QED BY <1>2, <2>1, <2>3, <2>4, <2>5, GotoOn
<1> QED BY <1>5, <1>6

LEMMA GiveUpType ==
  ASSUME TypeInv, NEW r \in Request, GiveUp(r) \/ Mark(r)
  PROVE  TypeInv'
<1>1. local[r] \in Local /\ Well(r) /\ RequestInv /\ DataInv
  BY TypeParts, TypeWhole
<1>2. kind' = kind /\ UNCHANGED <<oauth, idea, notion, hurt>>
  BY DEF GiveUp, Mark
<1>3. CASE GiveUp(r)
  <2>1. local[r].rec \in Connection /\ kind[r] = "save"
    BY <1>1, <1>3 DEF Well, WellAt, GiveUp, Local
  <2>2. CASE Put(Failed(local[r].rec)) /\ Rethrows(r, local[r].error)
    <3>1. Failed(local[r].rec) \in Connection \cup {None}
      BY <2>1, ConnectionType
    <3>2. DataInv'
      BY <1>1, <1>2, <2>2, <3>1, PutKeeps
    <3>3. RequestInv'
      BY <1>2, <2>1, <2>2, RethrowsKeeps
    <3> QED BY <3>2, <3>3, TypeWhole DEF TypeInv, TypeOK, RequestInv, DataInv
  <2>3. CASE Finish(r, "error") /\ UNCHANGED <<row, replica>>
    <3>1. DataInv'
      BY <1>1, <1>2, <2>3 DEF DataInv, notion
    <3> QED BY <1>2, <2>3, <3>1, FinishOn
  <2> QED BY <1>3, <2>2, <2>3 DEF GiveUp
<1>4. CASE Mark(r)
  <2>1. local[r].conn \in Connection
    BY <1>1, <1>4 DEF Well, WellAt, Mark, Local
  <2>2. Failed(local[r].conn) \in Connection \cup {None}
    BY <2>1, ConnectionType
  <2>3. DataInv'
    BY <1>1, <1>2, <1>4, <2>2, PutKeeps DEF Mark
  <2> QED BY <1>2, <1>4, <2>3, FinishOn DEF Mark
<1> QED BY <1>3, <1>4

LEMMA PageType ==
  ASSUME TypeInv, NEW r \in Request,
         CreatePage(r) \/ ParentFails(r) \/ ServerFails(r)
  PROVE  TypeInv'
<1>1. local[r] \in Local /\ Well(r) /\ RequestInv /\ DataInv
  BY TypeParts, TypeWhole
<1>2. pc[r] = "create" /\ kind' = kind /\ UNCHANGED <<tables, notion, hurt>>
  BY DEF CreatePage, ParentFails, ServerFails
<1>3. ASSUME \/ UNCHANGED idea
             \/ idea' = [idea EXCEPT ![r].pages = @ + 1]
      PROVE  DataInv'
  <2>1. [idea EXCEPT ![r].pages = @ + 1] \in [Request -> [parents : Targets, pages : Nat]]
    BY <1>1 DEF DataInv
  <2> QED BY <1>1, <1>2, <1>3, <2>1 DEF DataInv, tables, notion
<1>4. CASE CreatePage(r)
  BY <1>2, <1>3, <1>4, FinishOn DEF CreatePage
<1>5. CASE ParentFails(r)
  <2>1. PICK e \in Error :
          /\ \/ UNCHANGED idea
             \/ idea' = [idea EXCEPT ![r].pages = @ + 1]
          /\ IF local[r].todo > 1
             THEN Goto(r, "create", [local[r] EXCEPT !.todo = @ - 1])
             ELSE PageFails(r, e)
    BY <1>5, Zenon DEF ParentFails
  <2>2. CASE local[r].todo > 1
    <3> DEFINE l == [local[r] EXCEPT !.todo = @ - 1]
    <3>1. local[r].todo \in Targets
      BY <1>1 DEF Local
    <3>2. local[r].todo - 1 \in Targets /\ local[r].todo - 1 > 0
      BY <2>2, <3>1 DEF Targets
    <3>3. l \in Local
      BY <1>1, <3>2, LocalType
    <3>4. /\ l.todo = local[r].todo - 1 /\ l.rec = local[r].rec
          /\ l.conn = local[r].conn /\ l.again = local[r].again
      BY <1>1 DEF Local
    <3>5. WellAt(kind[r], "create", l)
      BY <1>1, <1>2, <3>2, <3>4 DEF Well, WellAt
    <3>6. Goto(r, "create", l) /\ "create" \in Pc
      BY <2>1, <2>2 DEF Pc
    <3> QED BY <1>2, <1>3, <2>1, <3>3, <3>5, <3>6, GotoOn
  <2>3. CASE ~(local[r].todo > 1)
    <3>1. RequestInv'
      BY <1>2, <2>1, <2>3, PageFailsKeeps
    <3> QED BY <1>3, <2>1, <3>1, TypeWhole
            DEF TypeInv, TypeOK, RequestInv, DataInv
  <2> QED BY <2>2, <2>3
<1>6. CASE ServerFails(r)
  <2>1. PICK e \in Error : PageFails(r, e)
    BY <1>6 DEF ServerFails
  <2>2. RequestInv' /\ UNCHANGED idea
    BY <1>2, <1>6, <2>1, PageFailsKeeps DEF ServerFails
  <2> QED BY <1>3, <2>2, TypeWhole DEF TypeInv, TypeOK, RequestInv, DataInv
<1> QED BY <1>4, <1>5, <1>6

LEMMA SettingsType ==
  ASSUME TypeInv, NEW r \in Request,
         ReadSettings(r) \/ Disconnect(r) \/ RequestFails(r) \/ Stop(r)
  PROVE  TypeInv'
<1>1. local[r] \in Local /\ Well(r) /\ RequestInv /\ DataInv
  BY TypeParts, TypeWhole
<1>2. kind' = kind /\ UNCHANGED <<oauth, idea, notion>>
  BY DEF ReadSettings, Disconnect, RequestFails, Stop, tables
<1>3. CASE ReadSettings(r)
  <2>1. DataInv' /\ pc[r] = "read" /\ kind[r] = "settings"
    BY <1>1, <1>3 DEF ReadSettings, DataInv, tables, notion
  <2>2. PICK found \in {row, replica} :
          \/ found = None /\ Finish(r, "error")
          \/ /\ found # None
             /\ \E t \in Targets :
                  Goto(r, "store",
                       [local[r] EXCEPT !.new = [found EXCEPT !.targets = t]])
    BY <1>3, Zenon DEF ReadSettings
  <2>3. CASE found = None /\ Finish(r, "error")
    BY <1>2, <2>1, <2>3, FinishOn
  <2>4. CASE /\ found # None
             /\ \E t \in Targets :
                  Goto(r, "store",
                       [local[r] EXCEPT !.new = [found EXCEPT !.targets = t]])
    <3>1. PICK t \in Targets :
            Goto(r, "store",
                 [local[r] EXCEPT !.new = [found EXCEPT !.targets = t]])
      BY <2>4
    <3> DEFINE c == [found EXCEPT !.targets = t]
               l == [local[r] EXCEPT !.new = c]
    <3>2. found \in Connection
      BY <1>1, <2>4 DEF DataInv
    <3>3. c \in Connection
      BY <3>2, ConnectionType
    <3>4. l \in Local /\ l.new = c /\ l.again = local[r].again
          /\ l.conn = local[r].conn
      BY <1>1, <3>3, LocalType, LocalFields
    <3>5. local[r].again => local[r].conn # None
      BY <1>1 DEF Well, WellAt
    <3>6. WellAt(kind[r], "store", l)
      BY <2>1, <3>3, <3>4, <3>5, NotConnection DEF WellAt
    <3>7. Goto(r, "store", l) /\ "store" \in Pc
      BY <3>1 DEF Pc
    <3> QED BY <1>2, <2>1, <3>4, <3>6, <3>7, GotoOn
  <2> QED BY <2>2, <2>3, <2>4
<1>4. CASE Disconnect(r)
  <2>1. DataInv'
    BY <1>1, <1>4, PutKeeps DEF Disconnect
  <2> QED BY <1>2, <1>4, <2>1, FinishOn DEF Disconnect
<1>5. CASE RequestFails(r)
  <2>1. DataInv'
    BY <1>1, <1>5 DEF RequestFails, DataInv, tables, notion
  <2> QED BY <1>2, <1>5, <2>1, FinishOn DEF RequestFails
<1>6. CASE Stop(r)
  <2>1. local[r].rec # None => local[r].rec.grant \in Grant
    BY <1>1 DEF Local, Connection
  <2>2. hurt' \subseteq Grant
    BY <1>1, <1>6, <2>1 DEF Stop, DataInv
  <2>3. DataInv'
    BY <1>1, <1>6, <2>2 DEF Stop, DataInv, tables, notion
  <2> QED BY <1>2, <1>6, <2>3, FinishOn DEF Stop
<1> QED BY <1>3, <1>4, <1>5, <1>6

LEMMA BeginType ==
  ASSUME TypeInv, NEW r \in Request,
         (\E g \in Grant : BeginCallback(r, g)) \/ BeginOther(r)
  PROVE  TypeInv'
<1>1. RequestInv /\ DataInv
  BY TypeWhole
<1>2. ASSUME NEW k \in Kind, NEW label \in Pc, NEW l \in Local,
             Begin(r, k, label, l), WellAt(k, label, l)
      PROVE  TypeInv'
  <2>1. /\ kind' \in [Request -> Kind \cup {None}]
        /\ kind'[r] = k /\ \A q \in Request \ {r} : kind'[q] = kind[q]
    BY <1>1, <1>2 DEF Begin, RequestInv
  <2>2. RequestInv'
    BY <1>1, <1>2, <2>1, GotoKeeps DEF Begin
  <2>3. DataInv'
    BY <1>1, <1>2 DEF Begin, DataInv, tables, notion
  <2> QED BY <2>2, <2>3, TypeWhole DEF TypeInv, TypeOK, RequestInv, DataInv
<1>3. /\ {"lookup", "read", "delete"} \subseteq Pc
      /\ {"callback", "save", "settings", "disconnect"} \subseteq Kind
  BY DEF Pc, Kind
<1>4. ASSUME NEW g \in Grant, BeginCallback(r, g) PROVE TypeInv'
  <2> DEFINE l == [NoLocal EXCEPT !.grant = g]
  <2>1. l \in Local
    BY NoLocalType
  <2>2. l.grant = g /\ ~l.again
    BY DEF NoLocal
  <2>3. WellAt("callback", "lookup", l)
    BY <2>2 DEF WellAt
  <2> QED BY <1>2, <1>3, <1>4, <2>1, <2>3 DEF BeginCallback
<1>5. ASSUME BeginOther(r) PROVE TypeInv'
  <2>1. /\ WellAt("save", "read", NoLocal)
        /\ WellAt("settings", "read", NoLocal)
        /\ WellAt("disconnect", "delete", NoLocal)
    BY DEF WellAt, NoLocal
  <2> QED BY <1>2, <1>3, <1>5, <2>1, NoLocalType DEF BeginOther
<1> QED BY <1>4, <1>5

\* Steps that are of no request.
LEMMA WorldType ==
  ASSUME TypeInv,
         \/ \E g \in Grant : Connect(g) \/ Revoke(g) \/ ExpireState(g)
         \/ Replicate \/ Age \/ UNCHANGED vars
  PROVE  TypeInv'
<1>1. RequestInv /\ DataInv
  BY TypeWhole
<1>2. UNCHANGED <<kind, pc, local, answer>>
  BY DEF Connect, Revoke, ExpireState, Replicate, Age, vars, request
<1>3. RequestInv'
  BY <1>1, <1>2, RequestsKept
<1>4. DataInv'
  <2>1. ASSUME NEW g \in Grant, Connect(g) \/ Revoke(g) \/ ExpireState(g)
        PROVE  DataInv'
    BY <1>1, <2>1 DEF Connect, Revoke, ExpireState, DataInv, tables, notion, request
  <2>2. CASE Replicate
    BY <1>1, <2>2 DEF Replicate, DataInv, request, notion
  <2>3. CASE Age
    <3>1. aged + 1 \in Token
      BY <1>1 DEF DataInv, Token
    <3> QED BY <1>1, <2>3, <3>1 DEF Age, DataInv, tables, request
  <2>4. CASE UNCHANGED vars
    BY <1>1, <2>4 DEF DataInv, vars, tables, notion, request
  <2> QED BY <2>1, <2>2, <2>3, <2>4
<1> QED BY <1>3, <1>4, TypeWhole DEF TypeInv, TypeOK, RequestInv, DataInv

LEMMA TypeInit == Init => TypeInv
<1> SUFFICES ASSUME Init PROVE TypeInv
  OBVIOUS
<1>1. [parents |-> 0, pages |-> 0] \in [parents : Targets, pages : Nat]
  BY DEF Targets
<1>2. DataInv
  BY <1>1 DEF Init, DataInv, Token
<1>3. RequestInv
  BY NoLocalType DEF Init, RequestInv, Well, WellAt, Pc, NoLocal
<1> QED BY <1>2, <1>3, TypeWhole

LEMMA TypeStep == TypeInv /\ [Next]_vars => TypeInv'
<1> SUFFICES ASSUME TypeInv, [Next]_vars PROVE TypeInv'
  OBVIOUS
<1>1. ASSUME NEW r \in Request, Step(r) PROVE TypeInv'
  BY <1>1, CallbackType, StoreType, ReadType, RefreshType, GiveUpType,
     PageType, SettingsType DEF Step
<1> QED BY <1>1, BeginType, WorldType DEF Next

\* Everything the requests and the tables hold is well formed; in particular a
\* connection that is read is one that was written, and a step finds in the
\* locals of its request what it needs.
THEOREM TypeCorrect == Spec => []TypeOK
<1>1. TypeInv => TypeOK
  BY DEF TypeInv
<1> QED BY <1>1, TypeInit, TypeStep, PTL DEF Spec

-----------------------------------------------------------------------------
(* One idea, one page *)

\* The pages a request may have created when it is at the step named label.
\* Before a page is tried there is none, except that the second round begins
\* with at most one less than the parents; each parent adds at most one.
PagesAt(k, label, l, how, i) ==
  /\ label # "done" => how = None
  /\ k # "save" \/ label = "idle" => i.pages = 0
  /\ k = "save" /\ how = "ok" => i.pages > 0
  /\ "lost" \notin Faults => i.pages <= 1
  /\ "lost" \notin Faults /\ how # "ok" => i.pages = 0
  /\ l.again \/ label = "create" => l.conn.targets = i.parents /\ i.parents > 0
  /\ label = "create" /\ ~l.again => i.pages + l.todo <= i.parents
  /\ label = "create" /\ l.again => i.pages + l.todo < 2 * i.parents
  /\ label = "mark" => l.again
  /\ label = "mark" => i.pages < 2 * i.parents
  /\ label \notin {"create", "mark", "done"} =>
       i.pages = 0 \/ (l.again /\ i.pages < i.parents)
  /\ label = "done" => i.pages = 0 \/ i.pages < 2 * i.parents

Pages(r) == PagesAt(kind[r], pc[r], local[r], answer[r], idea[r])

PagesInv == \A r \in Request : Pages(r)

LEMMA PagesOthers ==
  ASSUME TypeInv, PagesInv, NEW r \in Request, kind' = kind,
         \A q \in Request \ {r} : idea'[q] = idea[q],
         \/ \E label, l : Goto(r, label, l)
         \/ \E how : Finish(r, how),
         Pages(r)'
  PROVE  PagesInv'
<1>1. \A q \in Request \ {r} : /\ pc'[q] = pc[q] /\ local'[q] = local[q]
                               /\ answer'[q] = answer[q]
  BY DEF TypeInv, TypeOK, Goto, Finish
<1>2. \A q \in Request \ {r} : PagesAt(kind'[q], pc'[q], local'[q], answer'[q], idea'[q])
  BY <1>1 DEF PagesInv, Pages
<1> QED BY <1>2 DEF PagesInv, Pages

\* A step to another one, none of them about pages.
LEMMA PagesAdvance ==
  ASSUME TypeInv, PagesInv, NEW r \in Request, NEW label, NEW l,
         Goto(r, label, l), UNCHANGED <<kind, idea>>,
         pc[r] \notin {"idle", "done", "create", "mark"},
         label \notin {"idle", "done", "create", "mark"},
         l.again = local[r].again, l.conn = local[r].conn
  PROVE  PagesInv'
<1>1. pc'[r] = label /\ local'[r] = l /\ answer'[r] = answer[r]
  BY GotoFacts DEF TypeInv
<1>2. PagesAt(kind[r], pc[r], local[r], answer[r], idea[r])
  BY DEF PagesInv, Pages
<1>3. PagesAt(kind[r], label, l, answer[r], idea[r])
  BY <1>2 DEF PagesAt
<1>4. Pages(r)'
  BY <1>1, <1>3 DEF Pages
<1> QED BY <1>4, PagesOthers

LEMMA PagesFinish ==
  ASSUME TypeInv, PagesInv, NEW r \in Request, NEW how,
         Finish(r, how), UNCHANGED <<kind, idea>>, Active(r),
         how = "ok" => kind[r] # "save"
  PROVE  PagesInv'
<1>1. pc'[r] = "done" /\ local'[r] = NoLocal /\ answer'[r] = how
  BY FinishFacts DEF TypeInv
<1>2. PagesAt(kind[r], pc[r], local[r], answer[r], idea[r])
  BY DEF PagesInv, Pages
<1>3. local[r].todo \in Targets /\ Well(r) /\ idea[r].parents \in Targets
      /\ idea[r].pages \in Nat
  BY TypeParts DEF Local
<1>4. pc[r] = "create" => local[r].todo > 0
  BY <1>3 DEF Well, WellAt
<1>5. idea[r].pages = 0 \/ idea[r].pages < 2 * idea[r].parents
  <2>1. CASE pc[r] = "create"
    BY <1>2, <1>3, <1>4, <2>1 DEF PagesAt, Targets
  <2>2. CASE pc[r] = "mark"
    BY <1>2, <2>2 DEF PagesAt
  <2>3. CASE pc[r] \notin {"create", "mark"}
    BY <1>2, <1>3, <2>3 DEF PagesAt, Active, Targets
  <2> QED BY <2>1, <2>2, <2>3
<1>6. answer[r] = None /\ ~NoLocal.again
  BY <1>2 DEF PagesAt, Active, NoLocal
<1>7. "lost" \notin Faults => idea[r].pages = 0
  BY <1>2, <1>6, NoneAssumption DEF PagesAt
<1>8. PagesAt(kind[r], "done", NoLocal, how, idea[r])
  BY <1>2, <1>3, <1>5, <1>6, <1>7 DEF PagesAt
<1>9. Pages(r)'
  BY <1>1, <1>8 DEF Pages
<1> QED BY <1>9, PagesOthers

LEMMA PagesUses ==
  ASSUME TypeInv, PagesInv, NEW r \in Request, NEW c \in Connection,
         Uses(r, c), kind' = kind, kind[r] = "save", pc[r] \in {"read", "store"}
  PROVE  PagesInv'
<1> DEFINE first == IF local[r].again THEN local[r].conn ELSE c
           l == [local[r] EXCEPT !.rec = c, !.conn = first,
                                 !.todo = first.targets]
<1>1. PagesAt(kind[r], pc[r], local[r], answer[r], idea[r])
  BY DEF PagesInv, Pages
<1>2. /\ local[r] \in Local /\ Well(r) /\ idea[r].pages \in Nat
      /\ idea[r].parents \in Targets
  BY TypeParts
<1>3. first \in Connection
  BY <1>2 DEF Well, WellAt, Local
<1>4. first.targets \in Targets
  BY <1>3, Zenon DEF Connection
<1>5. /\ idea'[r].pages = idea[r].pages /\ idea'[r].parents = first.targets
      /\ \A q \in Request \ {r} : idea'[q] = idea[q]
  BY DEF Uses, TypeInv, TypeOK
<1>6. idea[r].pages = 0 \/ (local[r].again /\ idea[r].pages < first.targets)
  BY <1>1, <1>2 DEF PagesAt
<1>7. answer[r] = None /\ ("lost" \notin Faults => idea[r].pages = 0)
  BY <1>1, NoneAssumption DEF PagesAt
<1>8. CASE first.targets = 0
  <2>1. Finish(r, "error")
    BY <1>8 DEF Uses
  <2>2. pc'[r] = "done" /\ local'[r] = NoLocal /\ answer'[r] = "error"
    BY <2>1, FinishFacts DEF TypeInv
  <2>3. idea[r].pages = 0
    BY <1>2, <1>6, <1>8
  <2>4. PagesAt(kind[r], "done", NoLocal, "error", idea'[r])
    BY <1>5, <2>3, NoneAssumption DEF PagesAt, NoLocal
  <2>5. Pages(r)'
    BY <2>2, <2>4 DEF Pages
  <2> QED BY <1>5, <2>1, <2>5, PagesOthers
<1>9. CASE first.targets # 0
  <2>1. Goto(r, "create", l)
    BY <1>9 DEF Uses
  <2>2. pc'[r] = "create" /\ local'[r] = l /\ answer'[r] = answer[r]
    BY <2>1, GotoFacts DEF TypeInv
  <2>3. l.conn = first /\ l.todo = first.targets /\ l.again = local[r].again
    BY <1>2 DEF Local
  <2>4. first.targets > 0
    BY <1>4, <1>9 DEF Targets
  <2>5. /\ ~l.again => idea'[r].pages + l.todo <= idea'[r].parents
        /\ l.again => idea'[r].pages + l.todo < 2 * idea'[r].parents
    BY <1>2, <1>4, <1>5, <1>6, <2>3, <2>4 DEF Targets
  <2>6. PagesAt(kind[r], "create", l, answer[r], idea'[r])
    <3> HIDE DEF l, first
    <3> QED BY <1>1, <1>5, <1>7, <2>3, <2>4, <2>5, NoneAssumption DEF PagesAt
  <2>7. Pages(r)'
    BY <2>2, <2>6 DEF Pages
  <2> QED BY <1>5, <2>1, <2>7, PagesOthers
<1> QED BY <1>8, <1>9

\* The end of a save that failed, perhaps after one more page.
LEMMA PagesRethrows ==
  ASSUME TypeInv, PagesInv, NEW r \in Request, NEW e, Rethrows(r, e),
         kind' = kind, kind[r] = "save", pc[r] \in {"giveUp", "create"},
         \A q \in Request \ {r} : idea'[q] = idea[q],
         idea'[r].parents = idea[r].parents, idea'[r].pages \in Nat,
         "lost" \notin Faults => idea'[r].pages = 0,
         idea'[r].pages = 0 \/ idea'[r].pages < 2 * idea[r].parents
  PROVE  PagesInv'
<1>1. PagesAt(kind[r], pc[r], local[r], answer[r], idea[r])
  BY DEF PagesInv, Pages
<1>2. idea[r].parents \in Targets
  BY TypeParts
<1>3. CASE local[r].again /\ e = "invalid_token"
  <2>1. Goto(r, "mark", local[r])
    BY <1>3 DEF Rethrows
  <2>2. pc'[r] = "mark" /\ local'[r] = local[r] /\ answer'[r] = answer[r]
    BY <2>1, GotoFacts DEF TypeInv
  <2>3. PagesAt(kind[r], "mark", local[r], answer[r], idea'[r])
    BY <1>1, <1>2, <1>3, NoneAssumption DEF PagesAt, Targets
  <2>4. Pages(r)'
    BY <2>2, <2>3 DEF Pages
  <2> QED BY <2>1, <2>4, PagesOthers
<1>4. CASE ~(local[r].again /\ e = "invalid_token")
  <2>1. Finish(r, "error")
    BY <1>4 DEF Rethrows
  <2>2. pc'[r] = "done" /\ local'[r] = NoLocal /\ answer'[r] = "error"
    BY <2>1, FinishFacts DEF TypeInv
  <2>3. PagesAt(kind[r], "done", NoLocal, "error", idea'[r])
    BY <1>2, NoneAssumption DEF PagesAt, NoLocal
  <2>4. Pages(r)'
    BY <2>2, <2>3 DEF Pages
  <2> QED BY <2>1, <2>4, PagesOthers
<1> QED BY <1>3, <1>4

LEMMA PagesSave ==
  ASSUME TypeInv, PagesInv, NEW r \in Request,
         Store(r) \/ ReadConnection(r) \/ GiveUp(r)
  PROVE  PagesInv'
<1>1. /\ local[r] \in Local /\ Well(r) /\ DataInv
      /\ idea[r].pages \in Nat /\ idea[r].parents \in Targets
  BY TypeParts, TypeWhole
<1>2. PagesAt(kind[r], pc[r], local[r], answer[r], idea[r])
  BY DEF PagesInv, Pages
<1>3. CASE Store(r)
  <2>1. local[r].new \in Connection
    BY <1>1, <1>3 DEF Well, WellAt, Store, Local
  <2>2. CASE kind[r] = "save" /\ Uses(r, local[r].new)
    BY <1>3, <2>1, <2>2, PagesUses DEF Store
  <2>3. CASE kind[r] = "settings" /\ Finish(r, "ok") /\ UNCHANGED idea
    BY <1>3, <2>3, PagesFinish DEF Store, Active
  <2>4. CASE kind[r] = "callback" /\ Goto(r, "cleanup", local[r]) /\ UNCHANGED idea
    BY <1>3, <2>4, PagesAdvance DEF Store
  <2> QED BY <1>3, <2>2, <2>3, <2>4 DEF Store
<1>4. CASE ReadConnection(r)
  <2>1. pc[r] = "read" /\ kind[r] = "save" /\ kind' = kind
    BY <1>4 DEF ReadConnection
  <2>2. PICK found \in {row, replica} :
         \/ Finish(r, "error") /\ UNCHANGED idea
         \/ Usable(found) /\ Uses(r, found)
         \/ /\ Goto(r, "refresh", [local[r] EXCEPT !.rec = found])
            /\ UNCHANGED idea
         \/ /\ Goto(r, "giveUp",
                    [local[r] EXCEPT !.rec = found, !.error = "other"])
            /\ UNCHANGED idea
    BY <1>4, Zenon DEF ReadConnection
  <2>3. CASE Finish(r, "error") /\ UNCHANGED idea
    BY <2>1, <2>3, PagesFinish DEF Active
  <2>4. CASE Usable(found) /\ Uses(r, found)
    <3>1. found \in Connection
      BY <1>1, <2>2, <2>4 DEF DataInv, Usable
    <3> QED BY <2>1, <2>4, <3>1, PagesUses
  <2>5. CASE /\ Goto(r, "refresh", [local[r] EXCEPT !.rec = found])
             /\ UNCHANGED idea
    <3> DEFINE l == [local[r] EXCEPT !.rec = found]
    <3>1. l.again = local[r].again /\ l.conn = local[r].conn
      BY <1>1, LocalFields
    <3>2. Goto(r, "refresh", l) /\ UNCHANGED <<kind, idea>>
      BY <2>1, <2>5
    <3> HIDE DEF l
    <3> QED BY <2>1, <3>1, <3>2, PagesAdvance
  <2>6. CASE /\ Goto(r, "giveUp",
                     [local[r] EXCEPT !.rec = found, !.error = "other"])
             /\ UNCHANGED idea
    <3> DEFINE l == [local[r] EXCEPT !.rec = found, !.error = "other"]
    <3>1. l.again = local[r].again /\ l.conn = local[r].conn
      BY <1>1 DEF Local
    <3>2. Goto(r, "giveUp", l) /\ UNCHANGED <<kind, idea>>
      BY <2>1, <2>6
    <3> HIDE DEF l
    <3> QED BY <2>1, <3>1, <3>2, PagesAdvance
  <2> QED BY <2>2, <2>3, <2>4, <2>5, <2>6
<1>5. CASE GiveUp(r)
  <2>1. pc[r] = "giveUp" /\ kind' = kind /\ idea' = idea /\ kind[r] = "save"
    BY <1>1, <1>5 DEF GiveUp, Well, WellAt
  <2>2. CASE Rethrows(r, local[r].error)
    <3>1. "lost" \notin Faults => idea'[r].pages = 0
      BY <1>2, <2>1, NoneAssumption DEF PagesAt
    <3>2. idea'[r].pages = 0 \/ idea'[r].pages < 2 * idea[r].parents
      BY <1>1, <1>2, <2>1 DEF PagesAt, Targets
    <3> QED BY <1>1, <2>1, <2>2, <3>1, <3>2, PagesRethrows
  <2>3. CASE Finish(r, "error")
    BY <2>1, <2>3, PagesFinish DEF Active
  <2> QED BY <1>5, <2>2, <2>3 DEF GiveUp
<1> QED BY <1>3, <1>4, <1>5

LEMMA PagesElsewhere ==
  ASSUME TypeInv, PagesInv, NEW r \in Request,
         \/ Lookup(r) \/ Exchange(r) \/ ExchangeFails(r) \/ Cleanup(r)
         \/ StoreFails(r) \/ RefreshToken(r) \/ RefreshFails(r)
         \/ ReadSettings(r)
  PROVE  PagesInv'
<1>1. local[r] \in Local /\ Well(r)
  BY TypeParts
<1>2. UNCHANGED <<kind, idea>>
  BY DEF Lookup, Exchange, ExchangeFails, Cleanup, StoreFails, RefreshToken,
         RefreshFails, ReadSettings
<1>3. /\ Active(r)
      /\ pc[r] \notin {"idle", "done", "create", "mark"}
  BY DEF Lookup, Exchange, ExchangeFails, Cleanup, StoreFails, RefreshToken,
         RefreshFails, ReadSettings, Active
<1>4. \/ \E label \in {"exchange", "cleanup", "store", "giveUp"} :
           \/ Goto(r, label, local[r])
           \/ \E e : Goto(r, label, [local[r] EXCEPT !.error = e])
           \/ \E c : Goto(r, label, [local[r] EXCEPT !.new = c])
      \/ Finish(r, "error")
      \/ kind[r] = "callback" /\ Finish(r, "ok")
  <2>1. CASE Lookup(r)
    BY <2>1 DEF Lookup
  <2>2. CASE Exchange(r)
    BY <2>2 DEF Exchange
  <2>3. CASE ExchangeFails(r)
    BY <2>3 DEF ExchangeFails
  <2>4. CASE Cleanup(r)
    <3>1. kind[r] = "callback"
      BY <1>1, <2>4 DEF Cleanup, Well, WellAt
    <3>2. Finish(r, "ok") \/ Finish(r, "error")
      BY <2>4 DEF Cleanup
    <3> QED BY <3>1, <3>2
  <2>5. CASE StoreFails(r)
    BY <2>5 DEF StoreFails
  <2>6. CASE RefreshToken(r)
    BY <2>6 DEF RefreshToken
  <2>7. CASE RefreshFails(r)
    BY <2>7 DEF RefreshFails
  <2>8. CASE ReadSettings(r)
    BY <2>8, Zenon DEF ReadSettings
  <2> QED BY <2>1, <2>2, <2>3, <2>4, <2>5, <2>6, <2>7, <2>8
<1>5. CASE Finish(r, "error") \/ (kind[r] = "callback" /\ Finish(r, "ok"))
  BY <1>2, <1>3, <1>5, PagesFinish
<1>6. ASSUME NEW label \in {"exchange", "cleanup", "store", "giveUp"}, NEW l,
             Goto(r, label, l),
             l.again = local[r].again, l.conn = local[r].conn
      PROVE  PagesInv'
  BY <1>2, <1>3, <1>6, PagesAdvance
<1>7. \A x : /\ [local[r] EXCEPT !.error = x].again = local[r].again
             /\ [local[r] EXCEPT !.error = x].conn = local[r].conn
             /\ [local[r] EXCEPT !.new = x].again = local[r].again
             /\ [local[r] EXCEPT !.new = x].conn = local[r].conn
  BY <1>1, LocalFields
<1> QED BY <1>4, <1>5, <1>6, <1>7

LEMMA PagesCreate ==
  ASSUME TypeInv, PagesInv, NEW r \in Request,
         CreatePage(r) \/ ParentFails(r) \/ ServerFails(r)
  PROVE  PagesInv'
<1>1. /\ local[r] \in Local /\ Well(r) /\ DataInv
      /\ idea[r].pages \in Nat /\ idea[r].parents \in Targets
      /\ idea \in [Request -> [parents : Targets, pages : Nat]]
  BY TypeParts, TypeWhole DEF DataInv
<1>2. pc[r] = "create" /\ kind' = kind /\ kind[r] = "save"
  BY <1>1 DEF CreatePage, ParentFails, ServerFails, Well, WellAt
<1>3. PagesAt(kind[r], "create", local[r], answer[r], idea[r])
  BY <1>2 DEF PagesInv, Pages
<1>4. /\ local[r].todo \in Targets /\ local[r].todo > 0
      /\ answer[r] = None /\ idea[r].parents > 0
      /\ "lost" \notin Faults => idea[r].pages = 0
  BY <1>1, <1>2, <1>3, NoneAssumption DEF Well, WellAt, Local, PagesAt
<1>5. ASSUME idea' = [idea EXCEPT ![r].pages = @ + 1]
      PROVE  /\ idea'[r].pages = idea[r].pages + 1
             /\ idea'[r].parents = idea[r].parents
             /\ \A q \in Request \ {r} : idea'[q] = idea[q]
  BY <1>1, <1>5
<1>6. idea[r].pages + 1 < 2 * idea[r].parents
  BY <1>1, <1>3, <1>4 DEF PagesAt, Targets
<1>7. ASSUME NEW e, PageFails(r, e), local[r].todo = 1 \/ UNCHANGED idea,
             \/ UNCHANGED idea
             \/ /\ "lost" \in Faults /\ e = "other"
                /\ idea' = [idea EXCEPT ![r].pages = @ + 1]
      PROVE  PagesInv'
  <2>1. CASE Retries(e) /\ ~local[r].again
    <3> DEFINE l == [local[r] EXCEPT !.again = TRUE]
    <3>1. UNCHANGED idea /\ Goto(r, "read", l)
      BY <1>7, <2>1 DEF Retries, PageFails
    <3>2. l.again /\ l.conn = local[r].conn
      BY <1>1 DEF Local
    <3>3. idea[r].pages < idea[r].parents
      BY <1>1, <1>3, <1>4, <2>1 DEF PagesAt, Targets
    <3>4. PagesAt(kind[r], "read", l, answer[r], idea[r])
      <4> HIDE DEF l
      <4> QED BY <1>3, <3>2, <3>3 DEF PagesAt
    <3>5. pc'[r] = "read" /\ local'[r] = l /\ answer'[r] = answer[r]
      BY <3>1, GotoFacts DEF TypeInv
    <3>6. Pages(r)'
      BY <1>2, <3>1, <3>4, <3>5 DEF Pages
    <3> QED BY <1>2, <3>1, <3>6, PagesOthers
  <2>2. CASE ~(Retries(e) /\ ~local[r].again)
    <3>1. Rethrows(r, e)
      BY <1>7, <2>2 DEF PageFails
    <3>2. /\ idea'[r].pages \in Nat /\ idea'[r].parents = idea[r].parents
          /\ idea'[r].pages < 2 * idea[r].parents
          /\ "lost" \notin Faults => idea'[r].pages = 0
          /\ \A q \in Request \ {r} : idea'[q] = idea[q]
      BY <1>1, <1>4, <1>5, <1>6, <1>7 DEF Targets
    <3> QED BY <1>2, <3>1, <3>2, PagesRethrows
  <2> QED BY <2>1, <2>2
<1>8. CASE CreatePage(r)
  <2>1. Finish(r, "ok") /\ idea' = [idea EXCEPT ![r].pages = @ + 1]
    BY <1>8 DEF CreatePage
  <2>2. pc'[r] = "done" /\ local'[r] = NoLocal /\ answer'[r] = "ok"
    BY <2>1, FinishFacts DEF TypeInv
  <2>3. PagesAt(kind[r], "done", NoLocal, "ok", idea'[r])
    BY <1>1, <1>2, <1>4, <1>5, <1>6, <2>1 DEF PagesAt, NoLocal
  <2>4. Pages(r)'
    BY <1>2, <2>2, <2>3 DEF Pages
  <2> QED BY <1>2, <1>5, <2>1, <2>4, PagesOthers
<1>9. CASE ParentFails(r)
  <2>1. PICK e \in Error :
          /\ \/ UNCHANGED idea
             \/ /\ "lost" \in Faults /\ e = "other"
                /\ idea' = [idea EXCEPT ![r].pages = @ + 1]
          /\ IF local[r].todo > 1
             THEN Goto(r, "create", [local[r] EXCEPT !.todo = @ - 1])
             ELSE PageFails(r, e)
    BY <1>9, Zenon DEF ParentFails
  <2>2. CASE local[r].todo > 1
    <3> DEFINE l == [local[r] EXCEPT !.todo = @ - 1]
    <3>1. Goto(r, "create", l)
      BY <2>1, <2>2
    <3>2. /\ l.todo = local[r].todo - 1 /\ l.conn = local[r].conn
          /\ l.again = local[r].again
      BY <1>1 DEF Local
    <3>3. /\ idea'[r].pages \in Nat /\ idea'[r].parents = idea[r].parents
          /\ idea'[r].pages <= idea[r].pages + 1
          /\ "lost" \notin Faults => idea'[r].pages = 0
          /\ \A q \in Request \ {r} : idea'[q] = idea[q]
      BY <1>1, <1>4, <1>5, <2>1
    <3>4. PagesAt(kind[r], "create", l, answer[r], idea'[r])
      <4> HIDE DEF l
      <4>1. /\ idea'[r].pages + l.todo <= idea[r].pages + local[r].todo
        BY <1>1, <1>4, <3>2, <3>3 DEF Targets
      <4>2. /\ ~l.again => idea'[r].pages + l.todo <= idea'[r].parents
            /\ l.again => idea'[r].pages + l.todo < 2 * idea'[r].parents
        BY <1>1, <1>3, <1>4, <3>2, <3>3, <4>1 DEF PagesAt, Targets
      <4> QED BY <1>2, <1>3, <1>4, <3>2, <3>3, <4>2, NoneAssumption DEF PagesAt
    <3>5. pc'[r] = "create" /\ local'[r] = l /\ answer'[r] = answer[r]
      BY <3>1, GotoFacts DEF TypeInv
    <3>6. Pages(r)'
      BY <1>2, <3>4, <3>5 DEF Pages
    <3> QED BY <1>2, <3>1, <3>3, <3>6, PagesOthers
  <2>3. CASE ~(local[r].todo > 1)
    <3>1. local[r].todo = 1
      BY <1>4, <2>3 DEF Targets
    <3> QED BY <1>7, <2>1, <2>3, <3>1
  <2> QED BY <2>2, <2>3
<1>10. CASE ServerFails(r)
  BY <1>7, <1>10 DEF ServerFails
<1> QED BY <1>8, <1>9, <1>10

LEMMA PagesEnds ==
  ASSUME TypeInv, PagesInv, NEW r \in Request,
         Mark(r) \/ Disconnect(r) \/ RequestFails(r) \/ Stop(r)
  PROVE  PagesInv'
<1>1. Well(r) /\ kind[r] \in Kind \cup {None}
  BY TypeParts
<1>2. UNCHANGED <<kind, idea>> /\ Active(r)
  BY DEF Mark, Disconnect, RequestFails, Stop, Active
<1>3. CASE Disconnect(r)
  <2>1. kind[r] = "save" => Finish(r, "ok") /\ pc[r] = "delete"
    BY <1>3 DEF Disconnect
  <2>2. kind[r] # "save"
    BY <1>1, <1>3 DEF Disconnect, Well, WellAt
  <2> QED BY <1>2, <1>3, <2>2, PagesFinish DEF Disconnect
<1>4. CASE Mark(r) \/ RequestFails(r) \/ Stop(r)
  <2>1. Finish(r, "error") \/ Finish(r, None)
    BY <1>4 DEF Mark, RequestFails, Stop
  <2> QED BY <1>2, <2>1, PagesFinish, NoneAssumption
<1> QED BY <1>3, <1>4

LEMMA PagesBegin ==
  ASSUME TypeInv, PagesInv, NEW r \in Request,
         (\E g \in Grant : BeginCallback(r, g)) \/ BeginOther(r)
  PROVE  PagesInv'
<1>1. ASSUME NEW k \in Kind, NEW label \in {"lookup", "read", "delete"}, NEW l,
             Begin(r, k, label, l), ~l.again
      PROVE  PagesInv'
  <2>1. pc[r] = "idle" /\ Goto(r, label, l) /\ idea' = idea
        /\ kind' = [kind EXCEPT ![r] = k]
    BY <1>1 DEF Begin
  <2>2. /\ pc'[r] = label /\ local'[r] = l /\ answer' = answer /\ kind'[r] = k
        /\ \A q \in Request \ {r} : /\ pc'[q] = pc[q] /\ local'[q] = local[q]
                                    /\ kind'[q] = kind[q]
    BY <2>1, GotoFacts DEF TypeInv, TypeOK
  <2>3. PagesAt(kind[r], "idle", local[r], answer[r], idea[r])
    BY <2>1 DEF PagesInv, Pages
  <2>4. PagesAt(k, label, l, answer[r], idea[r])
    BY <1>1, <2>3, NoneAssumption DEF PagesAt
  <2>5. \A q \in Request \ {r} :
          PagesAt(kind'[q], pc'[q], local'[q], answer'[q], idea'[q])
    BY <2>1, <2>2 DEF PagesInv, Pages
  <2> QED BY <2>1, <2>2, <2>4, <2>5 DEF PagesInv, Pages
<1>2. ASSUME NEW g \in Grant, BeginCallback(r, g) PROVE PagesInv'
  <2>1. ~[NoLocal EXCEPT !.grant = g].again
    BY DEF NoLocal
  <2> QED BY <1>1, <1>2, <2>1 DEF BeginCallback, Kind
<1>3. ASSUME BeginOther(r) PROVE PagesInv'
  <2>1. ~NoLocal.again
    BY DEF NoLocal
  <2> QED BY <1>1, <1>3, <2>1 DEF BeginOther, Kind
<1> QED BY <1>2, <1>3

LEMMA PagesStep == TypeInv /\ PagesInv /\ [Next]_vars => PagesInv'
<1> SUFFICES ASSUME TypeInv, PagesInv, [Next]_vars PROVE PagesInv'
  OBVIOUS
<1>1. ASSUME NEW r \in Request, Step(r) PROVE PagesInv'
  BY <1>1, PagesSave, PagesElsewhere, PagesCreate, PagesEnds DEF Step
<1>2. ASSUME \/ \E g \in Grant : Connect(g) \/ Revoke(g) \/ ExpireState(g)
             \/ Replicate \/ Age \/ UNCHANGED vars
      PROVE  PagesInv'
  <2>1. UNCHANGED request
    BY <1>2 DEF Connect, Revoke, ExpireState, Replicate, Age, vars
  <2> QED BY <2>1 DEF PagesInv, Pages, request
<1> QED BY <1>1, <1>2, PagesBegin DEF Next

LEMMA PagesImply == TypeInv /\ PagesInv => OneIdeaOnePage
<1> SUFFICES ASSUME TypeInv, PagesInv, NEW r \in Request
             PROVE  LET made == idea[r].pages IN
                    /\ made > 1 => /\ "lost" \in Faults
                                   /\ made <= 2 * idea[r].parents - 1
                    /\ kind[r] = "save" /\ answer[r] = "ok" => made > 0
                    /\ answer[r] = "error" /\ "lost" \notin Faults => made = 0
  BY DEF OneIdeaOnePage
<1>1. /\ local[r] \in Local /\ Well(r) /\ idea[r].pages \in Nat
      /\ idea[r].parents \in Targets
  BY TypeParts
<1>2. PagesAt(kind[r], pc[r], local[r], answer[r], idea[r])
  BY DEF PagesInv, Pages
<1>3. local[r].todo \in Targets /\ (pc[r] = "create" => local[r].todo > 0)
  BY <1>1 DEF Local, Well, WellAt
<1>4. idea[r].pages = 0 \/ idea[r].pages < 2 * idea[r].parents
  <2>1. CASE pc[r] = "create"
    BY <1>1, <1>2, <1>3, <2>1 DEF PagesAt, Targets
  <2>2. CASE pc[r] # "create"
    BY <1>1, <1>2, <2>2 DEF PagesAt, Targets
  <2> QED BY <2>1, <2>2
<1>5. idea[r].pages > 1 => "lost" \in Faults
  BY <1>1, <1>2 DEF PagesAt
<1>6. idea[r].pages > 1 => idea[r].pages <= 2 * idea[r].parents - 1
  BY <1>1, <1>4 DEF Targets
<1> QED BY <1>2, <1>5, <1>6 DEF PagesAt

\* One idea is one page, unless a reply of Notion is lost.
THEOREM OnePage == Spec => []OneIdeaOnePage
<1>1. Init => PagesInv
  <2> SUFFICES ASSUME Init, NEW r \in Request PROVE Pages(r)
    BY DEF PagesInv
  <2>1. /\ kind[r] = None /\ pc[r] = "idle" /\ local[r] = NoLocal
        /\ answer[r] = None /\ idea[r].pages = 0
    BY DEF Init
  <2>2. ~local[r].again
    BY <2>1 DEF NoLocal
  <2> QED BY <2>1, <2>2, NoneAssumption DEF Pages, PagesAt, Kind
<1>2. Init => TypeInv
  BY TypeInit
<1>3. TypeInv /\ PagesInv /\ [Next]_vars => (TypeInv /\ PagesInv)'
  BY TypeStep, PagesStep
<1> QED BY <1>1, <1>2, <1>3, PagesImply, PTL DEF Spec

-----------------------------------------------------------------------------
(* Requests under way alone *)

\* A step of a request begins none and ends at most that one.
LEMMA StepShape ==
  ASSUME NEW r \in Request, Step(r)
  PROVE  /\ Active(r) /\ kind' = kind
         /\ \/ \E label, l : Goto(r, label, l)
            \/ \E how : Finish(r, how)
<1>1. CASE Lookup(r) \/ Exchange(r) \/ ExchangeFails(r) \/ Cleanup(r)
  BY <1>1 DEF Lookup, Exchange, ExchangeFails, Cleanup, Active
<1>2. CASE Store(r) \/ StoreFails(r) \/ ReadSettings(r)
  BY <1>2 DEF Store, StoreFails, ReadSettings, Active, Uses
<1>3. CASE ReadConnection(r)
  BY <1>3 DEF ReadConnection, Active, Uses
<1>4. CASE RefreshToken(r) \/ RefreshFails(r) \/ GiveUp(r)
  BY <1>4 DEF RefreshToken, RefreshFails, GiveUp, Active, Rethrows
<1>5. CASE CreatePage(r) \/ ParentFails(r) \/ ServerFails(r)
  BY <1>5 DEF CreatePage, ParentFails, ServerFails, PageFails, Active, Rethrows
<1>6. CASE Mark(r) \/ Disconnect(r) \/ RequestFails(r) \/ Stop(r)
  BY <1>6 DEF Mark, Disconnect, RequestFails, Stop, Active
<1> QED BY <1>1, <1>2, <1>3, <1>4, <1>5, <1>6 DEF Step

LEMMA StepOthers ==
  ASSUME TypeInv, NEW r \in Request, Step(r)
  PROVE  /\ kind' = kind
         /\ \A q \in Request \ {r} : pc'[q] = pc[q] /\ local'[q] = local[q]
BY StepShape DEF TypeInv, TypeOK, Goto, Finish

\* While a request of kind k is under way no other one is.
Exclusive(k) ==
  \A r, q \in Request :
    Active(r) /\ Active(q) /\ kind[r] = k => q = r

LEMMA ExclusiveStep ==
  ASSUME NEW k \in Alone, TypeInv, Exclusive(k), [Next]_vars
  PROVE  Exclusive(k)'
<1>1. ASSUME NEW r \in Request, Step(r) PROVE Exclusive(k)'
  <2>1. kind' = kind /\ \A q \in Request : Active(q)' => Active(q)
    BY <1>1, StepShape, StepOthers DEF Active
  <2> QED BY <2>1 DEF Exclusive
<1>2. ASSUME NEW r \in Request,
             (\E g \in Grant : BeginCallback(r, g)) \/ BeginOther(r)
      PROVE  Exclusive(k)'
  <2>1. PICK j, label, l : Begin(r, j, label, l)
    BY <1>2 DEF BeginCallback, BeginOther
  <2>2. /\ kind'[r] = j
        /\ \A q \in Request \ {r} : kind'[q] = kind[q] /\ pc'[q] = pc[q]
    BY <2>1 DEF Begin, Goto, TypeInv, TypeOK
  <2>3. \A q \in Request : Active(q) => k # j /\ kind[q] # k
    BY <2>1 DEF Begin, Lets
  <2>4. \A q \in Request \ {r} : Active(q)' => Active(q)
    BY <2>2 DEF Active
  <2> QED BY <2>2, <2>3, <2>4 DEF Exclusive
<1>3. ASSUME \/ \E g \in Grant : Connect(g) \/ Revoke(g) \/ ExpireState(g)
             \/ Replicate \/ Age \/ UNCHANGED vars
      PROVE  Exclusive(k)'
  <2>1. UNCHANGED request
    BY <1>3 DEF Connect, Revoke, ExpireState, Replicate, Age, vars
  <2> QED BY <2>1 DEF Exclusive, Active, request
<1> QED BY <1>1, <1>2, <1>3 DEF Next

\* Without stale reads both copies of the item are the same.
LEMMA ReplicaStep ==
  ASSUME "stale" \notin Faults, replica = row, [Next]_vars
  PROVE  replica' = row'
<1>1. ASSUME NEW r \in Request, Step(r) PROVE replica' = row'
  <2>1. ASSUME NEW c, Put(c) PROVE replica' = row'
    BY <2>1 DEF Put
  <2>2. CASE Store(r) \/ GiveUp(r) \/ Mark(r) \/ Disconnect(r)
    BY <2>1, <2>2 DEF Store, GiveUp, Mark, Disconnect
  <2>3. CASE \/ Lookup(r) \/ Exchange(r) \/ ExchangeFails(r) \/ Cleanup(r)
             \/ StoreFails(r) \/ ReadConnection(r)
    BY <2>3 DEF Lookup, Exchange, ExchangeFails, Cleanup, StoreFails,
                ReadConnection, tables
  <2>4. CASE \/ RefreshToken(r) \/ RefreshFails(r) \/ CreatePage(r)
             \/ ParentFails(r) \/ ServerFails(r) \/ ReadSettings(r)
             \/ RequestFails(r) \/ Stop(r)
    BY <2>4 DEF RefreshToken, RefreshFails, CreatePage, ParentFails,
                ServerFails, ReadSettings, RequestFails, Stop, tables
  <2> QED BY <1>1, <2>2, <2>3, <2>4 DEF Step
<1>2. ASSUME NEW r \in Request,
             (\E g \in Grant : BeginCallback(r, g)) \/ BeginOther(r)
      PROVE  replica' = row'
  BY <1>2 DEF BeginCallback, BeginOther, Begin, tables
<1>3. ASSUME \/ \E g \in Grant : Connect(g) \/ Revoke(g) \/ ExpireState(g)
             \/ Replicate \/ Age \/ UNCHANGED vars
      PROVE  replica' = row'
  BY <1>3 DEF Connect, Revoke, ExpireState, Replicate, Age, vars, tables
<1> QED BY <1>1, <1>2, <1>3 DEF Next

-----------------------------------------------------------------------------
(* Only the callback connects *)

\* c is none, or of the authorization of the item.
OfRow(c, item) == c # None => item # None /\ c.grant = item.grant

OwnAt(l, item) == OfRow(l.rec, item) /\ OfRow(l.conn, item) /\ OfRow(l.new, item)

\* What saves and changes of settings hold is of the authorization in the row.
Own(r) == kind[r] \in {"save", "settings"} /\ Active(r) => OwnAt(local[r], row)

OwnInv ==
  /\ replica = row
  /\ Exclusive("callback")
  /\ Exclusive("disconnect")
  /\ \A r \in Request : Own(r)

\* The step leaves the row to the authorization it is of.
SameOwner ==
  IF row = None THEN row' = None ELSE row' # None /\ row'.grant = row.grant

LEMMA OwnOthers ==
  ASSUME TypeInv, OwnInv, NEW r \in Request, Step(r), SameOwner
  PROVE  \A q \in Request \ {r} : Own(q)'
<1> SUFFICES ASSUME NEW q \in Request \ {r} PROVE Own(q)'
  OBVIOUS
<1>1. kind'[q] = kind[q] /\ pc'[q] = pc[q] /\ local'[q] = local[q]
  BY StepOthers
<1>2. OwnAt(local[q], row) => OwnAt(local'[q], row')
  BY <1>1 DEF OwnAt, OfRow, SameOwner
<1> QED BY <1>1, <1>2 DEF OwnInv, Own, Active

LEMMA OwnGoto ==
  ASSUME TypeInv, OwnInv, NEW r \in Request, Step(r), SameOwner,
         NEW label, NEW l, Goto(r, label, l),
         kind[r] \in {"save", "settings"} => OwnAt(l, row)
  PROVE  \A q \in Request : Own(q)'
<1>1. local'[r] = l /\ kind'[r] = kind[r]
  BY GotoFacts, StepShape DEF TypeInv
<1>2. OwnAt(l, row) => OwnAt(local'[r], row')
  BY <1>1 DEF OwnAt, OfRow, SameOwner
<1>3. Own(r)'
  BY <1>1, <1>2 DEF Own
<1> QED BY <1>3, OwnOthers

LEMMA OwnFinish ==
  ASSUME TypeInv, OwnInv, NEW r \in Request, Step(r), SameOwner,
         NEW how, Finish(r, how)
  PROVE  \A q \in Request : Own(q)'
<1>1. pc'[r] = "done"
  BY FinishFacts DEF TypeInv
<1>2. Own(r)'
  BY <1>1 DEF Own, Active
<1> QED BY <1>2, OwnOthers

LEMMA OwnUses ==
  ASSUME TypeInv, OwnInv, NEW r \in Request, Step(r), SameOwner,
         NEW c, Uses(r, c), OfRow(c, row), kind[r] = "save"
  PROVE  \A q \in Request : Own(q)'
<1> DEFINE first == IF local[r].again THEN local[r].conn ELSE c
           l == [local[r] EXCEPT !.rec = c, !.conn = first,
                                 !.todo = first.targets]
<1>1. local[r] \in Local
  BY TypeParts
<1>2. OwnAt(local[r], row)
  BY StepShape DEF OwnInv, Own
<1>3. OfRow(first, row)
  BY <1>2 DEF OwnAt
<1>4. l.rec = c /\ l.conn = first /\ l.new = local[r].new
  BY <1>1 DEF Local
<1>5. OwnAt(l, row)
  <2> HIDE DEF l, first
  <2> QED BY <1>2, <1>3, <1>4 DEF OwnAt
<1>6. Finish(r, "error") \/ Goto(r, "create", l)
  BY DEF Uses
<1> HIDE DEF l
<1> QED BY <1>5, <1>6, OwnGoto, OwnFinish

\* A put of what a save or a change of settings holds.
LEMMA OwnPut ==
  ASSUME NEW c, Put(c), OfRow(c, row), c # None
  PROVE  SameOwner
BY DEF Put, OfRow, SameOwner

LEMMA OwnStore ==
  ASSUME TypeInv, OwnInv, NEW r \in Request, Store(r)
  PROVE  /\ \A q \in Request : Own(q)'
         /\ \/ kind[r] = "callback" /\ pc[r] = "store" /\ pc'[r] = "cleanup"
            \/ SameOwner
<1> DEFINE c == local[r].new
<1>1. /\ local[r] \in Local /\ Well(r) /\ Step(r)
      /\ Put(c) /\ kind' = kind /\ pc[r] = "store"
  BY TypeParts DEF Store, Step
<1>2. c # None
  BY <1>1 DEF Well, WellAt
<1>3. kind[r] \in {"save", "settings"} => OwnAt(local[r], row)
  BY <1>1 DEF OwnInv, Own, Active
<1>4. kind[r] \in {"save", "settings"} => OfRow(c, row) /\ SameOwner
  BY <1>1, <1>2, <1>3, OwnPut DEF OwnAt
<1>5. CASE kind[r] = "save" /\ Uses(r, c)
  BY <1>1, <1>4, <1>5, OwnUses
<1>6. CASE kind[r] = "settings" /\ Finish(r, "ok")
  BY <1>1, <1>4, <1>6, OwnFinish
<1>7. CASE kind[r] = "callback" /\ Goto(r, "cleanup", local[r])
  <2>1. \A q \in Request \ {r} : ~Active(q)
    BY <1>7, StepShape, <1>1 DEF OwnInv, Exclusive
  <2>2. \A q \in Request \ {r} : ~Active(q)'
    BY <1>1, <2>1, StepOthers DEF Active
  <2>3. Own(r)'
    BY <1>1, <1>7 DEF Own
  <2>4. \A q \in Request \ {r} : Own(q)'
    BY <2>2 DEF Own
  <2>5. pc'[r] = "cleanup"
    BY <1>7, GotoFacts DEF TypeInv
  <2> QED BY <1>1, <1>7, <2>3, <2>4, <2>5
<1> QED BY <1>1, <1>4, <1>5, <1>6, <1>7 DEF Store

LEMMA OwnGiveUp ==
  ASSUME TypeInv, OwnInv, NEW r \in Request, GiveUp(r) \/ Mark(r)
  PROVE  SameOwner /\ \A q \in Request : Own(q)'
<1>1. /\ local[r] \in Local /\ Well(r) /\ Step(r)
      /\ Active(r)
  BY TypeParts DEF GiveUp, Mark, Step, Active
<1>2. kind[r] = "save"
  BY <1>1 DEF Well, WellAt, GiveUp, Mark
<1>3. OwnAt(local[r], row)
  BY <1>1, <1>2 DEF OwnInv, Own
<1>4. CASE GiveUp(r)
  <2>1. local[r].rec \in Connection
    BY <1>1, <1>4 DEF Well, WellAt, GiveUp, Local
  <2>2. OfRow(Failed(local[r].rec), row) /\ Failed(local[r].rec) # None
    BY <1>3, <2>1, FailedFields, ConnectionType, NotConnection DEF OwnAt, OfRow
  <2>3. SameOwner
    <3>1. CASE Put(Failed(local[r].rec))
      BY <2>2, <3>1, OwnPut
    <3>2. CASE UNCHANGED row
      BY <3>2 DEF SameOwner
    <3> QED BY <1>4, <3>1, <3>2 DEF GiveUp
  <2>4. \/ Goto(r, "mark", local[r])
        \/ Finish(r, "error")
    BY <1>4 DEF GiveUp, Rethrows
  <2> QED BY <1>1, <1>3, <2>3, <2>4, OwnGoto, OwnFinish
<1>5. CASE Mark(r)
  <2>1. local[r].conn \in Connection
    BY <1>1, <1>5 DEF Well, WellAt, Mark, Local
  <2>2. OfRow(Failed(local[r].conn), row) /\ Failed(local[r].conn) # None
    BY <1>3, <2>1, FailedFields, ConnectionType, NotConnection DEF OwnAt, OfRow
  <2>3. SameOwner
    BY <1>5, <2>2, OwnPut DEF Mark
  <2> QED BY <1>1, <1>5, <2>3, OwnFinish DEF Mark
<1> QED BY <1>4, <1>5

\* Steps that leave the row as it is.
LEMMA OwnElsewhere ==
  ASSUME TypeInv, OwnInv, NEW r \in Request,
         \/ Lookup(r) \/ Exchange(r) \/ ExchangeFails(r) \/ Cleanup(r)
         \/ StoreFails(r) \/ ReadConnection(r)
         \/ RefreshToken(r) \/ RefreshFails(r)
         \/ CreatePage(r) \/ ParentFails(r) \/ ServerFails(r)
         \/ ReadSettings(r) \/ RequestFails(r) \/ Stop(r)
  PROVE  SameOwner /\ \A q \in Request : Own(q)'
<1>1. row' = row
  <2>1. CASE \/ Lookup(r) \/ Exchange(r) \/ ExchangeFails(r) \/ Cleanup(r)
             \/ StoreFails(r) \/ ReadConnection(r)
    BY <2>1 DEF Lookup, Exchange, ExchangeFails, Cleanup, StoreFails,
                ReadConnection, tables
  <2>2. CASE \/ RefreshToken(r) \/ RefreshFails(r) \/ CreatePage(r)
             \/ ParentFails(r) \/ ServerFails(r) \/ ReadSettings(r)
             \/ RequestFails(r) \/ Stop(r)
    BY <2>2 DEF RefreshToken, RefreshFails, CreatePage, ParentFails,
                ServerFails, ReadSettings, RequestFails, Stop, tables
  <2> QED BY <2>1, <2>2
<1>2. SameOwner /\ Step(r)
  BY <1>1 DEF SameOwner, Step
<1> SUFFICES \A q \in Request : Own(q)'
  BY <1>2
<1>3. local[r] \in Local /\ Well(r) /\ DataInv /\ Active(r) /\ replica = row
  BY <1>2, TypeParts, TypeWhole, StepShape DEF OwnInv
<1>4. kind[r] \in {"save", "settings"} => OwnAt(local[r], row)
  BY <1>3 DEF OwnInv, Own
<1>5. ASSUME NEW label, NEW l, Goto(r, label, l),
             l.rec = local[r].rec, l.conn = local[r].conn, l.new = local[r].new
      PROVE  \A q \in Request : Own(q)'
  <2>1. kind[r] \in {"save", "settings"} => OwnAt(l, row)
    BY <1>4, <1>5 DEF OwnAt
  <2> QED BY <1>2, <1>5, <2>1, OwnGoto
<1>6. \A x : /\ [local[r] EXCEPT !.error = x].rec = local[r].rec
             /\ [local[r] EXCEPT !.error = x].conn = local[r].conn
             /\ [local[r] EXCEPT !.error = x].new = local[r].new
  BY <1>3, LocalFields
<1>7. ASSUME NEW how, Finish(r, how) PROVE \A q \in Request : Own(q)'
  BY <1>2, <1>7, OwnFinish
<1>8. CASE \/ Lookup(r) \/ ExchangeFails(r) \/ StoreFails(r) \/ RefreshFails(r)
  <2>1. \/ \E label : Goto(r, label, local[r])
        \/ \E label, e : Goto(r, label, [local[r] EXCEPT !.error = e])
        \/ \E how : Finish(r, how)
    <3>1. CASE Lookup(r)
      BY <3>1 DEF Lookup
    <3>2. CASE ExchangeFails(r)
      BY <3>2 DEF ExchangeFails
    <3>3. CASE StoreFails(r)
      BY <3>3 DEF StoreFails
    <3>4. CASE RefreshFails(r)
      BY <3>4 DEF RefreshFails
    <3> QED BY <1>8, <3>1, <3>2, <3>3, <3>4
  <2>2. CASE \E label : Goto(r, label, local[r])
    BY <1>5, <2>2
  <2>3. CASE \E label, e : Goto(r, label, [local[r] EXCEPT !.error = e])
    BY <1>5, <1>6, <2>3
  <2>4. CASE \E how : Finish(r, how)
    BY <1>7, <2>4
  <2> QED BY <2>1, <2>2, <2>3, <2>4
<1>9. CASE Exchange(r)
  <2>1. PICK l : Goto(r, "store", l)
    BY <1>9 DEF Exchange
  <2>2. kind[r] = "callback"
    BY <1>3, <1>9 DEF Exchange, Well, WellAt
  <2> QED BY <1>2, <2>1, <2>2, OwnGoto
<1>11. CASE Cleanup(r)
  BY <1>7, <1>11 DEF Cleanup
<1>13. CASE ReadConnection(r)
  <2>1. kind[r] = "save"
    BY <1>13 DEF ReadConnection
  <2>2. \/ Finish(r, "error")
        \/ Usable(row) /\ Uses(r, row)
        \/ Goto(r, "refresh", [local[r] EXCEPT !.rec = row])
        \/ Goto(r, "giveUp",
                [local[r] EXCEPT !.rec = row, !.error = "other"])
    BY <1>3, <1>13, Zenon DEF ReadConnection
  <2>3. OfRow(row, row)
    BY DEF OfRow
  <2>4. ASSUME NEW label, NEW l, Goto(r, label, l), l.rec = row,
               l.conn = local[r].conn, l.new = local[r].new
        PROVE  \A q \in Request : Own(q)'
    <3>1. OwnAt(l, row)
      BY <1>4, <2>1, <2>3, <2>4 DEF OwnAt
    <3> QED BY <1>2, <2>4, <3>1, OwnGoto
  <2>5. /\ [local[r] EXCEPT !.rec = row].rec = row
        /\ [local[r] EXCEPT !.rec = row].conn = local[r].conn
        /\ [local[r] EXCEPT !.rec = row].new = local[r].new
    BY <1>3, LocalFields
  <2> DEFINE l == [local[r] EXCEPT !.rec = row, !.error = "other"]
  <2>6. l.rec = row /\ l.conn = local[r].conn /\ l.new = local[r].new
    BY <1>3 DEF Local
  <2>7. CASE Goto(r, "giveUp", l)
    <3> HIDE DEF l
    <3> QED BY <2>4, <2>6, <2>7
  <2> QED BY <1>2, <1>7, <2>1, <2>2, <2>3, <2>4, <2>5, <2>7, OwnUses
<1>14. CASE RefreshToken(r)
  <2> DEFINE c == local[r].rec
  <2>1. PICK rotates, timed :
          Goto(r, "store",
               [local[r] EXCEPT !.new = Renewed(c, issued + 1, rotates, timed)])
    BY <1>14 DEF RefreshToken
  <2> DEFINE n == Renewed(c, issued + 1, rotates, timed)
             l == [local[r] EXCEPT !.new = n]
  <2>2. c \in Connection /\ kind[r] = "save"
    BY <1>3, <1>14 DEF RefreshToken, Well, WellAt, Local
  <2>3. n.grant = c.grant
    BY <2>2, RenewedFields
  <2>4. l.rec = c /\ l.conn = local[r].conn /\ l.new = n
    BY <1>3, LocalFields
  <2>5. OwnAt(l, row)
    <3> HIDE DEF l, n
    <3> QED BY <1>4, <2>2, <2>3, <2>4, NotConnection DEF OwnAt, OfRow
  <2> QED BY <1>2, <2>1, <2>5, OwnGoto
<1>16. CASE CreatePage(r)
  BY <1>7, <1>16 DEF CreatePage
<1>17. ASSUME NEW e, PageFails(r, e) PROVE \A q \in Request : Own(q)'
  <2>1. /\ [local[r] EXCEPT !.again = TRUE].rec = local[r].rec
        /\ [local[r] EXCEPT !.again = TRUE].conn = local[r].conn
        /\ [local[r] EXCEPT !.again = TRUE].new = local[r].new
    BY <1>3 DEF Local
  <2> QED BY <1>5, <1>7, <1>17, <2>1 DEF PageFails, Rethrows
<1>18. CASE ParentFails(r)
  <2>1. \/ Goto(r, "create", [local[r] EXCEPT !.todo = @ - 1])
        \/ \E e \in Error : PageFails(r, e)
    BY <1>18, Zenon DEF ParentFails
  <2>2. /\ [local[r] EXCEPT !.todo = @ - 1].rec = local[r].rec
        /\ [local[r] EXCEPT !.todo = @ - 1].conn = local[r].conn
        /\ [local[r] EXCEPT !.todo = @ - 1].new = local[r].new
    BY <1>3 DEF Local
  <2> QED BY <1>5, <1>17, <2>1, <2>2
<1>19. CASE ServerFails(r)
  BY <1>17, <1>19 DEF ServerFails
<1>20. CASE ReadSettings(r)
  <2>1. \/ Finish(r, "error")
        \/ /\ row # None
           /\ \E t \in Targets :
                Goto(r, "store",
                     [local[r] EXCEPT !.new = [row EXCEPT !.targets = t]])
    BY <1>3, <1>20, Zenon DEF ReadSettings
  <2>2. ASSUME row # None, NEW t \in Targets,
               Goto(r, "store",
                    [local[r] EXCEPT !.new = [row EXCEPT !.targets = t]])
        PROVE  \A q \in Request : Own(q)'
    <3> DEFINE n == [row EXCEPT !.targets = t]
               l == [local[r] EXCEPT !.new = n]
    <3>1. n.grant = row.grant
      BY <1>3, <2>2 DEF DataInv, Connection
    <3>2. /\ l.rec = local[r].rec /\ l.conn = local[r].conn /\ l.new = n
      BY <1>3, LocalFields
    <3>3. kind[r] = "settings"
      BY <1>20 DEF ReadSettings
    <3>4. OwnAt(l, row)
      <4> HIDE DEF l, n
      <4> QED BY <1>4, <2>2, <3>1, <3>2, <3>3 DEF OwnAt, OfRow
    <3> QED BY <1>2, <2>2, <3>4, OwnGoto
  <2> QED BY <1>7, <2>1, <2>2
<1>21. CASE RequestFails(r) \/ Stop(r)
  BY <1>7, <1>21 DEF RequestFails, Stop
<1> QED BY <1>2, <1>8, <1>9, <1>11, <1>13, <1>14, <1>16, <1>18, <1>19, <1>20, <1>21

LEMMA OwnDisconnect ==
  ASSUME TypeInv, OwnInv, NEW r \in Request, Disconnect(r)
  PROVE  row' = None /\ \A q \in Request : Own(q)'
<1>1. Well(r) /\ Step(r) /\ Active(r) /\ pc[r] = "delete"
  BY TypeParts DEF Disconnect, Step, Active
<1>2. kind[r] = "disconnect"
  BY <1>1 DEF Well, WellAt
<1>3. \A q \in Request \ {r} : ~Active(q)
  BY <1>1, <1>2 DEF OwnInv, Exclusive
<1>4. \A q \in Request \ {r} : ~Active(q)'
  BY <1>1, <1>3, StepOthers DEF Active
<1>5. Own(r)'
  BY <1>1, <1>2, StepShape DEF Own
<1>6. \A q \in Request \ {r} : Own(q)'
  BY <1>4 DEF Own
<1> QED BY <1>5, <1>6 DEF Disconnect, Put

\* A step of a request changes the row's owner only as the property allows.
LEMMA OwnRequest ==
  ASSUME TypeInv, OwnInv, NEW r \in Request, Step(r)
  PROVE  /\ \A q \in Request : Own(q)'
         /\ \/ kind[r] = "callback" /\ pc[r] = "store" /\ pc'[r] = "cleanup"
            \/ SameOwner
            \/ row' = None
<1>1. CASE Store(r)
  BY <1>1, OwnStore
<1>2. CASE GiveUp(r) \/ Mark(r)
  BY <1>2, OwnGiveUp
<1>3. CASE Disconnect(r)
  BY <1>3, OwnDisconnect
<1>4. CASE \/ Lookup(r) \/ Exchange(r) \/ ExchangeFails(r) \/ Cleanup(r)
           \/ StoreFails(r) \/ ReadConnection(r)
           \/ RefreshToken(r) \/ RefreshFails(r)
           \/ CreatePage(r) \/ ParentFails(r) \/ ServerFails(r)
           \/ ReadSettings(r) \/ RequestFails(r) \/ Stop(r)
  BY <1>4, OwnElsewhere
<1> QED BY <1>1, <1>2, <1>3, <1>4 DEF Step

LEMMA OwnBegin ==
  ASSUME TypeInv, OwnInv, NEW r \in Request,
         (\E g \in Grant : BeginCallback(r, g)) \/ BeginOther(r)
  PROVE  row' = row /\ \A q \in Request : Own(q)'
<1>1. PICK k, label, l : /\ Begin(r, k, label, l)
                         /\ k # "callback" => l = NoLocal
  BY DEF BeginCallback, BeginOther
<1>2. /\ kind'[r] = k /\ local'[r] = l /\ row' = row
      /\ \A q \in Request \ {r} : /\ kind'[q] = kind[q] /\ pc'[q] = pc[q]
                                  /\ local'[q] = local[q]
  BY <1>1 DEF Begin, Goto, TypeInv, TypeOK, tables
<1>3. OwnAt(NoLocal, row')
  BY DEF OwnAt, OfRow, NoLocal
<1>4. Own(r)'
  BY <1>1, <1>2, <1>3 DEF Own
<1>5. \A q \in Request \ {r} : Own(q)'
  BY <1>2 DEF OwnInv, Own, Active
<1> QED BY <1>2, <1>4, <1>5

LEMMA OwnStep ==
  ASSUME {"callback", "disconnect"} \subseteq Alone, "stale" \notin Faults,
         TypeInv, OwnInv, [Next]_vars
  PROVE  OwnInv' /\ ConnectsByCallback
<1>1. Exclusive("callback")' /\ Exclusive("disconnect")' /\ replica' = row'
  BY ExclusiveStep, ReplicaStep DEF OwnInv
<1>2. ASSUME NEW r \in Request, Step(r)
      PROVE  ConnectsByCallback /\ \A q \in Request : Own(q)'
  BY <1>2, OwnRequest DEF SameOwner, ConnectsByCallback
<1>3. ASSUME NEW r \in Request,
             (\E g \in Grant : BeginCallback(r, g)) \/ BeginOther(r)
      PROVE  ConnectsByCallback /\ \A q \in Request : Own(q)'
  BY <1>3, OwnBegin DEF ConnectsByCallback
<1>4. ASSUME \/ \E g \in Grant : Connect(g) \/ Revoke(g) \/ ExpireState(g)
             \/ Replicate \/ Age \/ UNCHANGED vars
      PROVE  ConnectsByCallback /\ \A q \in Request : Own(q)'
  <2>1. UNCHANGED <<row, request>>
    BY <1>4 DEF Connect, Revoke, ExpireState, Replicate, Age, vars, tables
  <2> QED BY <2>1 DEF OwnInv, Own, Active, request, ConnectsByCallback
<1>5. ConnectsByCallback /\ \A q \in Request : Own(q)'
  BY <1>2, <1>3, <1>4 DEF Next
<1> QED BY <1>1, <1>5 DEF OwnInv

\* Nothing but a callback brings a connection back, if no request overlaps one
\* that connects or disconnects and no read is stale.
THEOREM CallbackConnects ==
  ASSUME {"callback", "disconnect"} \subseteq Alone, "stale" \notin Faults
  PROVE  Spec => OnlyCallbackConnects
<1>1. Init => OwnInv
  BY DEF Init, OwnInv, Exclusive, Own, Active
<1>2. TypeInv /\ OwnInv /\ [Next]_vars => OwnInv' /\ [ConnectsByCallback]_vars
  BY OwnStep
<1>3. TypeInv /\ OwnInv /\ [Next]_vars =>
        (TypeInv /\ OwnInv)' /\ [ConnectsByCallback]_vars
  BY <1>2, TypeStep
<1> QED BY <1>1, <1>3, TypeInit, PTL DEF Spec, OnlyCallbackConnects

-----------------------------------------------------------------------------
(* The newest token is kept *)

\* A connection of the authorization g, with the refresh token t.
Has(c, g, t) == c # None /\ c.grant = g /\ c.refresh = t

HeldAt(l, g, t) == Has(l.rec, g, t) \/ Has(l.conn, g, t) \/ Has(l.new, g, t)

HeldBeside(r, g, t) ==
  \/ Has(row, g, t) \/ Has(replica, g, t)
  \/ \E q \in Request \ {r} : HeldAt(local[q], g, t)

Held(g, t) ==
  \/ Has(row, g, t) \/ Has(replica, g, t)
  \/ \E q \in Request : HeldAt(local[q], g, t)

\* Whoever holds a connection got it from Notion.
KnownInv ==
  \A g, t : Held(g, t) => g \in spent /\ (t # None => t \in Token /\ t <= issued)

\* Whoever is about to put new tokens has the ones Notion honours, alone.
Sole(r) ==
  LET c == local[r].new IN
  pc[r] = "store" =>
    c.refresh = newest[c.grant] /\ ~HeldBeside(r, c.grant, c.refresh)

KeptInv ==
  /\ KnownInv
  /\ \A r \in Request : Sole(r) /\ kind[r] # "settings"
  /\ NewestTokenKept

\* What a request may take a connection from.
Sources(r) == {row, replica, local[r].rec, local[r].conn, local[r].new}

CopyOf(r, d) ==
  d # None => \E c \in Sources(r) :
                c # None /\ d.grant = c.grant /\ d.refresh = c.refresh

\* Every step but the two that Notion answers with new tokens makes connections
\* of connections.
LEMMA Spread ==
  ASSUME TypeInv, NEW r \in Request, Step(r), ~RefreshToken(r), ~Exchange(r),
         NEW d \in {row', replica', local'[r].rec, local'[r].conn, local'[r].new}
  PROVE  CopyOf(r, d)
<1>1. /\ local[r] \in Local /\ Well(r)
      /\ row \in Connection \cup {None} /\ replica \in Connection \cup {None}
  BY TypeParts, TypeWhole DEF DataInv
<1>2. \A c \in Sources(r) : CopyOf(r, c)
  BY DEF CopyOf
<1>3. \A c \in Sources(r) \cap Connection : CopyOf(r, Failed(c))
  BY FailedFields, NotConnection DEF CopyOf
<1>4. \A c \in Sources(r) \cap Connection, t \in Targets : CopyOf(r, [c EXCEPT !.targets = t])
  BY NotConnection DEF CopyOf, Connection
<1>5. ASSUME NEW c, Put(c), CopyOf(r, c)
      PROVE  CopyOf(r, row') /\ CopyOf(r, replica')
  BY <1>2, <1>5 DEF Put, Sources
<1>6. ASSUME UNCHANGED <<row, replica>>
      PROVE  CopyOf(r, row') /\ CopyOf(r, replica')
  BY <1>2, <1>6 DEF Sources
<1>7. CopyOf(r, row') /\ CopyOf(r, replica')
  <2>1. CASE Store(r)
    BY <1>2, <1>5, <2>1 DEF Store, Sources
  <2>2. CASE GiveUp(r)
    <3>1. local[r].rec \in Sources(r) \cap Connection
      BY <1>1, <2>2 DEF GiveUp, Well, WellAt, Local, Sources
    <3> QED BY <1>3, <1>5, <1>6, <2>2, <3>1 DEF GiveUp
  <2>3. CASE Mark(r)
    <3>1. local[r].conn \in Sources(r) \cap Connection
      BY <1>1, <2>3 DEF Mark, Well, WellAt, Local, Sources
    <3> QED BY <1>3, <1>5, <2>3, <3>1 DEF Mark
  <2>4. CASE Disconnect(r)
    BY <1>5, <2>4 DEF Disconnect, CopyOf
  <2>5. CASE \/ Lookup(r) \/ ExchangeFails(r) \/ Cleanup(r)
             \/ StoreFails(r) \/ ReadConnection(r)
    BY <1>6, <2>5 DEF Lookup, ExchangeFails, Cleanup, StoreFails, ReadConnection,
                      tables
  <2>6. CASE \/ RefreshFails(r) \/ CreatePage(r) \/ ParentFails(r)
             \/ ServerFails(r) \/ ReadSettings(r) \/ RequestFails(r) \/ Stop(r)
    BY <1>6, <2>6 DEF RefreshFails, CreatePage, ParentFails, ServerFails,
                      ReadSettings, RequestFails, Stop, tables
  <2> QED BY <2>1, <2>2, <2>3, <2>4, <2>5, <2>6 DEF Step
<1> DEFINE Fine(l) == CopyOf(r, l.rec) /\ CopyOf(r, l.conn) /\ CopyOf(r, l.new)
<1>8. Fine(local[r]) /\ Fine(NoLocal)
  BY <1>2 DEF Sources, CopyOf, NoLocal
<1> HIDE DEF Fine
<1>9. ASSUME NEW label, NEW l, Goto(r, label, l), Fine(l) PROVE Fine(local'[r])
  BY <1>9, GotoFacts DEF TypeInv
<1>10. ASSUME NEW how, Finish(r, how) PROVE Fine(local'[r])
  BY <1>8, <1>10, FinishFacts DEF TypeInv
<1>11. /\ \A e : Fine([local[r] EXCEPT !.error = e])
       /\ Fine([local[r] EXCEPT !.again = TRUE])
       /\ \A n : Fine([local[r] EXCEPT !.todo = n])
  BY <1>1, <1>8, Zenon DEF Local, Fine
<1>12. ASSUME NEW e, Rethrows(r, e) \/ PageFails(r, e) PROVE Fine(local'[r])
  BY <1>8, <1>9, <1>10, <1>11, <1>12 DEF Rethrows, PageFails
<1>13. ASSUME NEW c \in Sources(r), Uses(r, c) PROVE Fine(local'[r])
  <2> DEFINE first == IF local[r].again THEN local[r].conn ELSE c
             l == [local[r] EXCEPT !.rec = c, !.conn = first,
                                   !.todo = first.targets]
  <2>1. l.rec = c /\ l.conn = first /\ l.new = local[r].new
    BY <1>1 DEF Local
  <2>2. c \in Sources(r) /\ first \in Sources(r) /\ local[r].new \in Sources(r)
    BY DEF Sources
  <2>3. Finish(r, "error") \/ Goto(r, "create", l)
    BY <1>13 DEF Uses
  <2> HIDE DEF l, first
  <2>4. Fine(l)
    BY <1>2, <2>1, <2>2 DEF Fine
  <2> QED BY <1>9, <1>10, <2>3, <2>4
<1>14. Fine(local'[r])
  <2>1. CASE Lookup(r) \/ ExchangeFails(r) \/ Cleanup(r)
    BY <1>8, <1>9, <1>10, <1>11, <2>1 DEF Lookup, ExchangeFails, Cleanup
  <2>2. CASE Store(r)
    <3>1. local[r].new \in Sources(r)
      BY DEF Sources
    <3> QED BY <1>8, <1>9, <1>10, <1>13, <2>2, <3>1 DEF Store
  <2>3. CASE StoreFails(r) \/ RefreshFails(r)
    BY <1>9, <1>10, <1>11, <2>3 DEF StoreFails, RefreshFails
  <2>4. CASE ReadConnection(r)
    <3>1. PICK found \in {row, replica} :
            \/ Finish(r, "error")
            \/ Uses(r, found)
            \/ Goto(r, "refresh", [local[r] EXCEPT !.rec = found])
            \/ Goto(r, "giveUp",
                    [local[r] EXCEPT !.rec = found, !.error = "other"])
      BY <2>4 DEF ReadConnection
    <3> DEFINE l == [local[r] EXCEPT !.rec = found]
               m == [local[r] EXCEPT !.rec = found, !.error = "other"]
    <3>2. /\ l.rec = found /\ l.conn = local[r].conn /\ l.new = local[r].new
          /\ m.rec = found /\ m.conn = local[r].conn /\ m.new = local[r].new
      BY <1>1 DEF Local
    <3>3. found \in Sources(r)
      BY DEF Sources
    <3>4. Finish(r, "error") \/ Uses(r, found) \/ Goto(r, "refresh", l)
          \/ Goto(r, "giveUp", m)
      BY <3>1
    <3> HIDE DEF l, m
    <3>5. Fine(l) /\ Fine(m)
      BY <1>2, <1>8, <3>2, <3>3 DEF Fine
    <3> QED BY <1>9, <1>10, <1>13, <3>3, <3>4, <3>5
  <2>5. CASE GiveUp(r) \/ Mark(r) \/ Disconnect(r) \/ RequestFails(r) \/ Stop(r)
    BY <1>10, <1>12, <2>5 DEF GiveUp, Mark, Disconnect, RequestFails, Stop
  <2>6. CASE CreatePage(r) \/ ServerFails(r)
    BY <1>10, <1>12, <2>6 DEF CreatePage, ServerFails
  <2>7. CASE ParentFails(r)
    <3>1. \/ Goto(r, "create", [local[r] EXCEPT !.todo = @ - 1])
          \/ \E e \in Error : PageFails(r, e)
      BY <2>7, Zenon DEF ParentFails
    <3> QED BY <1>9, <1>11, <1>12, <3>1
  <2>8. CASE ReadSettings(r)
    <3>1. \/ Finish(r, "error")
          \/ \E found \in {row, replica}, t \in Targets :
               /\ found # None
               /\ Goto(r, "store",
                       [local[r] EXCEPT !.new = [found EXCEPT !.targets = t]])
      BY <2>8, Zenon DEF ReadSettings
    <3>2. ASSUME NEW found \in {row, replica}, NEW t \in Targets, found # None,
                 Goto(r, "store",
                      [local[r] EXCEPT !.new = [found EXCEPT !.targets = t]])
          PROVE  Fine(local'[r])
      <4> DEFINE n == [found EXCEPT !.targets = t]
                 l == [local[r] EXCEPT !.new = n]
      <4>1. CopyOf(r, n)
        BY <1>1, <1>4, <3>2 DEF Sources
      <4> HIDE DEF n
      <4>2. l.rec = local[r].rec /\ l.conn = local[r].conn /\ l.new = n
        BY <1>1, LocalFields
      <4>3. Goto(r, "store", l)
        BY <3>2 DEF n
      <4> HIDE DEF l
      <4> QED BY <1>8, <1>9, <4>1, <4>2, <4>3 DEF Fine
    <3> QED BY <1>10, <3>1, <3>2
  <2> QED BY <2>1, <2>2, <2>3, <2>4, <2>5, <2>6, <2>7, <2>8 DEF Step
<1> QED BY <1>7, <1>14 DEF Fine

\* What a request that has been given no new tokens holds, was held before.
LEMMA NothingNew ==
  ASSUME TypeInv, NEW r \in Request, Step(r), ~RefreshToken(r), ~Exchange(r),
         NEW g, NEW t
  PROVE  /\ \/ Has(row', g, t) \/ Has(replica', g, t) \/ HeldAt(local'[r], g, t)
            => Has(row, g, t) \/ Has(replica, g, t) \/ HeldAt(local[r], g, t)
         /\ Held(g, t)' => Held(g, t)
         /\ \A q \in Request \ {r} : HeldBeside(q, g, t)' => HeldBeside(q, g, t)
<1>1. ASSUME NEW d \in {row', replica', local'[r].rec, local'[r].conn, local'[r].new},
             Has(d, g, t)
      PROVE  Has(row, g, t) \/ Has(replica, g, t) \/ HeldAt(local[r], g, t)
  <2>1. CopyOf(r, d)
    BY Spread
  <2> QED BY <1>1, <2>1 DEF CopyOf, Sources, Has, HeldAt
<1>2. \/ Has(row', g, t) \/ Has(replica', g, t) \/ HeldAt(local'[r], g, t)
      => Has(row, g, t) \/ Has(replica, g, t) \/ HeldAt(local[r], g, t)
  BY <1>1 DEF HeldAt
<1>3. \A q \in Request \ {r} : HeldAt(local'[q], g, t) => HeldAt(local[q], g, t)
  BY StepOthers
<1> QED BY <1>2, <1>3 DEF Held, HeldBeside

\* The request r is given tokens of the authorization h with the refresh token x:
\* by the exchange of its code, or by a refresh with the newest one.
NewTokens(r, h, x) ==
  /\ local'[r].new.grant = h /\ local'[r].new.refresh = x
  /\ newest' = [newest EXCEPT ![h] = x]
  /\ issued' = issued + 1 /\ pc'[r] = "store"
  /\ UNCHANGED <<row, replica>>
  /\ \/ h \notin spent /\ spent' = spent \cup {h}
     \/ /\ x = issued + 1 /\ spent' = spent
        /\ local[r].rec # None /\ local[r].rec.grant = h
        /\ local[r].rec.refresh = newest[h] /\ newest[h] # None
        /\ kind[r] = "save" /\ local'[r].rec = local[r].rec
  /\ \A g, t : HeldAt(local'[r], g, t) =>
       \/ HeldAt(local[r], g, t)
       \/ g = h /\ t = x

\* New tokens are of the number after the last one Notion gave.
LEMMA OneNew ==
  ASSUME TypeInv, NEW r \in Request, Rotation \subseteq {TRUE},
         RefreshToken(r) \/ Exchange(r)
  PROVE  \E h \in Grant, x \in {issued + 1, None} : NewTokens(r, h, x)
<1>1. local[r] \in Local /\ Well(r)
  BY TypeParts
<1>2. ASSUME NEW c, Goto(r, "store", [local[r] EXCEPT !.new = c])
      PROVE  /\ local'[r].new = c /\ local'[r].rec = local[r].rec
             /\ local'[r].conn = local[r].conn /\ pc'[r] = "store"
  <2> DEFINE l == [local[r] EXCEPT !.new = c]
  <2>1. l.rec = local[r].rec /\ l.conn = local[r].conn /\ l.new = c
    BY <1>1, LocalFields
  <2>2. Goto(r, "store", l)
    BY <1>2
  <2> HIDE DEF l
  <2> QED BY <2>1, <2>2, GotoFacts DEF TypeInv
<1>3. CASE Exchange(r)
  <2> DEFINE h == local[r].grant
  <2>1. PICK x \in {issued + 1, None}, expires \in {issued + 1, None} :
          /\ Issue(h, x)
          /\ Goto(r, "store",
                  [local[r] EXCEPT !.new = Connected(h, issued + 1, x, expires)])
    BY <1>3 DEF Exchange
  <2> DEFINE c == Connected(h, issued + 1, x, expires)
  <2>2. c.grant = h /\ c.refresh = x
    BY DEF Connected
  <2> HIDE DEF c
  <2>3. /\ local'[r].new = c /\ local'[r].rec = local[r].rec
        /\ local'[r].conn = local[r].conn /\ pc'[r] = "store"
    BY <1>2, <2>1 DEF c
  <2>4. h \in Grant
    BY <1>1, <1>3 DEF Exchange, Well, WellAt
  <2>5. \A g, t : HeldAt(local'[r], g, t) =>
          HeldAt(local[r], g, t) \/ (g = h /\ t = x)
    BY <2>2, <2>3 DEF HeldAt, Has
  <2>6. /\ newest' = [newest EXCEPT ![h] = x] /\ issued' = issued + 1
        /\ h \notin spent /\ spent' = spent \cup {h}
        /\ UNCHANGED <<row, replica>>
    BY <1>3, <2>1 DEF Exchange, Issue, tables
  <2>7. NewTokens(r, h, x)
    BY <2>2, <2>3, <2>5, <2>6 DEF NewTokens
  <2> QED BY <2>4, <2>7
<1>4. CASE RefreshToken(r)
  <2> DEFINE rec == local[r].rec
             h == rec.grant
  <2>1. PICK rotates \in Rotation, timed \in BOOLEAN :
          /\ Refresh(h, rotates)
          /\ Goto(r, "store",
                  [local[r] EXCEPT
                     !.new = Renewed(rec, issued + 1, rotates, timed)])
    BY <1>4 DEF RefreshToken
  <2> DEFINE c == Renewed(rec, issued + 1, rotates, timed)
  <2>2. /\ rec \in Connection /\ h \in Grant /\ kind[r] = "save"
        /\ rec.refresh # None /\ rec # None
    BY <1>1, <1>4 DEF RefreshToken, Well, WellAt, Local, Connection
  <2>3. rotates = TRUE
    BY <2>1
  <2>4. c.grant = h /\ c.refresh = issued + 1
    <3>1. c.refresh = IF TRUE THEN issued + 1 ELSE rec.refresh
      BY <2>2, <2>3 DEF Renewed, Connection
    <3> QED BY <2>2, <3>1, RenewedFields
  <2> HIDE DEF c
  <2>5. /\ local'[r].new = c /\ local'[r].rec = rec
        /\ local'[r].conn = local[r].conn /\ pc'[r] = "store"
    BY <1>2, <2>1 DEF c
  <2>6. \A g, t : HeldAt(local'[r], g, t) =>
          HeldAt(local[r], g, t) \/ (g = h /\ t = issued + 1)
    BY <2>4, <2>5 DEF HeldAt, Has
  <2>7. /\ newest' = [newest EXCEPT ![h] = issued + 1] /\ issued' = issued + 1
        /\ spent' = spent /\ UNCHANGED <<row, replica>>
        /\ rec.refresh = newest[h]
    BY <1>4, <2>1, <2>3 DEF RefreshToken, Refresh, Honours, tables
  <2>8. NewTokens(r, h, issued + 1)
    BY <2>2, <2>4, <2>5, <2>6, <2>7 DEF NewTokens
  <2> QED BY <2>2, <2>8
<1> QED BY <1>3, <1>4

\* What the other steps leave as it was, or lose.
LEMMA OnlyLost ==
  ASSUME TypeInv, NEW r \in Request, Step(r), ~RefreshToken(r), ~Exchange(r)
  PROVE  /\ issued' \in Token /\ issued' >= issued /\ spent \subseteq spent'
         /\ \A h \in Grant : newest'[h] # newest[h] =>
              \/ h \notin spent
              \/ /\ RefreshFails(r) /\ local[r].rec # None
                 /\ local[r].rec.grant = h /\ local[r].rec.refresh = newest[h]
<1>1. issued \in Nat /\ newest \in [Grant -> Token \cup {None}] /\ Well(r)
  BY TypeParts, TypeWhole DEF DataInv, Token
<1>2. CASE UNCHANGED <<issued, newest, spent>>
  BY <1>1, <1>2 DEF Token
<1>3. CASE ExchangeFails(r)
  <2>1. \/ UNCHANGED notion
        \/ \E refresh \in {issued + 1, None} : Issue(local[r].grant, refresh)
    BY <1>3 DEF ExchangeFails
  <2> QED BY <1>1, <1>2, <2>1 DEF Issue, notion, Token
<1>4. CASE RefreshFails(r)
  <2>1. \/ UNCHANGED notion
        \/ /\ Honours(local[r].rec)
           /\ \E rotates \in Rotation : Refresh(local[r].rec.grant, rotates)
    BY <1>4 DEF RefreshFails
  <2>2. local[r].rec # None
    BY <1>1, <1>4 DEF RefreshFails, Well, WellAt
  <2> QED BY <1>1, <1>2, <1>4, <2>1, <2>2 DEF Refresh, Honours, notion, Token
<1>5. CASE ~(ExchangeFails(r) \/ RefreshFails(r))
  <2>1. UNCHANGED notion
    BY <1>5 DEF Step, Lookup, Cleanup, Store, StoreFails, ReadConnection, GiveUp,
                CreatePage, ParentFails, ServerFails, Mark, ReadSettings, Disconnect,
                RequestFails, Stop
  <2> QED BY <1>2, <2>1 DEF notion
<1> QED BY <1>3, <1>4, <1>5

\* Every step of a request preserves what is known, and who is alone with what.
LEMMA SoleStep ==
  ASSUME TypeInv, KeptInv, NEW r \in Request, Step(r), Rotation \subseteq {TRUE}
  PROVE  KnownInv' /\ \A q \in Request : Sole(q)' /\ kind'[q] # "settings"
<1>1. /\ issued \in Nat /\ newest \in [Grant -> Token \cup {None}]
      /\ \A q \in Request : local[q] \in Local /\ Well(q)
  BY TypeParts, TypeWhole DEF DataInv, Token
<1>2. kind' = kind /\ \A q \in Request \ {r} : pc'[q] = pc[q] /\ local'[q] = local[q]
  BY StepOthers
<1>3. \A q \in Request : kind'[q] # "settings"
  BY <1>2 DEF KeptInv
<1>4. ASSUME NEW q \in Request, pc[q] = "store"
      PROVE  LET c == local[q].new IN
             /\ c # None /\ c.grant \in Grant /\ c.refresh = newest[c.grant]
             /\ ~HeldBeside(q, c.grant, c.refresh)
             /\ c.grant \in spent
             /\ c.refresh # None => c.refresh \in Nat /\ c.refresh <= issued
  <2> DEFINE c == local[q].new
  <2>1. c # None /\ c \in Connection
    BY <1>1, <1>4 DEF Well, WellAt, Local
  <2>2. Held(c.grant, c.refresh)
    BY <2>1 DEF Held, HeldAt, Has
  <2>3. c.grant \in Grant
    BY <2>1 DEF Connection
  <2> QED BY <1>4, <2>1, <2>2, <2>3 DEF KeptInv, KnownInv, Sole, Token
<1>5. CASE RefreshToken(r) \/ Exchange(r)
  <2>1. PICK h \in Grant, x \in {issued + 1, None} : NewTokens(r, h, x)
    BY <1>5, OneNew
  <2> USE DEF NewTokens
  <2>2. spent' = spent \cup {h} \/ (spent' = spent /\ \E t : Held(h, t))
    BY <2>1 DEF Held, HeldAt, Has
  <2>3. h \in spent' /\ spent \subseteq spent'
    BY <2>2, Zenon DEF KeptInv, KnownInv
  <2>4. \A g, t : Held(g, t)' => Held(g, t) \/ (g = h /\ t = x)
    BY <1>2, <2>1 DEF Held
  <2>5. KnownInv'
    <3>1. x # None => x \in Token /\ x <= issued'
      BY <1>1, <2>1 DEF Token
    <3> QED BY <1>1, <2>1, <2>3, <2>4, <3>1 DEF KeptInv, KnownInv, Token
  <2>6. ~Held(h, x)
    BY <1>1, <2>1, NoneAssumption DEF KeptInv, KnownInv, Token
  <2>7. Sole(r)'
    <3>1. ~HeldBeside(r, h, x)'
      BY <1>2, <2>1, <2>6 DEF Held, HeldBeside
    <3>2. newest'[h] = x
      BY <1>1, <2>1
    <3> QED BY <2>1, <3>1, <3>2 DEF Sole
  <2>8. ASSUME NEW q \in Request \ {r}, pc'[q] = "store" PROVE Sole(q)'
    <3>0. PICK g, t : g = local[q].new.grant /\ t = local[q].new.refresh
      OBVIOUS
    <3>1. /\ g \in Grant /\ t = newest[g] /\ ~HeldBeside(q, g, t) /\ g \in spent
          /\ t # None => t \in Nat /\ t <= issued
      BY <1>2, <1>4, <2>8, <3>0
    <3>2. local[r].rec # None /\ local[r].rec.grant = h /\ local[r].rec.refresh = newest[h]
          => g # h
      BY <3>1 DEF HeldBeside, HeldAt, Has
    <3>3. g # h
      BY <2>1, <3>1, <3>2
    <3>4. newest'[g] = t
      BY <1>1, <2>1, <3>1, <3>3
    <3>5. ~HeldBeside(q, g, t)'
      BY <1>2, <2>1, <3>1, <3>3 DEF HeldBeside
    <3>6. local'[q].new.grant = g /\ local'[q].new.refresh = t
      BY <1>2, <3>0
    <3> QED BY <3>4, <3>5, <3>6 DEF Sole
  <2>9. \A q \in Request : Sole(q)'
    BY <2>7, <2>8 DEF Sole
  <2> QED BY <1>3, <2>5, <2>9
<1>6. CASE ~(RefreshToken(r) \/ Exchange(r))
  <2>1. /\ issued' \in Nat /\ issued' >= issued /\ spent \subseteq spent'
        /\ \A h \in Grant : newest'[h] # newest[h] =>
              \/ h \notin spent
              \/ /\ RefreshFails(r) /\ local[r].rec # None
                 /\ local[r].rec.grant = h /\ local[r].rec.refresh = newest[h]
    BY <1>6, OnlyLost DEF Token
  <2>2. KnownInv'
    <3> SUFFICES ASSUME NEW g, NEW t, Held(g, t)'
                 PROVE  g \in spent' /\ (t # None => t \in Token /\ t <= issued')
      BY DEF KnownInv
    <3>1. Held(g, t)
      BY <1>6, NothingNew
    <3> QED BY <1>1, <2>1, <3>1 DEF KeptInv, KnownInv, Token
  <2>3. pc'[r] # "store"
    <3>1. kind[r] # "settings"
      BY DEF KeptInv
    <3>2. \A label, l : Goto(r, label, l) => pc'[r] = label
      BY GotoFacts DEF TypeInv
    <3>3. \A how : Finish(r, how) => pc'[r] # "store"
      BY FinishFacts DEF TypeInv
    <3>4. \A e : Rethrows(r, e) \/ PageFails(r, e) => pc'[r] # "store"
      BY <3>2, <3>3 DEF Rethrows, PageFails
    <3>5. \A c : Uses(r, c) => pc'[r] # "store"
      BY <3>2, <3>3 DEF Uses
    <3>6. CASE Lookup(r) \/ ExchangeFails(r) \/ Cleanup(r)
      BY <3>2, <3>3, <3>6 DEF Lookup, ExchangeFails, Cleanup
    <3>7. CASE Store(r) \/ StoreFails(r) \/ ReadConnection(r) \/ RefreshFails(r)
      BY <3>2, <3>3, <3>5, <3>7 DEF Store, StoreFails, ReadConnection, RefreshFails
    <3>8. CASE GiveUp(r) \/ CreatePage(r) \/ ParentFails(r) \/ ServerFails(r) \/ Mark(r)
      BY <3>2, <3>3, <3>4, <3>8 DEF GiveUp, CreatePage, ParentFails, ServerFails, Mark
    <3>9. CASE ReadSettings(r) \/ Disconnect(r) \/ RequestFails(r) \/ Stop(r)
      BY <3>1, <3>3, <3>9 DEF ReadSettings, Disconnect, RequestFails, Stop
    <3> QED BY <1>6, <3>6, <3>7, <3>8, <3>9 DEF Step
  <2>4. ASSUME NEW q \in Request \ {r}, pc'[q] = "store" PROVE Sole(q)'
    <3>0. PICK g, t : g = local[q].new.grant /\ t = local[q].new.refresh
      OBVIOUS
    <3>1. /\ g \in Grant /\ t = newest[g] /\ ~HeldBeside(q, g, t) /\ g \in spent
      BY <1>2, <1>4, <2>4, <3>0
    <3>2. ~(local[r].rec # None /\ local[r].rec.grant = g
            /\ local[r].rec.refresh = newest[g])
      BY <3>1 DEF HeldBeside, HeldAt, Has
    <3>3. newest'[g] = t
      BY <2>1, <3>1, <3>2
    <3>4. ~HeldBeside(q, g, t)'
      BY <1>6, <3>1, NothingNew
    <3>5. local'[q].new.grant = g /\ local'[q].new.refresh = t
      BY <1>2, <3>0
    <3> QED BY <3>3, <3>4, <3>5 DEF Sole
  <2>5. \A q \in Request : Sole(q)'
    BY <2>3, <2>4 DEF Sole
  <2> QED BY <1>3, <2>2, <2>5
<1> QED BY <1>5, <1>6

\* Every step of a request preserves NewestTokenKept: one that leaves the row as
\* it is takes no save away that is about to write it.
LEMMA KeptStep ==
  ASSUME TypeInv, KeptInv, NEW r \in Request, Step(r), Rotation \subseteq {TRUE},
         "store" \notin Faults, "crash" \notin Faults
  PROVE  NewestTokenKept'
<1>1. /\ local[r] \in Local /\ Well(r) /\ row \in Connection \cup {None}
      /\ newest \in [Grant -> Token \cup {None}]
  BY TypeParts, TypeWhole DEF DataInv
<1>2. kind' = kind /\ \A q \in Request \ {r} : pc'[q] = pc[q] /\ local'[q] = local[q]
  BY StepOthers
<1>3. ASSUME NEW c \in Connection, Put(Failed(c)) PROVE NewestTokenKept'
  BY <1>3, FailedFields DEF Put, NewestTokenKept, Usable
<1>4. CASE Store(r)
  <2> DEFINE c == local[r].new
  <2>1. c # None /\ pc[r] = "store"
    BY <1>1, <1>4 DEF Store, Well, WellAt
  <2>2. c.refresh = newest[c.grant]
    BY <2>1 DEF KeptInv, Sole
  <2>3. row' = c /\ newest' = newest
    BY <1>4 DEF Store, Put, notion
  <2> QED BY <2>2, <2>3 DEF NewestTokenKept
<1>5. CASE GiveUp(r)
  <2>1. local[r].rec \in Connection
    BY <1>1, <1>5 DEF GiveUp, Well, WellAt, Local
  <2> QED BY <1>3, <1>5, <2>1 DEF GiveUp
<1>6. CASE Mark(r)
  <2>1. local[r].conn \in Connection
    BY <1>1, <1>6 DEF Mark, Well, WellAt, Local
  <2> QED BY <1>3, <1>6, <2>1 DEF Mark
<1>7. CASE Disconnect(r)
  BY <1>7 DEF Disconnect, Put, NewestTokenKept, Usable
<1>8. CASE ~(Store(r) \/ GiveUp(r) \/ Mark(r) \/ Disconnect(r))
  <2>1. row' = row /\ pc[r] \notin {"store", "giveUp"}
    <3>1. CASE \/ Lookup(r) \/ Exchange(r) \/ ExchangeFails(r) \/ Cleanup(r)
               \/ StoreFails(r) \/ ReadConnection(r)
      BY <3>1 DEF Lookup, Exchange, ExchangeFails, Cleanup, StoreFails,
                  ReadConnection, tables
    <3>2. CASE \/ RefreshToken(r) \/ RefreshFails(r) \/ CreatePage(r)
               \/ ParentFails(r) \/ ServerFails(r) \/ ReadSettings(r)
               \/ RequestFails(r) \/ Stop(r)
      BY <3>2 DEF RefreshToken, RefreshFails, CreatePage, ParentFails,
                  ServerFails, ReadSettings, RequestFails, Stop, tables
    <3> QED BY <1>8, <3>1, <3>2 DEF Step
  <2>2. \A g : Refreshing(g) => Refreshing(g)'
    BY <1>2, <2>1 DEF Refreshing
  <2> SUFFICES ASSUME Usable(row)
               PROVE  \/ row.refresh = newest'[row.grant]
                      \/ Refreshing(row.grant)'
    BY <2>1 DEF NewestTokenKept, Usable
  <2>3. PICK g, t : g = row.grant /\ t = row.refresh
    OBVIOUS
  <2>4. g \in Grant /\ g \in spent
    <3>1. row \in Connection /\ Held(g, t)
      BY <1>1, <2>3 DEF Usable, Held, Has
    <3> QED BY <2>3, <3>1 DEF KeptInv, KnownInv, Connection
  <2>5. t = newest[g] \/ Refreshing(g)
    BY <2>3 DEF KeptInv, NewestTokenKept
  <2>6. newest'[g] = newest[g] \/ Refreshing(g)'
    <3>1. CASE RefreshToken(r) \/ Exchange(r)
      <4>1. PICK h \in Grant, x \in {issued + 1, None} : NewTokens(r, h, x)
        BY <3>1, OneNew
      <4>2. CASE h # g
        BY <1>1, <2>4, <4>1, <4>2 DEF NewTokens
      <4>3. CASE h = g
        BY <1>2, <2>4, <4>1, <4>3 DEF NewTokens, Refreshing
      <4> QED BY <4>2, <4>3
    <3>2. CASE RefreshFails(r) /\ local[r].rec.grant = g
      <4>1. \E l : Goto(r, "giveUp", l) /\ l.rec = local[r].rec
        <5>1. \A e : [local[r] EXCEPT !.error = e].rec = local[r].rec
          BY <1>1, LocalFields
        <5> QED BY <3>2, <5>1 DEF RefreshFails
      <4>2. pc'[r] = "giveUp" /\ local'[r].rec = local[r].rec
        BY <4>1, GotoFacts DEF TypeInv
      <4>3. kind[r] = "save"
        BY <1>1, <3>2 DEF RefreshFails, Well, WellAt
      <4> QED BY <1>2, <3>2, <4>2, <4>3 DEF Refreshing
    <3>3. CASE /\ ~(RefreshToken(r) \/ Exchange(r))
               /\ ~(RefreshFails(r) /\ local[r].rec.grant = g)
      BY <2>4, <3>3, OnlyLost
    <3> QED BY <3>1, <3>2, <3>3
  <2> QED BY <2>1, <2>2, <2>3, <2>5, <2>6
<1> QED BY <1>4, <1>5, <1>6, <1>7, <1>8

\* A request that begins holds nothing, and is not a change of settings.
LEMMA KeptBegin ==
  ASSUME TypeInv, KeptInv, "settings" \notin Kinds, NEW r \in Request,
         (\E g \in Grant : BeginCallback(r, g)) \/ BeginOther(r)
  PROVE  KeptInv'
<1>1. PICK k, label, l : /\ Begin(r, k, label, l) /\ label # "store"
                         /\ \A g, t : ~HeldAt(l, g, t)
  <2>1. \A g, t : ~HeldAt(NoLocal, g, t)
    BY DEF HeldAt, Has, NoLocal
  <2>2. \A h, g, t : ~HeldAt([NoLocal EXCEPT !.grant = h], g, t)
    BY DEF HeldAt, Has, NoLocal
  <2> QED BY <2>1, <2>2 DEF BeginCallback, BeginOther
<1>2. /\ kind'[r] # "settings" /\ pc'[r] # "store" /\ local'[r] = l
      /\ pc[r] = "idle"
      /\ UNCHANGED <<tables, notion>>
      /\ \A q \in Request \ {r} : /\ kind'[q] = kind[q] /\ pc'[q] = pc[q]
                                  /\ local'[q] = local[q]
  BY <1>1 DEF Begin, Goto, TypeInv, TypeOK
<1>3. \A g, t : Held(g, t)' => Held(g, t)
  BY <1>1, <1>2 DEF Held, tables
<1>4. \A g, t : \A q \in Request : HeldBeside(q, g, t)' => HeldBeside(q, g, t)
  BY <1>1, <1>2 DEF HeldBeside, tables
<1>5. KnownInv'
  BY <1>2, <1>3 DEF KeptInv, KnownInv, notion
<1>6. ASSUME NEW q \in Request, pc'[q] = "store" PROVE Sole(q)'
  <2>1. PICK g, t : g = local[q].new.grant /\ t = local[q].new.refresh
    OBVIOUS
  <2>2. q # r /\ local'[q] = local[q] /\ pc[q] = "store"
    BY <1>2, <1>6
  <2>3. t = newest[g] /\ ~HeldBeside(q, g, t)
    BY <2>1, <2>2 DEF KeptInv, Sole
  <2>4. t = newest'[g] /\ ~HeldBeside(q, g, t)'
    BY <1>2, <1>4, <2>3 DEF notion
  <2> QED BY <2>1, <2>2, <2>4 DEF Sole
<1>7. \A g : Refreshing(g) => Refreshing(g)'
  BY <1>2 DEF Refreshing
<1>8. NewestTokenKept'
  BY <1>2, <1>7 DEF KeptInv, NewestTokenKept, Usable, tables, notion
<1> QED BY <1>2, <1>5, <1>6, <1>8 DEF KeptInv, Sole

\* The user, the tables and the clock make no connection and no token.
LEMMA KeptWorld ==
  ASSUME KeptInv,
         \/ \E g \in Grant : Connect(g) \/ Revoke(g) \/ ExpireState(g)
         \/ Replicate \/ Age \/ UNCHANGED vars
  PROVE  KeptInv'
<1>1. /\ UNCHANGED <<row, kind, pc, local, issued, newest, spent>>
      /\ replica' \in {row, replica}
  BY DEF Connect, Revoke, ExpireState, Replicate, Age, vars, tables, request, notion
<1>2. \A g, t : Held(g, t)' => Held(g, t)
  BY <1>1 DEF Held
<1>3. \A g, t : \A q \in Request : HeldBeside(q, g, t)' => HeldBeside(q, g, t)
  BY <1>1 DEF HeldBeside
<1>4. KnownInv'
  BY <1>1, <1>2 DEF KeptInv, KnownInv
<1>5. ASSUME NEW q \in Request, pc'[q] = "store" PROVE Sole(q)'
  <2>1. PICK g, t : g = local[q].new.grant /\ t = local[q].new.refresh
    OBVIOUS
  <2>2. t = newest[g] /\ ~HeldBeside(q, g, t)
    BY <1>1, <1>5, <2>1 DEF KeptInv, Sole
  <2>3. t = newest'[g] /\ ~HeldBeside(q, g, t)'
    BY <1>1, <1>3, <2>2
  <2> QED BY <1>1, <2>1, <2>3 DEF Sole
<1>6. NewestTokenKept'
  BY <1>1 DEF KeptInv, NewestTokenKept, Usable, Refreshing
<1> QED BY <1>1, <1>4, <1>5, <1>6 DEF KeptInv, Sole

\* If Notion rotates its refresh tokens, no overlap of saves, callbacks and
\* disconnections loses the newest one, though every put is of a connection that
\* was read earlier, reads may be stale and replies may be lost
\* (getConnectionForUse, handleCallback, putConnection).
THEOREM NewestKept ==
  ASSUME Rotation \subseteq {TRUE}, "settings" \notin Kinds,
         "store" \notin Faults, "crash" \notin Faults
  PROVE  Spec => []NewestTokenKept
<1>1. Init => KeptInv
  <2> SUFFICES ASSUME Init PROVE KeptInv
    OBVIOUS
  <2>1. \A g, t : ~Held(g, t)
    BY DEF Init, Held, HeldAt, Has, NoLocal
  <2>2. \A r \in Request : Sole(r) /\ kind[r] # "settings"
    BY NoneAssumption DEF Init, Sole, Kind
  <2> QED BY <2>1, <2>2 DEF Init, KeptInv, KnownInv, NewestTokenKept, Usable
<1>2. TypeInv /\ KeptInv /\ [Next]_vars => KeptInv'
  <2> SUFFICES ASSUME TypeInv, KeptInv, [Next]_vars PROVE KeptInv'
    OBVIOUS
  <2>1. ASSUME NEW r \in Request, Step(r) PROVE KeptInv'
    BY <2>1, SoleStep, KeptStep DEF KeptInv
  <2> QED BY <2>1, KeptBegin, KeptWorld DEF Next
<1>3. TypeInv /\ KeptInv /\ [Next]_vars => (TypeInv /\ KeptInv)'
  BY <1>2, TypeStep
<1>4. KeptInv => NewestTokenKept
  BY DEF KeptInv
<1> QED BY <1>1, <1>3, <1>4, TypeInit, PTL DEF Spec
-----------------------------------------------------------------------------
(* No needless reconnect *)

\* There is a reason to send the user back to the connect button.
Excused(g) == g \in revoked \cup hurt \/ newest[g] = None

\* A connection holds the refresh token Notion honours, or it may be given up.
Current(c) == c.refresh = newest[c.grant] \/ Excused(c.grant)

\* What a request that is under way is about to do does not cost the user the
\* connection: a save refreshes and puts current tokens, marks only what may be
\* given up, and uses for its second attempt tokens that cannot have expired; a
\* change of settings puts back what is there.
SafeAt(k, label, l) ==
  /\ k = "save" =>
       /\ label = "refresh" => Current(l.rec)
       /\ label = "store" => Current(l.new) /\ l.new.status = "connected"
       /\ label = "giveUp" => Excused(l.rec.grant)
       /\ label = "mark" => Excused(l.conn.grant)
       /\ label = "create" /\ l.again => l.rec = l.new
       /\ label \notin {"idle", "done"} /\ l.new # None => l.new.access > aged
  /\ k = "settings" /\ label = "store" =>
       l.new.refresh = row.refresh /\ l.new.status = row.status
  /\ k = "callback" /\ label = "store" =>
       /\ l.new.grant \in spent /\ l.new.status = "connected"
       /\ l.new.refresh = newest[l.new.grant]

Safe(r) == SafeAt(kind[r], pc[r], local[r])

Storing(r) == kind[r] = "save" /\ pc[r] = "store"

\* The row is marked with a reason only; otherwise it is current, or a save is
\* about to put the tokens that it has received.
RowSafe ==
  row # None =>
    /\ row.grant \in spent
    /\ row.status = "refresh_failed" => Excused(row.grant)
    /\ Usable(row) => Current(row) \/ \E r \in Request : Storing(r)

Known == \A r \in Request : Active(r) => kind[r] \in Kind

ReconnectInv ==
  /\ OwnInv /\ Exclusive("save") /\ Known
  /\ RowSafe
  /\ aged <= issued
  /\ \A r \in Request : Safe(r)

LEMMA KnownStep ==
  ASSUME TypeInv, Known, [Next]_vars
  PROVE  Known'
<1>1. ASSUME NEW r \in Request, Step(r) PROVE Known'
  BY <1>1, StepShape, StepOthers DEF Active, Known
<1>2. ASSUME NEW r \in Request,
             (\E g \in Grant : BeginCallback(r, g)) \/ BeginOther(r)
      PROVE  Known'
  <2>1. PICK j, label, l : Begin(r, j, label, l)
    BY <1>2 DEF BeginCallback, BeginOther
  <2>2. /\ kind'[r] = j /\ j \in Kind
        /\ \A q \in Request \ {r} : kind'[q] = kind[q] /\ pc'[q] = pc[q]
    BY <2>1, ConstantsAssumption DEF Begin, Goto, TypeInv, TypeOK
  <2> QED BY <2>2 DEF Known, Active
<1>3. ASSUME \/ \E g \in Grant : Connect(g) \/ Revoke(g) \/ ExpireState(g)
             \/ Replicate \/ Age \/ UNCHANGED vars
      PROVE  Known'
  <2>1. UNCHANGED request
    BY <1>3 DEF Connect, Revoke, ExpireState, Replicate, Age, vars
  <2> QED BY <2>1 DEF Known, Active, request
<1> QED BY <1>1, <1>2, <1>3 DEF Next

\* No step takes away a reason once the code of the authorization was exchanged:
\* Notion renews no tokens without a refresh token.
LEMMA ExcusedStays ==
  ASSUME TypeInv, [Next]_vars, NEW g \in spent
  PROVE  (Excused(g) => Excused(g)') /\ g \in spent'
<1>1. ASSUME UNCHANGED notion, hurt \subseteq hurt' PROVE (Excused(g) => Excused(g)') /\ g \in spent'
  BY <1>1 DEF Excused, notion
<1>2. /\ newest \in [Grant -> Token \cup {None}] /\ spent \subseteq Grant
      /\ None \notin Token /\ issued + 1 \in Token
  BY NoneAssumption DEF TypeInv, TypeOK, Token
<1>3. ASSUME NEW h, NEW x, Issue(h, x), hurt' = hurt PROVE (Excused(g) => Excused(g)') /\ g \in spent'
  BY <1>2, <1>3 DEF Issue, Excused
<1>4. ASSUME NEW h, NEW x, Refresh(h, x), newest[h] # None, hurt \subseteq hurt'
      PROVE  (Excused(g) => Excused(g)') /\ g \in spent'
  <2>1. newest'[g] = newest[g] \/ g = h
    BY <1>2, <1>4 DEF Refresh
  <2> QED BY <1>4, <2>1 DEF Refresh, Excused
<1>5. ASSUME NEW r \in Request, Step(r) PROVE (Excused(g) => Excused(g)') /\ g \in spent'
  <2>1. Well(r)
    BY TypeParts
  <2>2. pc[r] = "refresh" /\ Honours(local[r].rec) => newest[local[r].rec.grant] # None
    BY <2>1 DEF Well, WellAt, Honours
  <2>3. CASE Exchange(r)
    BY <1>3, <2>3 DEF Exchange
  <2>4. CASE ExchangeFails(r)
    BY <1>1, <1>3, <2>4 DEF ExchangeFails
  <2>5. CASE RefreshToken(r)
    BY <1>4, <2>2, <2>5 DEF RefreshToken
  <2>6. CASE RefreshFails(r)
    <3>1. \/ UNCHANGED notion /\ hurt \subseteq hurt'
          \/ /\ Honours(local[r].rec) /\ hurt \subseteq hurt'
             /\ \E rotates : Refresh(local[r].rec.grant, rotates)
      BY <2>6, Zenon DEF RefreshFails
    <3> QED BY <1>1, <1>4, <2>2, <2>6, <3>1 DEF RefreshFails
  <2>7. CASE \/ Lookup(r) \/ Cleanup(r) \/ Store(r) \/ StoreFails(r)
             \/ ReadConnection(r) \/ GiveUp(r) \/ CreatePage(r) \/ ParentFails(r)
             \/ ServerFails(r) \/ Mark(r) \/ ReadSettings(r) \/ Disconnect(r)
             \/ RequestFails(r) \/ Stop(r)
    <3>1. UNCHANGED notion /\ hurt \subseteq hurt'
      BY <2>7, Zenon DEF Lookup, Cleanup, Store, StoreFails, ReadConnection, GiveUp, CreatePage,
              ParentFails, ServerFails, Mark, ReadSettings, Disconnect,
              RequestFails, Stop
    <3> QED BY <1>1, <3>1
  <2> QED BY <1>5, <2>3, <2>4, <2>5, <2>6, <2>7 DEF Step
<1>6. ASSUME NEW r \in Request,
             (\E h \in Grant : BeginCallback(r, h)) \/ BeginOther(r)
      PROVE  (Excused(g) => Excused(g)') /\ g \in spent'
  BY <1>1, <1>6 DEF BeginCallback, BeginOther, Begin
<1>7. ASSUME \/ \E h \in Grant : Connect(h) \/ Revoke(h) \/ ExpireState(h)
             \/ Replicate \/ Age \/ UNCHANGED vars
      PROVE  (Excused(g) => Excused(g)') /\ g \in spent'
  BY <1>7 DEF Connect, Revoke, ExpireState, Replicate, Age, vars, notion, Excused
<1> QED BY <1>5, <1>6, <1>7 DEF Next

\* Unless only settings are changed, a request is alone; so the row is current
\* whenever a request takes a step, if it is not about to put newer tokens.
LEMMA AloneFacts ==
  ASSUME TypeInv, ReconnectInv, NEW r \in Request, Active(r)
  PROVE  /\ kind[r] # "settings" => \A q \in Request \ {r} : ~Active(q)
         /\ kind[r] = "settings" => \A q \in Request : Active(q) => kind[q] = "settings"
         /\ Usable(row) /\ ~Storing(r) => Current(row)
<1>1. /\ kind[r] \in Kind
      /\ \A q \in Request : Active(q) => kind[q] \in Kind
  BY DEF ReconnectInv, Known
<1>2. kind[r] # "settings" => \A q \in Request \ {r} : ~Active(q)
  BY <1>1 DEF ReconnectInv, OwnInv, Exclusive, Kind
<1>3. kind[r] = "settings" => \A q \in Request : Active(q) => kind[q] = "settings"
  BY <1>1 DEF ReconnectInv, OwnInv, Exclusive, Kind
<1>4. ASSUME NEW q \in Request, Storing(q) PROVE q = r
  BY <1>2, <1>3, <1>4 DEF Storing, Active
<1>5. Usable(row) /\ ~Storing(r) => Current(row)
  BY <1>4 DEF ReconnectInv, RowSafe, Usable
<1> QED BY <1>2, <1>3, <1>5

\* What a save or a change of settings holds is of the authorization in the row.
LEMMA Owners ==
  ASSUME TypeInv, ReconnectInv, NEW r \in Request, Active(r),
         kind[r] \in {"save", "settings"},
         NEW c \in {local[r].rec, local[r].conn, local[r].new}, c # None
  PROVE  row # None /\ c.grant = row.grant /\ c.grant \in spent
BY DEF ReconnectInv, OwnInv, Own, OwnAt, OfRow, RowSafe

\* The other requests stay safe.
LEMMA SafeOthers ==
  ASSUME TypeInv, ReconnectInv, NEW r \in Request, Step(r),
         kind[r] = "settings" => row'.refresh = row.refresh /\ row'.status = row.status
  PROVE  \A q \in Request \ {r} : Safe(q)'
<1> SUFFICES ASSUME NEW q \in Request \ {r} PROVE Safe(q)'
  OBVIOUS
<1>1. kind'[q] = kind[q] /\ pc'[q] = pc[q] /\ local'[q] = local[q] /\ Active(r)
  BY StepOthers, StepShape
<1>2. CASE ~Active(q)
  BY <1>1, <1>2 DEF Active, Safe, SafeAt
<1>3. CASE Active(q)
  <2>1. kind[r] = "settings" /\ kind[q] = "settings"
    BY <1>1, <1>3, AloneFacts
  <2> QED BY <1>1, <2>1 DEF ReconnectInv, Safe, SafeAt
<1> QED BY <1>2, <1>3

\* So does the row, in the steps that leave it as it is.
LEMMA RowKept ==
  ASSUME TypeInv, ReconnectInv, NEW r \in Request, Step(r), row' = row,
         row # None => newest'[row.grant] = newest[row.grant] \/ Excused(row.grant)'
                       \/ Storing(r)',
         row # None /\ Storing(r) => Excused(row.grant)'
  PROVE  RowSafe'
<1> SUFFICES ASSUME row # None PROVE RowSafe'
  BY DEF RowSafe
<1> DEFINE Fine(g) == Excused(g)'
<1>1. PICK g : g = row.grant
  OBVIOUS
<1>2. g \in spent /\ Active(r)
  BY <1>1, StepShape DEF ReconnectInv, RowSafe
<1>3. Next
  BY DEF Next
<1>4. (Excused(g) => Fine(g)) /\ g \in spent'
  BY <1>2, <1>3, ExcusedStays
<1>6. row.status = "refresh_failed" => Fine(g)
  BY <1>1, <1>4 DEF ReconnectInv, RowSafe
<1>7. Usable(row) => row.refresh = newest'[g] \/ Fine(g) \/ Storing(r)'
  <2>1. CASE Storing(r)
    BY <1>1, <2>1 DEF Excused
  <2>2. CASE ~Storing(r)
    <3>1. Usable(row) => Current(row)
      BY <1>2, <2>2, AloneFacts
    <3>2. newest'[g] = newest[g] \/ Fine(g) \/ Storing(r)'
      BY <1>1 DEF Excused
    <3> QED BY <1>1, <1>4, <3>1, <3>2 DEF Current
  <2> QED BY <2>1, <2>2
<1>8. row'.grant = g /\ row'.status = row.status /\ row'.refresh = row.refresh
      /\ (Usable(row'))  = Usable(row)
  BY <1>1
<1> QED
  BY <1>1, <1>4, <1>6, <1>7, <1>8 DEF RowSafe, Excused, Current

\* What the steps of a request keep: the row and the request itself are safe.
SafeStep(r) == RowSafe' /\ aged' <= issued' /\ Safe(r)'

\* A request that has ended has nothing left to do.
LEMMA EndIsSafe ==
  ASSUME TypeInv, NEW r \in Request, NEW how, Finish(r, how)
  PROVE  Safe(r)' /\ ~Storing(r)'
BY FinishFacts DEF TypeInv, Safe, SafeAt, Storing

LEMMA CallbackSafe ==
  ASSUME TypeInv, ReconnectInv, NEW r \in Request,
         Lookup(r) \/ Exchange(r) \/ ExchangeFails(r) \/ Cleanup(r)
  PROVE  SafeStep(r)
<1>1. /\ Step(r) /\ Active(r) /\ Well(r) /\ local[r] \in Local
  BY TypeParts, StepShape DEF Step
<1>2. /\ kind[r] = "callback" /\ kind' = kind /\ row' = row /\ aged' = aged
      /\ hurt' = hurt
  BY <1>1, Zenon DEF Lookup, Exchange, ExchangeFails, Cleanup, Well, WellAt, tables,
              notion, Issue
<1>3. /\ newest \in [Grant -> Token \cup {None}] /\ issued \in Nat /\ aged \in Nat
      /\ spent \subseteq Grant
  BY DEF TypeInv, TypeOK, Token
<1>4. ASSUME NEW h, NEW x, Issue(h, x)
      PROVE  /\ issued' = issued + 1
             /\ row # None => newest'[row.grant] = newest[row.grant]
  BY <1>3, <1>4 DEF Issue, ReconnectInv, RowSafe
<1>5. /\ issued' \in {issued, issued + 1}
      /\ row # None => newest'[row.grant] = newest[row.grant]
  <2>1. CASE Exchange(r)
    BY <1>4, <2>1 DEF Exchange
  <2>2. CASE ExchangeFails(r)
    BY <1>4, <2>2 DEF ExchangeFails, notion
  <2>3. CASE Lookup(r) \/ Cleanup(r)
    BY <2>3 DEF Lookup, Cleanup, notion
  <2> QED BY <2>1, <2>2, <2>3
<1>6. aged' <= issued'
  BY <1>2, <1>3, <1>5 DEF ReconnectInv
<1>7. RowSafe'
  BY <1>1, <1>2, <1>5, RowKept DEF Storing
<1>8. Safe(r)'
  <2>1. CASE Exchange(r)
    <3> DEFINE g == local[r].grant
    <3>1. PICK refresh, expires :
            /\ Issue(g, refresh)
            /\ Goto(r, "store",
                    [local[r] EXCEPT
                       !.new = Connected(g, issued + 1, refresh, expires)])
      BY <2>1 DEF Exchange
    <3> DEFINE c == Connected(g, issued + 1, refresh, expires)
               l == [local[r] EXCEPT !.new = c]
    <3>2. c.grant = g /\ c.refresh = refresh /\ c.status = "connected"
      BY DEF Connected
    <3>3. l.new = c
      BY <1>1, LocalFields
    <3>4. local'[r] = l /\ pc'[r] = "store"
      BY <3>1, GotoFacts DEF TypeInv
    <3>5. g \in Grant
      BY <1>1, <1>2 DEF Well, WellAt, Active
    <3>6. g \in spent' /\ newest'[g] = refresh
      BY <1>3, <3>1, <3>5 DEF Issue
    <3> HIDE DEF c, l
    <3>7. /\ local'[r].new.grant = g /\ local'[r].new.refresh = refresh
          /\ local'[r].new.status = "connected"
      BY <3>2, <3>3, <3>4
    <3> QED BY <1>2, <3>6, <3>7 DEF Safe, SafeAt
  <2>2. CASE Lookup(r) \/ ExchangeFails(r) \/ Cleanup(r)
    <3>1. \/ \E label \in {"exchange", "cleanup"} : \E l : Goto(r, label, l)
          \/ \E how : Finish(r, how)
      BY <2>2, Zenon DEF Lookup, ExchangeFails, Cleanup
    <3>2. pc'[r] \in {"exchange", "cleanup", "done"}
      BY <3>1, GotoFacts, FinishFacts DEF TypeInv
    <3> QED BY <1>2, <3>2 DEF Safe, SafeAt
  <2> QED BY <2>1, <2>2
<1> QED BY <1>6, <1>7, <1>8 DEF SafeStep

\* A save that has its connection: for the second attempt it is a renewed one.
LEMMA UsesSafe ==
  ASSUME TypeInv, ReconnectInv, NEW r \in Request, NEW c, Uses(r, c),
         kind[r] = "save", kind' = kind, aged' = aged, Active(r),
         local[r].again => c = local[r].new
  PROVE  Safe(r)'
<1> DEFINE first == IF local[r].again THEN local[r].conn ELSE c
           l == [local[r] EXCEPT !.rec = c, !.conn = first, !.todo = first.targets]
<1>1. Finish(r, "error") \/ Goto(r, "create", l)
  BY DEF Uses
<1>2. CASE Finish(r, "error")
  BY <1>2, EndIsSafe
<1>3. CASE Goto(r, "create", l)
  <2>1. l.rec = c /\ l.new = local[r].new /\ l.again = local[r].again
    BY TypeParts DEF Local
  <2> HIDE DEF l
  <2>2. local'[r] = l /\ pc'[r] = "create" /\ kind'[r] = "save"
    BY <1>3, GotoFacts DEF TypeInv
  <2>3. l.new # None => l.new.access > aged'
    BY <2>1 DEF ReconnectInv, Safe, SafeAt, Active
  <2> QED BY <2>1, <2>2, <2>3 DEF Safe, SafeAt
<1> QED BY <1>1, <1>2, <1>3

LEMMA StoreSafe ==
  ASSUME TypeInv, ReconnectInv, NEW r \in Request, Store(r)
  PROVE  SafeStep(r)
<1> DEFINE c == local[r].new
<1>1. /\ Step(r) /\ Active(r) /\ Well(r) /\ local[r] \in Local /\ pc[r] = "store"
      /\ row' = c /\ kind' = kind /\ UNCHANGED <<issued, newest, spent, revoked, aged, hurt>>
  BY TypeParts DEF Step, Store, Active, Put, notion
<1>2. c # None /\ kind[r] \in Kind
  BY <1>1 DEF Well, WellAt, ReconnectInv, Known
<1>3. aged' <= issued' /\ Safe(r)
  BY <1>1 DEF ReconnectInv
<1>4. CASE kind[r] = "save" /\ Uses(r, c)
  <2>1. c.grant \in spent
    BY <1>1, <1>2, <1>4, Owners
  <2>2. Current(c) /\ c.status = "connected"
    BY <1>1, <1>3, <1>4 DEF Safe, SafeAt
  <2>3. RowSafe'
    BY <1>1, <2>1, <2>2 DEF RowSafe, Current, Excused
  <2>4. Safe(r)'
    BY <1>1, <1>4, UsesSafe
  <2> QED BY <1>3, <2>3, <2>4 DEF SafeStep
<1>5. CASE kind[r] = "settings" /\ Finish(r, "ok")
  <2>1. row # None /\ c.grant = row.grant /\ c.grant \in spent
    BY <1>1, <1>2, <1>5, Owners
  <2>2. c.refresh = row.refresh /\ c.status = row.status
    BY <1>1, <1>3, <1>5 DEF Safe, SafeAt
  <2>3. Usable(row) => Current(row)
    BY <1>1, <1>5, AloneFacts DEF Storing
  <2>4. RowSafe'
    BY <1>1, <2>1, <2>2, <2>3 DEF RowSafe, Current, Excused, Usable, ReconnectInv
  <2> QED BY <1>3, <1>5, <2>4, EndIsSafe DEF SafeStep
<1>6. CASE kind[r] = "callback" /\ Goto(r, "cleanup", local[r])
  <2>1. c.grant \in spent /\ c.status = "connected" /\ c.refresh = newest[c.grant]
    BY <1>1, <1>3, <1>6 DEF Safe, SafeAt
  <2>2. RowSafe'
    BY <1>1, <2>1 DEF RowSafe, Current, Excused
  <2>3. pc'[r] = "cleanup" /\ kind'[r] = "callback"
    BY <1>1, <1>6, GotoFacts DEF TypeInv
  <2>4. Safe(r)'
    BY <2>3 DEF Safe, SafeAt
  <2> QED BY <1>3, <2>2, <2>4 DEF SafeStep
<1> QED BY <1>4, <1>5, <1>6 DEF Store

\* The save goes on to give up, for which there is a reason.
LEMMA GivesUpSafe ==
  ASSUME TypeInv, ReconnectInv, NEW r \in Request, NEW l \in Local,
         Goto(r, "giveUp", l), kind[r] = "save", kind' = kind, Active(r),
         l.new = local[r].new, aged' = aged, NEW g, l.rec.grant = g, Excused(g)'
  PROVE  Safe(r)' /\ ~Storing(r)'
<1>1. local'[r] = l /\ pc'[r] = "giveUp" /\ kind'[r] = "save"
  BY GotoFacts DEF TypeInv
<1>2. l.new # None => l.new.access > aged
  BY DEF ReconnectInv, Safe, SafeAt, Active
<1> QED BY <1>1, <1>2 DEF Safe, SafeAt, Storing, Excused

LEMMA StoreFailsSafe ==
  ASSUME TypeInv, ReconnectInv, NEW r \in Request, StoreFails(r)
  PROVE  SafeStep(r)
<1> DEFINE l == [local[r] EXCEPT !.error = "other"]
<1>1. /\ Step(r) /\ Active(r) /\ Well(r) /\ local[r] \in Local /\ pc[r] = "store"
      /\ row' = row /\ kind' = kind /\ UNCHANGED notion
  BY TypeParts DEF Step, StoreFails, Active, tables
<1>2. aged' <= issued' /\ aged' = aged /\ newest' = newest
  BY <1>1 DEF ReconnectInv, notion
<1>3. /\ l \in Local /\ l.rec = local[r].rec /\ l.new = local[r].new
  BY <1>1, LocalType, LocalFields DEF Error
<1> HIDE DEF l
<1>4. CASE kind[r] = "save" /\ Goto(r, "giveUp", l) /\ hurt' = hurt \cup {local[r].rec.grant}
  <2>1. local[r].rec # None
    BY <1>1, <1>4 DEF Well, WellAt
  <2>2. row # None /\ local[r].rec.grant = row.grant
    BY <1>1, <1>4, <2>1, Owners
  <2>3. PICK g : g = row.grant
    OBVIOUS
  <2>4. Excused(g)'
    BY <1>4, <2>2, <2>3 DEF Excused
  <2>5. Safe(r)'
    BY <1>1, <1>2, <1>3, <1>4, <2>2, <2>3, <2>4, GivesUpSafe
  <2>6. RowSafe'
    BY <1>1, <1>2, <2>3, <2>4, RowKept DEF Excused
  <2> QED BY <1>2, <2>5, <2>6 DEF SafeStep
<1>5. CASE kind[r] = "settings" /\ Finish(r, "error")
  BY <1>1, <1>2, <1>5, EndIsSafe, RowKept DEF SafeStep, Storing
<1>6. CASE kind[r] = "callback" /\ Goto(r, "cleanup", l)
  <2>1. pc'[r] = "cleanup" /\ kind'[r] = "callback"
    BY <1>1, <1>6, GotoFacts DEF TypeInv
  <2>2. Safe(r)'
    BY <2>1 DEF Safe, SafeAt
  <2> QED BY <1>1, <1>2, <1>6, <2>2, RowKept DEF SafeStep, Storing
<1> QED BY <1>4, <1>5, <1>6, Zenon DEF StoreFails, l

LEMMA ReadSafe ==
  ASSUME TypeInv, ReconnectInv, NEW r \in Request, ReadConnection(r)
  PROVE  SafeStep(r)
<1>1. /\ Step(r) /\ Active(r) /\ Well(r) /\ local[r] \in Local /\ pc[r] = "read"
      /\ kind[r] = "save" /\ row' = row /\ kind' = kind /\ hurt' = hurt /\ UNCHANGED notion
      /\ replica = row /\ row \in Connection \cup {None}
  BY TypeParts DEF Step, ReadConnection, Active, tables, ReconnectInv, OwnInv,
                   TypeInv, TypeOK
<1>2. aged' <= issued' /\ aged' = aged /\ newest' = newest /\ revoked' = revoked
  BY <1>1 DEF ReconnectInv, notion
<1>3. RowSafe'
  BY <1>1, <1>2, RowKept DEF Storing
<1>4. Usable(row) => Current(row)
  BY <1>1, AloneFacts DEF Storing
<1>5. local[r].new # None => local[r].new.access > aged
  BY <1>1 DEF ReconnectInv, Safe, SafeAt
<1> DEFINE l == [local[r] EXCEPT !.rec = row]
           m == [local[r] EXCEPT !.rec = row, !.error = "other"]
<1>6. \/ Finish(r, "error")
      \/ Usable(row) /\ ~local[r].again /\ Uses(r, row)
      \/ Usable(row) /\ Goto(r, "refresh", l)
      \/ Usable(row) /\ row.refresh = None /\ Goto(r, "giveUp", m)
  BY <1>1, Zenon DEF ReadConnection, Refreshes
<1>7. /\ l.rec = row /\ l.new = local[r].new /\ m.rec = row /\ m.new = local[r].new
      /\ row \in Connection => m \in Local
  <2>1. /\ l.rec = row /\ l.new = local[r].new /\ m.rec = row
        /\ m.new = local[r].new
    BY <1>1 DEF Local
  <2>2. row \in Connection => m \in Local
    <3>1. "other" \in Error
      BY DEF Error
    <3> QED BY <1>1, <3>1, LocalType, Zenon
  <2> QED BY <2>1, <2>2
<1> HIDE DEF l, m
<1>8. CASE Finish(r, "error")
  BY <1>2, <1>3, <1>8, EndIsSafe DEF SafeStep
<1>9. CASE Usable(row) /\ ~local[r].again /\ Uses(r, row)
  BY <1>1, <1>2, <1>3, <1>9, UsesSafe DEF SafeStep
<1>10. CASE Usable(row) /\ Goto(r, "refresh", l)
  <2>1. pc'[r] = "refresh" /\ local'[r] = l /\ kind'[r] = "save"
    BY <1>1, <1>10, GotoFacts DEF TypeInv
  <2>2. Safe(r)'
    BY <1>1, <1>2, <1>4, <1>5, <1>7, <1>10, <2>1 DEF Safe, SafeAt, Current, Excused
  <2> QED BY <1>2, <1>3, <2>2 DEF SafeStep
<1>11. CASE Usable(row) /\ row.refresh = None /\ Goto(r, "giveUp", m)
  <2>1. PICK g : g = row.grant
    OBVIOUS
  <2>2. Excused(g)'
    BY <1>1, <1>2, <1>4, <1>11, <2>1 DEF Current, Excused
  <2>3. m \in Local /\ m.rec.grant = g
    BY <1>1, <1>7, <1>11, <2>1 DEF Usable
  <2> QED BY <1>1, <1>2, <1>3, <1>7, <1>11, <2>2, <2>3, GivesUpSafe DEF SafeStep
<1> QED BY <1>6, <1>8, <1>9, <1>10, <1>11

LEMMA RefreshSafe ==
  ASSUME TypeInv, ReconnectInv, NEW r \in Request, RefreshToken(r)
  PROVE  SafeStep(r)
<1> DEFINE c == local[r].rec
<1>1. /\ Step(r) /\ Active(r) /\ Well(r) /\ local[r] \in Local /\ pc[r] = "refresh"
      /\ row' = row /\ kind' = kind /\ hurt' = hurt
  BY TypeParts DEF Step, RefreshToken, Active, tables
<1>2. PICK rotates, timed :
        /\ Refresh(c.grant, rotates)
        /\ Goto(r, "store",
                [local[r] EXCEPT !.new = Renewed(c, issued + 1, rotates, timed)])
  BY DEF RefreshToken
<1>3. /\ kind[r] = "save" /\ c \in Connection /\ c.refresh # None
      /\ Honours(c)
  BY <1>1 DEF Well, WellAt, RefreshToken, Local
<1>4. /\ newest \in [Grant -> Token \cup {None}] /\ issued \in Nat /\ aged \in Nat
      /\ aged <= issued /\ c.grant \in Grant
  BY <1>3 DEF TypeInv, TypeOK, Token, ReconnectInv, Connection
<1>5. aged' = aged /\ issued' = issued + 1 /\ aged' <= issued'
  BY <1>2, <1>4 DEF Refresh
<1> DEFINE n == Renewed(c, issued + 1, rotates, timed)
           l == [local[r] EXCEPT !.new = n]
<1>6. /\ n.grant = c.grant /\ n.access = issued + 1 /\ n.status = "connected"
      /\ n.refresh = IF rotates THEN issued + 1 ELSE c.refresh
  BY <1>3, RenewedFields
<1>7. l.new = n
  BY <1>1, LocalFields
<1>8. local'[r] = l /\ pc'[r] = "store" /\ kind'[r] = "save"
  BY <1>1, <1>2, <1>3, GotoFacts DEF TypeInv
<1> HIDE DEF n, l
<1>9. newest'[c.grant] = n.refresh
  BY <1>2, <1>3, <1>4, <1>6 DEF Refresh, Honours
<1>10. Safe(r)'
  BY <1>4, <1>5, <1>6, <1>7, <1>8, <1>9 DEF Safe, SafeAt, Current
<1>11. RowSafe'
  BY <1>1, <1>8, RowKept DEF Storing
<1> QED BY <1>5, <1>10, <1>11 DEF SafeStep

LEMMA RefreshFailsSafe ==
  ASSUME TypeInv, ReconnectInv, NEW r \in Request, RefreshFails(r)
  PROVE  SafeStep(r)
<1> DEFINE c == local[r].rec
<1>1. /\ Step(r) /\ Active(r) /\ Well(r) /\ local[r] \in Local /\ pc[r] = "refresh"
      /\ row' = row /\ kind' = kind
  BY TypeParts DEF Step, RefreshFails, Active, tables
<1>2. kind[r] = "save" /\ c # None
  BY <1>1 DEF Well, WellAt
<1>3. row # None /\ c.grant = row.grant
  BY <1>1, <1>2, Owners
<1>4. Current(c)
  BY <1>1, <1>2 DEF ReconnectInv, Safe, SafeAt
<1>5. PICK g : g = row.grant
  OBVIOUS
<1>6. Excused(g)' /\ aged' = aged /\ aged' <= issued'
  <2>1. CASE ~Honours(c) /\ UNCHANGED <<notion, hurt>>
    BY <1>3, <1>4, <1>5, <2>1 DEF Honours, Current, Excused, notion, ReconnectInv
  <2>2. CASE hurt' = hurt \cup {c.grant} /\ UNCHANGED notion
    BY <1>3, <1>5, <2>2 DEF Excused, notion, ReconnectInv
  <2>3. CASE hurt' = hurt \cup {c.grant} /\ \E rotates : Refresh(c.grant, rotates)
    BY <1>3, <1>5, <2>3 DEF Excused, Refresh, ReconnectInv, TypeInv, TypeOK, Token
  <2> QED BY <2>1, <2>2, <2>3, Zenon DEF RefreshFails
<1>7. PICK e \in {"invalid_token", "other"} :
        Goto(r, "giveUp", [local[r] EXCEPT !.error = e])
  BY DEF RefreshFails
<1> DEFINE l == [local[r] EXCEPT !.error = e]
<1>8. l \in Local /\ l.rec = c /\ l.new = local[r].new
  BY <1>1, LocalType, LocalFields DEF Error
<1>9. Goto(r, "giveUp", l)
  BY <1>7
<1> HIDE DEF l
<1>10. Safe(r)'
  BY <1>1, <1>2, <1>3, <1>5, <1>6, <1>8, <1>9, GivesUpSafe
<1>11. RowSafe'
  BY <1>1, <1>5, <1>6, RowKept DEF Storing, Excused
<1> QED BY <1>6, <1>10, <1>11 DEF SafeStep

\* A save that has failed marks the connection it began with only for a reason.
LEMMA RethrowsSafe ==
  ASSUME TypeInv, ReconnectInv, NEW r \in Request, NEW e, Rethrows(r, e),
         kind[r] = "save", kind' = kind, aged' = aged, Active(r),
         UNCHANGED <<newest, revoked, hurt>>, local[r].rec # None,
         local[r].again /\ e = "invalid_token" => Excused(local[r].rec.grant)
  PROVE  Safe(r)' /\ ~Storing(r)'
<1>1. CASE Finish(r, "error")
  BY <1>1, EndIsSafe
<1>2. CASE local[r].again /\ e = "invalid_token" /\ Goto(r, "mark", local[r])
  <2>1. pc'[r] = "mark" /\ local'[r] = local[r] /\ kind'[r] = "save"
    BY <1>2, GotoFacts DEF TypeInv
  <2>2. local[r].conn # None
    BY <1>2, TypeParts DEF Well, WellAt
  <2>3. local[r].conn.grant = local[r].rec.grant
    BY <2>2, Owners
  <2>4. local[r].new # None => local[r].new.access > aged
    BY DEF ReconnectInv, Safe, SafeAt, Active
  <2> QED BY <1>2, <2>1, <2>3, <2>4 DEF Safe, SafeAt, Storing, Excused
<1> QED BY <1>1, <1>2 DEF Rethrows

LEMMA GiveUpSafe ==
  ASSUME TypeInv, ReconnectInv, NEW r \in Request, GiveUp(r)
  PROVE  SafeStep(r)
<1> DEFINE c == local[r].rec
<1>1. /\ Step(r) /\ Active(r) /\ Well(r) /\ local[r] \in Local /\ pc[r] = "giveUp"
      /\ kind' = kind /\ UNCHANGED <<issued, newest, spent, revoked, aged, hurt>>
  BY TypeParts DEF Step, GiveUp, Active, notion
<1>2. kind[r] = "save" /\ c # None /\ c \in Connection
  BY <1>1 DEF Well, WellAt, Local
<1>3. c.grant \in spent /\ Excused(c.grant)
  BY <1>1, <1>2, Owners DEF ReconnectInv, Safe, SafeAt
<1>4. aged' <= issued'
  BY <1>1 DEF ReconnectInv
<1>5. CASE Put(Failed(c)) /\ Rethrows(r, local[r].error)
  <2>1. row' = Failed(c)
    BY <1>5 DEF Put
  <2>2. row'.grant = c.grant /\ row'.status = "refresh_failed"
    BY <1>2, <2>1, FailedFields
  <2>3. RowSafe'
    BY <1>1, <1>3, <2>2 DEF RowSafe, Excused, Usable
  <2>4. Safe(r)'
    BY <1>1, <1>2, <1>3, <1>5, RethrowsSafe
  <2> QED BY <1>4, <2>3, <2>4 DEF SafeStep
<1>6. CASE Finish(r, "error") /\ UNCHANGED <<row, replica>>
  BY <1>1, <1>4, <1>6, EndIsSafe, RowKept DEF SafeStep, Storing
<1> QED BY <1>5, <1>6 DEF GiveUp

LEMMA PageSafe ==
  ASSUME TypeInv, ReconnectInv, NEW r \in Request,
         CreatePage(r) \/ ParentFails(r) \/ ServerFails(r)
  PROVE  SafeStep(r)
<1> DEFINE c == local[r].rec
<1>1. /\ Step(r) /\ Active(r) /\ Well(r) /\ local[r] \in Local /\ pc[r] = "create"
      /\ row' = row /\ kind' = kind /\ UNCHANGED <<issued, newest, spent, revoked, aged, hurt>>
  BY TypeParts, Zenon DEF Step, CreatePage, ParentFails, ServerFails, Active, notion, tables
<1>2. kind[r] = "save" /\ c # None /\ c \in Connection
  BY <1>1 DEF Well, WellAt, Local
<1>3. aged' <= issued' /\ RowSafe'
  BY <1>1, RowKept DEF ReconnectInv, Storing
<1>4. /\ local[r].again => c = local[r].new /\ c.access > aged
      /\ local[r].new # None => local[r].new.access > aged
  BY <1>1, <1>2 DEF ReconnectInv, Safe, SafeAt
<1>5. ASSUME NEW e, Says(r, e), local[r].again, e = "invalid_token"
      PROVE  Excused(c.grant)
  <2>1. c.access \in Nat /\ aged \in Nat
    BY <1>2 DEF Connection, Token, TypeInv, TypeOK
  <2>2. ~(c.access <= aged)
    BY <1>4, <1>5, <2>1
  <2> QED BY <1>5, <2>2 DEF Says, MayRefuse, Revoked, Excused
<1>6. ASSUME NEW e \in Error, Says(r, e), PageFails(r, e) PROVE Safe(r)'
  <2> DEFINE l == [local[r] EXCEPT !.again = TRUE]
  <2>1. CASE Goto(r, "read", l)
    <3>1. l.new = local[r].new
      BY <1>1 DEF Local
    <3>2. pc'[r] = "read" /\ local'[r] = l /\ kind'[r] = "save"
      BY <1>1, <1>2, <2>1, GotoFacts DEF TypeInv
    <3> HIDE DEF l
    <3> QED BY <1>1, <1>4, <3>1, <3>2 DEF Safe, SafeAt
  <2>2. CASE Rethrows(r, e)
    BY <1>1, <1>2, <1>5, <1>6, <2>2, RethrowsSafe
  <2> QED BY <1>6, <2>1, <2>2 DEF PageFails
<1>7. CASE Goto(r, "create", [local[r] EXCEPT !.todo = @ - 1])
  <2> DEFINE l == [local[r] EXCEPT !.todo = @ - 1]
  <2>1. l.rec = c /\ l.new = local[r].new /\ l.again = local[r].again
    BY <1>1 DEF Local
  <2>2. pc'[r] = "create" /\ local'[r] = l /\ kind'[r] = "save"
    BY <1>1, <1>2, <1>7, GotoFacts DEF TypeInv
  <2> HIDE DEF l
  <2> QED BY <1>1, <1>3, <1>4, <2>1, <2>2 DEF SafeStep, Safe, SafeAt
<1>8. \/ \E how : Finish(r, how)
      \/ Goto(r, "create", [local[r] EXCEPT !.todo = @ - 1])
      \/ \E e \in Error : Says(r, e) /\ PageFails(r, e)
  BY Zenon DEF CreatePage, ParentFails, ServerFails
<1> QED BY <1>3, <1>6, <1>7, <1>8, EndIsSafe DEF SafeStep

LEMMA MarkSafe ==
  ASSUME TypeInv, ReconnectInv, NEW r \in Request, Mark(r) \/ Disconnect(r)
  PROVE  SafeStep(r)
<1> DEFINE c == local[r].conn
<1>1. /\ Step(r) /\ Active(r) /\ Well(r) /\ local[r] \in Local /\ \E how : Finish(r, how)
      /\ kind' = kind /\ UNCHANGED <<issued, newest, spent, revoked, aged, hurt>>
  BY TypeParts DEF Step, Mark, Disconnect, Active, notion
<1>2. aged' <= issued' /\ Safe(r)'
  BY <1>1, EndIsSafe DEF ReconnectInv
<1>3. CASE Mark(r)
  <2>1. kind[r] = "save" /\ c # None /\ c \in Connection /\ pc[r] = "mark"
    BY <1>1, <1>3 DEF Mark, Well, WellAt, Local
  <2>2. c.grant \in spent /\ Excused(c.grant)
    BY <1>1, <2>1, Owners DEF ReconnectInv, Safe, SafeAt
  <2>3. row' = Failed(c)
    BY <1>3 DEF Mark, Put
  <2>4. row'.grant = c.grant /\ row'.status = "refresh_failed"
    BY <2>1, <2>3, FailedFields
  <2>5. RowSafe'
    BY <1>1, <2>2, <2>4 DEF RowSafe, Excused, Usable
  <2> QED BY <1>2, <2>5 DEF SafeStep
<1>4. CASE Disconnect(r)
  BY <1>2, <1>4 DEF SafeStep, RowSafe, Disconnect, Put
<1> QED BY <1>3, <1>4

LEMMA ReadSettingsSafe ==
  ASSUME TypeInv, ReconnectInv, NEW r \in Request, ReadSettings(r)
  PROVE  SafeStep(r)
<1>1. /\ Step(r) /\ Active(r) /\ Well(r) /\ local[r] \in Local /\ pc[r] = "read"
      /\ kind[r] = "settings" /\ row' = row /\ kind' = kind
      /\ UNCHANGED <<issued, newest, spent, revoked, aged, hurt>>
      /\ replica = row /\ row \in Connection \cup {None}
  BY TypeParts DEF Step, ReadSettings, Active, tables, notion, ReconnectInv, OwnInv,
                   TypeInv, TypeOK
<1>2. aged' <= issued' /\ RowSafe'
  BY <1>1, RowKept DEF ReconnectInv, Storing
<1>3. CASE Finish(r, "error")
  BY <1>2, <1>3, EndIsSafe DEF SafeStep
<1>4. ASSUME row # None, NEW t \in Targets,
             Goto(r, "store", [local[r] EXCEPT !.new = [row EXCEPT !.targets = t]])
      PROVE  Safe(r)'
  <2> DEFINE n == [row EXCEPT !.targets = t]
             l == [local[r] EXCEPT !.new = n]
  <2>1. n.refresh = row.refresh /\ n.status = row.status
    BY <1>1, <1>4 DEF Connection
  <2>2. l.new = n
    BY <1>1, LocalFields
  <2>3. pc'[r] = "store" /\ local'[r] = l /\ kind'[r] = "settings"
    BY <1>1, <1>4, GotoFacts DEF TypeInv
  <2> HIDE DEF n, l
  <2> QED BY <1>1, <2>1, <2>2, <2>3 DEF Safe, SafeAt
<1>5. \/ Finish(r, "error")
      \/ /\ row # None
         /\ \E t \in Targets :
              Goto(r, "store", [local[r] EXCEPT !.new = [row EXCEPT !.targets = t]])
  BY <1>1, Zenon DEF ReadSettings
<1> QED BY <1>2, <1>3, <1>4, <1>5 DEF SafeStep

LEMMA EndsSafe ==
  ASSUME TypeInv, ReconnectInv, NEW r \in Request, RequestFails(r) \/ Stop(r)
  PROVE  SafeStep(r)
<1>1. /\ Step(r) /\ Active(r) /\ Well(r) /\ \E how : Finish(r, how)
      /\ kind' = kind /\ row' = row /\ UNCHANGED <<issued, newest, spent, revoked, aged>>
  BY TypeParts DEF Step, RequestFails, Stop, Active, notion, tables
<1>2. aged' <= issued' /\ Safe(r)'
  BY <1>1, EndIsSafe DEF ReconnectInv
<1>3. ASSUME row # None, Storing(r) PROVE Excused(row.grant)'
  <2>1. local[r].rec # None
    BY <1>1, <1>3 DEF Storing, Well, WellAt
  <2>2. local[r].rec.grant = row.grant
    BY <1>1, <1>3, <2>1, Owners DEF Storing
  <2>3. hurt' = hurt \cup {local[r].rec.grant}
    BY <1>3, <2>1 DEF Storing, RequestFails, Stop
  <2> QED BY <1>1, <2>2, <2>3 DEF Excused
<1>4. RowSafe'
  BY <1>1, <1>3, RowKept
<1> QED BY <1>2, <1>4 DEF SafeStep

\* Every step of a request.
LEMMA RequestSafe ==
  ASSUME TypeInv, ReconnectInv, NEW r \in Request, Step(r)
  PROVE  RowSafe' /\ aged' <= issued' /\ \A q \in Request : Safe(q)'
<1>1. SafeStep(r)
  BY CallbackSafe, StoreSafe, StoreFailsSafe, ReadSafe, RefreshSafe,
     RefreshFailsSafe, GiveUpSafe, PageSafe, MarkSafe, ReadSettingsSafe,
     EndsSafe DEF Step
<1>2. kind[r] = "settings" => row'.refresh = row.refresh /\ row'.status = row.status
  <2> SUFFICES ASSUME kind[r] = "settings"
               PROVE  row'.refresh = row.refresh /\ row'.status = row.status
    OBVIOUS
  <2>1. Well(r) /\ Safe(r)
    BY TypeParts DEF ReconnectInv
  <2>2. CASE Store(r)
    BY <2>1, <2>2 DEF Store, Put, Safe, SafeAt
  <2>3. CASE \/ StoreFails(r) \/ ReadSettings(r) \/ RequestFails(r) \/ Stop(r)
    BY <2>3 DEF StoreFails, ReadSettings, RequestFails, Stop, tables
  <2>4. ~(\/ Lookup(r) \/ Exchange(r) \/ ExchangeFails(r) \/ Cleanup(r)
          \/ ReadConnection(r) \/ RefreshToken(r) \/ RefreshFails(r) \/ GiveUp(r)
          \/ CreatePage(r) \/ ParentFails(r) \/ ServerFails(r) \/ Mark(r)
          \/ Disconnect(r))
    BY <2>1 DEF Lookup, Exchange, ExchangeFails, Cleanup, ReadConnection,
                RefreshToken, RefreshFails, GiveUp, CreatePage, ParentFails,
                ServerFails, Mark, Disconnect, Well, WellAt
  <2> QED BY <2>2, <2>3, <2>4 DEF Step
<1>3. \A q \in Request \ {r} : Safe(q)'
  BY <1>2, SafeOthers
<1> QED BY <1>1, <1>3 DEF SafeStep

LEMMA NoLocalNew ==
  NoLocal.new = None /\ \A g : [NoLocal EXCEPT !.grant = g].new = None
BY DEF NoLocal

\* A request that begins, the user, the tables and the clock.
LEMMA BeginSafe ==
  ASSUME TypeInv, ReconnectInv, NEW r \in Request,
         (\E g \in Grant : BeginCallback(r, g)) \/ BeginOther(r)
  PROVE  RowSafe' /\ aged' <= issued' /\ \A q \in Request : Safe(q)'
<1>1. PICK k, label, l : /\ Begin(r, k, label, l) /\ l.new = None
                         /\ label \in {"lookup", "read", "delete"}
  <2>1. ASSUME NEW k, NEW label \in {"read", "delete"}, Begin(r, k, label, NoLocal)
        PROVE  \E j, name, l : /\ Begin(r, j, name, l) /\ l.new = None
                               /\ name \in {"lookup", "read", "delete"}
    BY <2>1, NoLocalNew
  <2>2. ASSUME NEW g \in Grant, BeginCallback(r, g)
        PROVE  \E j, name, l : /\ Begin(r, j, name, l) /\ l.new = None
                               /\ name \in {"lookup", "read", "delete"}
    <3> DEFINE m == [NoLocal EXCEPT !.grant = g]
    <3>1. Begin(r, "callback", "lookup", m) /\ m.new = None
      BY <2>2, NoLocalNew DEF BeginCallback
    <3> HIDE DEF m
    <3> QED BY <3>1
  <2> QED BY <2>1, <2>2 DEF BeginOther
<1>2. /\ kind'[r] = k /\ pc'[r] = label /\ local'[r] = l /\ pc[r] = "idle"
      /\ \A q \in Request \ {r} : /\ kind'[q] = kind[q] /\ pc'[q] = pc[q]
                                  /\ local'[q] = local[q]
      /\ UNCHANGED <<row, issued, newest, spent, revoked, aged, hurt>>
  BY <1>1 DEF Begin, Goto, TypeInv, TypeOK, tables, notion
<1>3. Safe(r)'
  BY <1>1, <1>2 DEF Safe, SafeAt
<1>4. \A q \in Request \ {r} : Safe(q)'
  BY <1>2 DEF ReconnectInv, Safe, SafeAt, Current, Excused
<1>5. \A q \in Request : Storing(q) => Storing(q)'
  BY <1>2 DEF Storing
<1>6. RowSafe' /\ aged' <= issued'
  BY <1>2, <1>5 DEF ReconnectInv, RowSafe, Current, Excused, Usable
<1> QED BY <1>3, <1>4, <1>6

LEMMA WorldSafe ==
  ASSUME TypeInv, ReconnectInv,
         \/ \E g \in Grant : Connect(g) \/ Revoke(g) \/ ExpireState(g)
         \/ Replicate \/ Age \/ UNCHANGED vars
  PROVE  RowSafe' /\ aged' <= issued' /\ \A q \in Request : Safe(q)'
<1>1. /\ UNCHANGED <<row, kind, pc, local, issued, newest, spent, hurt>>
      /\ revoked \subseteq revoked'
  BY DEF Connect, Revoke, ExpireState, Replicate, Age, vars, tables, request, notion
<1>2. /\ aged' \in Nat /\ issued \in Nat /\ aged \in Nat
      /\ aged' <= issued'
      /\ \A r \in Request : local[r].new # None /\ local[r].new.access > aged =>
                              local[r].new.access > aged'
  <2>1. aged \in Nat /\ issued \in Nat
    BY DEF TypeInv, TypeOK, Token
  <2>2. CASE Age
    <3>1. /\ aged < issued /\ aged' = aged + 1
          /\ \A r \in Request :
               local[r].new # None => local[r].new.access > aged + 1
      BY <2>2 DEF Age
    <3> QED BY <1>1, <2>1, <3>1
  <2>3. CASE aged' = aged
    BY <1>1, <2>1, <2>3 DEF ReconnectInv
  <2> QED BY <2>2, <2>3 DEF Connect, Revoke, ExpireState, Replicate, vars, notion
<1>3. RowSafe'
  BY <1>1 DEF ReconnectInv, RowSafe, Current, Excused, Usable, Storing
<1>4. \A q \in Request : Safe(q)'
  BY <1>1, <1>2 DEF ReconnectInv, Safe, SafeAt, Current, Excused
<1> QED BY <1>2, <1>3, <1>4

\* While saves, connecting and disconnecting do not overlap other requests and no
\* read is stale, the user is sent back to the connect button only if Notion no
\* longer accepts the connection, gave no refresh token for it, or a fault got
\* in the way of its refresh (getConnectionForUse, createPostIdea).
THEOREM ReconnectIsNeeded ==
  ASSUME {"save", "callback", "disconnect"} \subseteq Alone, "stale" \notin Faults
  PROVE  Spec => []NoNeedlessReconnect
<1>1. Init => ReconnectInv
  BY NoneAssumption DEF Init, ReconnectInv, OwnInv, Exclusive, Known, Own, Active,
     RowSafe, Safe, SafeAt, Token
<1>2. TypeInv /\ ReconnectInv /\ [Next]_vars => ReconnectInv'
  <2> SUFFICES ASSUME TypeInv, ReconnectInv, [Next]_vars PROVE ReconnectInv'
    OBVIOUS
  <2>1. OwnInv' /\ Exclusive("save")' /\ Known'
    BY OwnStep, ExclusiveStep, KnownStep DEF ReconnectInv
  <2>2. RowSafe' /\ aged' <= issued' /\ \A q \in Request : Safe(q)'
    BY RequestSafe, BeginSafe, WorldSafe DEF Next
  <2> QED BY <2>1, <2>2 DEF ReconnectInv
<1>3. TypeInv /\ ReconnectInv /\ [Next]_vars => (TypeInv /\ ReconnectInv)'
  BY <1>2, TypeStep
<1>4. ReconnectInv => NoNeedlessReconnect
  BY DEF ReconnectInv, RowSafe, NoNeedlessReconnect, Excused
<1> QED BY <1>1, <1>3, <1>4, TypeInit, PTL DEF Spec
=============================================================================
