-------------------------- MODULE DashboardContext --------------------------
(***************************************************************************)
(* What the extension knows of the dashboard around it.  The page reads    *)
(* the context when it starts, listens to changes of the selection and     *)
(* reads it anew for each; the chat panel has a missing workbook name      *)
(* looked up, and reads once more before a question is sent.               *)
(*                                                                         *)
(* A reading asks Tableau for several parts at once and ends with the last *)
(* of them.  Of the parts only the selected marks are kept, as the moment  *)
(* they show: how many selections there had been, or 0 if they could not   *)
(* be read.  Readings overlap, and whichever ends last is shown.           *)
(***************************************************************************)
EXTENDS Naturals, Sequences

CONSTANTS
  Mark,          \* what may be selected
  None,
  Faults,        \* what may go wrong: see FaultKinds
  MaxMoments,    \* bound on the selections of one run
  MaxQuestions   \* bound on the questions that are asked

\* Tableau does not initialize; a part cannot be read; the listener cannot be
\* attached; the workbook name cannot be looked up.
FaultKinds == {"init", "read", "attach", "name"}

ASSUME ConstantsAssumption ==
  /\ None \notin Nat
  /\ Faults \subseteq FaultKinds
  /\ MaxMoments \in Nat \ {0} /\ MaxQuestions \in Nat

VARIABLES
  picked,    \* the selections the dashboard has shown so far
  page,      \* where the effect of the page is, and the readings it has begun
  reads,     \* the readings under way
  shown,     \* the context the page shows, or None
  newest,    \* the youngest reading that was shown
  heard,     \* the selections the page was told of
  naming,    \* the look-ups of the workbook name
  question,  \* where the sending of a question is
  session    \* is the user signed in? does Tableau tell the workbook's name?

vars == <<picked, page, reads, shown, newest, heard, naming, question, session>>

-----------------------------------------------------------------------------
(* Values *)

\* A selection that was cleared is reported as nothing; a table of headers
\* without rows would do for a selection.
Selection == Mark \cup {"nothing"}

Moment == 0..MaxMoments
Now == Len(picked)
MaxReads == MaxMoments + MaxQuestions
Reading == [id : 1..MaxReads, kind : {"init", "refresh", "send"},
            marks : Moment \cup {None}]
Context == [id : 0..MaxReads, marks : Moment, named : BOOLEAN]

TypeOK ==
  /\ picked \in Seq(Selection) /\ Now \in 1..MaxMoments
  /\ page \in [pc : {"starting", "reading", "attaching", "listening", "deaf"},
               begun : 0..MaxReads]
  /\ reads \subseteq Reading
  /\ shown \in Context \cup {None}
  /\ newest \in 0..MaxReads
  /\ heard \in [due : SUBSET (1..MaxMoments), last : Moment]
  /\ naming \in [key : 0..MaxReads \cup {None}, under : SUBSET (0..MaxReads),
                 failed : 0..MaxReads \cup {None}]
  /\ question \in [pc : {"idle", "reading", "naming", "sent"}, asked : 0..MaxQuestions,
                   at : Moment, base : Moment, fresh : Moment,
                   context : Context \cup {None}]
  /\ session \in [token : BOOLEAN, gives : BOOLEAN]

\* The mock context has a workbook name, and nothing in it was ever read.
Mock == [id |-> 0, marks |-> 0, named |-> TRUE]

NewRead(id, kind) == [id |-> id, kind |-> kind, marks |-> None]

Idle == [pc |-> "idle", asked |-> 0, at |-> 0, base |-> 0, fresh |-> 0, context |-> None]

Init ==
  /\ \E s \in Selection : picked = <<s>>
  /\ page = [pc |-> "starting", begun |-> 0]
  /\ reads = {}
  /\ shown = None
  /\ newest = 0
  /\ heard = [due |-> {}, last |-> 0]
  /\ naming = [key |-> None, under |-> {}, failed |-> None]
  /\ question = Idle
  /\ session \in [token : BOOLEAN, gives : BOOLEAN]

-----------------------------------------------------------------------------
(* The dashboard *)

\* The user selects marks, or clears the selection; a listener will be told.
Pick(s) ==
  /\ Now < MaxMoments
  /\ picked' = Append(picked, s)
  /\ heard' = IF page.pc = "listening" THEN [heard EXCEPT !.due = @ \cup {Now + 1}]
              ELSE heard
  /\ UNCHANGED <<page, reads, shown, newest, naming, question, session>>

\* Marks that cannot be read are reported as not available.
ReadMarks(r) ==
  /\ r.marks = None
  /\ \E m \in {Now} \cup (IF "read" \in Faults THEN {0} ELSE {}) :
       reads' = (reads \ {r}) \cup {[r EXCEPT !.marks = m]}
  /\ UNCHANGED <<picked, page, shown, newest, heard, naming, question, session>>

\* The reading ends with the last of the other parts.
IsRead(r) == r.marks # None

\* Tableau gives the name of the workbook, or the address of the page does.
GivesName == session.gives

ContextOf(r) == [id |-> r.id, marks |-> r.marks, named |-> GivesName]

-----------------------------------------------------------------------------
(* The page *)

StartRead(kind, pc) ==
  /\ page' = [pc |-> pc, begun |-> page.begun + 1]
  /\ reads' = reads \cup {NewRead(page.begun + 1, kind)}

Initialize ==
  /\ page.pc = "starting"
  /\ StartRead("init", "reading")
  /\ UNCHANGED <<picked, shown, newest, heard, naming, question, session>>

\* No Extensions API, or none that works: there is nothing to listen to.
InitializeFails ==
  /\ page.pc = "starting"
  /\ "init" \in Faults
  /\ page' = [page EXCEPT !.pc = "deaf"]
  /\ shown' = Mock
  /\ UNCHANGED <<picked, reads, newest, heard, naming, question, session>>

\* A reading ends, be it of an earlier selection than the one that is shown.
Show(r) ==
  /\ IsRead(r)
  /\ reads' = reads \ {r}
  /\ shown' = ContextOf(r)
  /\ newest' = IF newest < r.id THEN r.id ELSE newest
  /\ UNCHANGED <<picked, heard, naming, question, session>>

\* The worksheets are asked for, and the listeners attached, after the first.
ShowFirst(r) ==
  /\ r.kind = "init"
  /\ Show(r)
  /\ page' = [page EXCEPT !.pc = "attaching"]

Attach ==
  /\ page.pc = "attaching"
  /\ \/ page' = [page EXCEPT !.pc = "listening"]
     \/ "attach" \in Faults /\ page' = [page EXCEPT !.pc = "deaf"]
  /\ UNCHANGED <<picked, reads, shown, newest, heard, naming, question, session>>

\* Mutant: a selection is left to the refresh that is under way.
HearUnlessReading(i) ==
  /\ i \in heard.due
  /\ \A j \in heard.due : i <= j
  /\ heard' = [due |-> heard.due \ {i}, last |-> i]
  /\ IF \E r \in reads : r.kind = "refresh"
     THEN UNCHANGED <<page, reads>>
     ELSE StartRead("refresh", page.pc)
  /\ UNCHANGED <<picked, shown, newest, naming, question, session>>

\* The event of a selection.
Hear(i) ==
  /\ i \in heard.due
  /\ \A j \in heard.due : i <= j
  /\ heard' = [due |-> heard.due \ {i}, last |-> i]
  /\ StartRead("refresh", page.pc)
  /\ UNCHANGED <<picked, shown, newest, naming, question, session>>

Refresh(r) ==
  /\ r.kind = "refresh"
  /\ Show(r)
  /\ UNCHANGED page

-----------------------------------------------------------------------------
(* The workbook name: the enrichment effect of ChatPanel *)

\* onDashboardContextPatch: the name goes to whatever is shown by now.
Patched == IF shown = None THEN shown ELSE [shown EXCEPT !.named = TRUE]

\* Mutant: one look-up per dashboard is enough.
KeyOfDashboard(context) == 0

\* dashboardName:capturedAt
KeyOf(context) == context.id

LookUp ==
  /\ shown # None
  /\ ~shown.named
  /\ session.token
  /\ naming.key # KeyOf(shown)
  /\ naming' = [naming EXCEPT !.key = KeyOf(shown), !.under = @ \cup {shown.id}]
  /\ UNCHANGED <<picked, page, reads, shown, newest, heard, question, session>>

LookUpReturns(id) ==
  /\ id \in naming.under
  /\ shown' = Patched
  /\ naming' = [naming EXCEPT !.under = @ \ {id}]
  /\ UNCHANGED <<picked, page, reads, newest, heard, question, session>>

\* The API fails, or knows no name but one that is the dashboard's own.
LookUpFails(id) ==
  /\ id \in naming.under
  /\ "name" \in Faults
  /\ naming' = [naming EXCEPT !.under = @ \ {id},
                              !.failed = IF shown.id = id THEN id ELSE @]
  /\ UNCHANGED <<picked, page, reads, shown, newest, heard, question, session>>

SignIn ==
  /\ ~session.token
  /\ session' = [session EXCEPT !.token = TRUE]
  /\ UNCHANGED <<picked, page, reads, shown, newest, heard, naming, question>>

-----------------------------------------------------------------------------
(* A question: resolveDashboardContextForSend *)

\* hasMeaningfulSelectedMarks
Meaningful(moment) == moment # 0 /\ picked[moment] # "nothing"

\* Mutant: what is shown comes before what was read.
MergedShownFirst(shownMarks, freshMarks) ==
  IF Meaningful(shownMarks) THEN shownMarks ELSE freshMarks

\* mergeSelectedMarksForSend
MergedMarks(shownMarks, freshMarks) ==
  IF ~Meaningful(freshMarks) /\ Meaningful(shownMarks) THEN shownMarks ELSE freshMarks

\* mergeDashboardContextsForSend: a name that was looked up is lost again.
Merged(context, fresh) ==
  [fresh EXCEPT !.marks = MergedMarks(context.marks, fresh.marks)]

\* With the token the question is sent with, the name is looked up again.
NextPc(context) == IF context.named THEN "sent" ELSE "naming"

Asks(pc) ==
  /\ question.pc = "idle"
  /\ question.asked < MaxQuestions
  /\ shown # None
  /\ session.token
  /\ question' = [pc |-> pc, asked |-> question.asked + 1, at |-> Now,
                  base |-> shown.marks, fresh |-> 0, context |-> shown]

Ask ==
  /\ shown # Mock
  /\ Asks("reading")
  /\ StartRead("send", page.pc)
  /\ UNCHANGED <<picked, shown, newest, heard, naming, session>>

\* Without a dashboard there is nothing to read anew.
AskWithoutDashboard ==
  /\ shown = Mock
  /\ Asks("sent")
  /\ UNCHANGED <<picked, page, reads, shown, newest, heard, naming, session>>

Resolve(r) ==
  /\ r.kind = "send" /\ IsRead(r)
  /\ reads' = reads \ {r}
  /\ LET merged == Merged(question.context, ContextOf(r)) IN
       question' = [question EXCEPT !.pc = NextPc(merged), !.fresh = r.marks,
                                    !.context = merged]
  /\ UNCHANGED <<picked, page, shown, newest, heard, naming, session>>

ResolveName ==
  /\ question.pc = "naming"
  /\ \/ /\ shown' = Patched
        /\ question' = [question EXCEPT !.pc = "sent", !.context.named = TRUE]
     \/ /\ "name" \in Faults
        /\ question' = [question EXCEPT !.pc = "sent"]
        /\ UNCHANGED shown
  /\ UNCHANGED <<picked, page, reads, newest, heard, naming, session>>

\* handleCompletedJob: the answer may know the name by now.
AnswerReturns ==
  /\ question.pc = "sent"
  /\ question' = [Idle EXCEPT !.asked = question.asked]
  /\ shown' = shown \/ (~question.context.named /\ shown' = Patched)
  /\ UNCHANGED <<picked, page, reads, newest, heard, naming, session>>

-----------------------------------------------------------------------------

PageStep ==
  \/ Initialize \/ InitializeFails \/ Attach
  \/ \E r \in reads : ReadMarks(r) \/ ShowFirst(r) \/ Refresh(r) \/ Resolve(r)
  \/ \E i \in heard.due : Hear(i)
  \/ LookUp
  \/ \E id \in naming.under : LookUpReturns(id) \/ LookUpFails(id)
  \/ ResolveName \/ AnswerReturns

User ==
  \/ \E s \in Selection : Pick(s)
  \/ Ask \/ AskWithoutDashboard \/ SignIn

Next == PageStep \/ User

\* Tableau and the API answer, well or badly, and the browser runs what is due.
Spec == Init /\ [][Next]_vars /\ WF_vars(PageStep)

-----------------------------------------------------------------------------
(* Properties *)

\* Nothing is under way that would change the selection that is shown.
Quiet ==
  /\ heard.due = {}
  /\ \A r \in reads : r.kind = "send"

\* Between changes, the page shows a selection no older than the last one it was
\* told of, unless a reading ended after a younger one: no event is lost on a
\* reading that is under way (App.tsx: refreshDashboardContext).
ShownFollowsSelection ==
  Quiet /\ shown # None /\ shown.id = newest =>
    shown.marks = 0 \/ shown.marks >= heard.last

\* A question never goes out with marks older than itself, although the user
\* goes on selecting while it is sent: but if what was on the page was behind
\* and Tableau reported no selection any more, or did not answer.
QuestionMeetsSelection ==
  question.pc \in {"naming", "sent"} /\ question.context # Mock =>
    LET marks == question.context.marks IN
      \/ marks = 0
      \/ marks >= question.at
      \/ question.base < question.at /\ ~Meaningful(question.fresh)

\* Every context that came without a workbook name gets one, unless its own
\* look-up failed: a refresh drops the name, and must have it looked up again.
NameReturns ==
  (shown # None /\ ~shown.named /\ session.token)
    ~> (shown # None /\ (shown.named \/ shown.id = naming.failed))
=============================================================================
