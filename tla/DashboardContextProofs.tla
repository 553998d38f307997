------------------------ MODULE DashboardContextProofs ------------------------
(***************************************************************************)
(* Proofs about DashboardContext, for any marks, any number of selections  *)
(* and questions, and any faults.                                          *)
(***************************************************************************)
EXTENDS DashboardContext, TLAPS

-----------------------------------------------------------------------------
(* Types *)

\* The events that are due come in their order, after the last one.
EventsInOrder ==
  /\ heard.last <= Now
  /\ \A i \in heard.due : heard.last < i /\ 1 < i /\ i <= Now

\* Each reading is the first one, or of an event or of a question.
ReadsCounted ==
  page.begun <= (IF page.pc = "starting" THEN 0 ELSE 1)
                  + (IF heard.last = 0 THEN 0 ELSE heard.last - 1)
                  + question.asked

\* A question that was asked has a context to go out with.
QuestionHasContext == question.pc # "idle" => question.context \in Context

\* A reading for a question is waited for, and is the only one of its kind.
SendAwaited ==
  \A r \in reads : r.kind = "send" =>
    /\ question.pc = "reading"
    /\ \A q \in reads : q.kind = "send" => q = r

TypeInv == TypeOK /\ EventsInOrder /\ ReadsCounted /\ QuestionHasContext /\ SendAwaited

LEMMA Bounds ==
  /\ MaxMoments \in Nat /\ MaxMoments > 0 /\ MaxQuestions \in Nat
  /\ MaxReads \in Nat /\ None \notin Nat
  BY ConstantsAssumption DEF MaxReads

\* The numbers among the state.
LEMMA Numbers ==
  ASSUME TypeOK
  PROVE  /\ Now \in Nat /\ 1 <= Now /\ Now <= MaxMoments
         /\ page.begun \in Nat /\ page.begun <= MaxReads
         /\ newest \in Nat /\ newest <= MaxReads
         /\ heard.last \in Nat /\ heard.last <= MaxMoments
         /\ \A i \in heard.due : i \in Nat /\ i <= MaxMoments
         /\ question.asked \in Nat /\ question.asked <= MaxQuestions
         /\ question.at \in Nat /\ question.fresh \in Nat
         /\ \A r \in reads : r.id \in Nat /\ (r.marks # None => r.marks \in Nat)
  BY Bounds DEF TypeOK, Now, Moment, Reading

\* A reading makes a context.
LEMMA ContextOfReading ==
  ASSUME TypeOK, NEW r \in reads, IsRead(r)
  PROVE  /\ ContextOf(r) \in Context
         /\ ContextOf(r).id = r.id /\ ContextOf(r).marks = r.marks
  BY Bounds DEF TypeOK, Reading, Context, ContextOf, IsRead, GivesName

\* A name changes nothing else of a context.
LEMMA PatchedContext ==
  ASSUME TypeOK
  PROVE  /\ Patched \in Context \cup {None}
         /\ shown = None => Patched = None
         /\ shown # None => Patched.id = shown.id /\ Patched.marks = shown.marks
  BY DEF TypeOK, Context, Patched

LEMMA TypeInitially == Init => TypeInv
<1> SUFFICES ASSUME Init PROVE TypeInv
  OBVIOUS
<1>1. TypeOK
  BY Bounds DEF Init, TypeOK, Now, Moment, Idle, Selection
<1>2. EventsInOrder
  BY <1>1, Numbers DEF Init, EventsInOrder
<1>3. ReadsCounted /\ QuestionHasContext /\ SendAwaited
  BY Bounds DEF Init, ReadsCounted, QuestionHasContext, SendAwaited, Idle
<1> QED
  BY <1>1, <1>2, <1>3 DEF TypeInv

\* A reading that begins.
LEMMA StartedRead ==
  ASSUME TypeOK, NEW kind \in {"init", "refresh", "send"},
         NEW pc \in {"starting", "reading", "attaching", "listening", "deaf"},
         StartRead(kind, pc), page.begun < MaxReads
  PROVE  /\ page' \in [pc : {"starting", "reading", "attaching", "listening", "deaf"},
                       begun : 0..MaxReads]
         /\ page'.pc = pc /\ page'.begun = page.begun + 1
         /\ reads' \subseteq Reading
<1>1. /\ page.begun + 1 \in 1..MaxReads
      /\ page' = [pc |-> pc, begun |-> page.begun + 1]
  BY Numbers, Bounds DEF StartRead
<1>2. NewRead(page.begun + 1, kind) \in Reading
  BY <1>1 DEF NewRead, Reading
<1> QED
  BY <1>1, <1>2, Bounds DEF StartRead, TypeOK

\* The question and its reading come and go together.
LEMMA AwaitedStep == TypeOK /\ SendAwaited /\ [Next]_vars => SendAwaited'
<1> SUFFICES ASSUME TypeOK, SendAwaited, [Next]_vars PROVE SendAwaited'
  OBVIOUS
<1>1. ASSUME UNCHANGED question, reads' \subseteq reads PROVE SendAwaited'
  BY <1>1 DEF SendAwaited
<1>2. ASSUME NEW kind, kind # "send", NEW pc, StartRead(kind, pc), UNCHANGED question
      PROVE  SendAwaited'
  BY <1>2 DEF SendAwaited, StartRead, NewRead
<1>3. ASSUME NEW r \in reads, ReadMarks(r) PROVE SendAwaited'
  <2>1. PICK m : reads' = (reads \ {r}) \cup {[r EXCEPT !.marks = m]}
    BY <1>3 DEF ReadMarks
  <2>2. [r EXCEPT !.marks = m].kind = r.kind
    BY DEF TypeOK, Reading
  <2> QED
    BY <1>3, <2>1, <2>2 DEF ReadMarks, SendAwaited
<1>4. ASSUME NEW r \in reads, Resolve(r) PROVE SendAwaited'
  BY <1>4 DEF Resolve, SendAwaited
<1>5. CASE Ask
  <2>1. question.pc = "idle" /\ question'.pc = "reading"
    BY <1>5 DEF Ask, Asks
  <2>2. reads' = reads \cup {NewRead(page.begun + 1, "send")}
    BY <1>5 DEF Ask, StartRead
  <2> QED
    BY <2>1, <2>2 DEF SendAwaited, NewRead
<1>6. ASSUME question.pc # "reading", UNCHANGED reads PROVE SendAwaited'
  BY <1>6 DEF SendAwaited
<1>7. CASE UNCHANGED vars
  BY <1>1, <1>7 DEF vars
<1>8. ASSUME NEW r \in reads, Show(r) PROVE SendAwaited'
  BY <1>1, <1>8 DEF Show
<1>9. ASSUME Initialize \/ \E i \in heard.due : Hear(i) PROVE SendAwaited'
  BY <1>2, <1>9 DEF Initialize, Hear
<1>10. ASSUME \/ InitializeFails \/ Attach \/ LookUp \/ SignIn
              \/ \E id \in naming.under : LookUpReturns(id) \/ LookUpFails(id)
              \/ \E s \in Selection : Pick(s)
       PROVE  SendAwaited'
  BY <1>1, <1>10 DEF InitializeFails, Attach, LookUp, SignIn, LookUpReturns, LookUpFails, Pick
<1>11. ASSUME ResolveName \/ AnswerReturns \/ AskWithoutDashboard PROVE SendAwaited'
  BY <1>6, <1>11 DEF ResolveName, AnswerReturns, AskWithoutDashboard, Asks
<1> QED
  BY <1>3, <1>4, <1>5, <1>7, <1>8, <1>9, <1>10, <1>11 DEF Next, PageStep, User, ShowFirst, Refresh

\* The step keeps the types.
LEMMA TypeStep == TypeInv /\ [Next]_vars => TypeInv'
<1> DEFINE Typed == TypeOK /\ EventsInOrder /\ ReadsCounted /\ QuestionHasContext
<1> SUFFICES ASSUME TypeInv, [Next]_vars PROVE Typed'
  BY AwaitedStep DEF TypeInv
<1> USE DEF TypeInv
<1>1. CASE UNCHANGED vars
  BY <1>1 DEF vars, TypeOK, EventsInOrder, ReadsCounted, QuestionHasContext, Now
<1>2. ASSUME NEW s \in Selection, Pick(s) PROVE Typed'
  <2>1. Len(picked') = Now + 1 /\ picked' \in Seq(Selection)
    BY <1>2 DEF Pick, TypeOK, Now
  <2>a. heard' \in [due : SUBSET (1..MaxMoments), last : Moment]
    <3>1. heard' = heard \/ heard' = [heard EXCEPT !.due = @ \cup {Now + 1}]
      BY <1>2 DEF Pick
    <3>2. Now + 1 \in 1..MaxMoments
      BY <1>2, Numbers, Bounds DEF Pick
    <3> QED
      BY <3>1, <3>2 DEF TypeOK
  <2>2. TypeOK'
    BY <1>2, <2>1, <2>a, Numbers, Bounds DEF Pick, TypeOK, Now
  <2>3. EventsInOrder'
    BY <1>2, <2>1, Numbers DEF Pick, EventsInOrder, Now, TypeOK
  <2>4. ReadsCounted' /\ QuestionHasContext'
    BY <1>2 DEF Pick, ReadsCounted, QuestionHasContext, TypeOK
  <2> QED
    BY <2>2, <2>3, <2>4
<1>3. ASSUME NEW r \in reads, ReadMarks(r) PROVE Typed'
  <2>1. PICK m \in Moment : reads' = (reads \ {r}) \cup {[r EXCEPT !.marks = m]}
    BY <1>3, Numbers, Bounds DEF ReadMarks, Moment
  <2>2. reads' \subseteq Reading
    BY <2>1 DEF TypeOK, Reading
  <2> QED
    BY <1>3, <2>2 DEF ReadMarks, TypeOK, EventsInOrder, ReadsCounted, QuestionHasContext, Now
<1>4. CASE Initialize
  <2>1. page.begun < MaxReads
    BY <1>4, Numbers, Bounds DEF Initialize, EventsInOrder, ReadsCounted, MaxReads
  <2>2. /\ page' \in [pc : {"starting", "reading", "attaching", "listening", "deaf"},
                     begun : 0..MaxReads]
        /\ page'.pc = "reading" /\ page'.begun = page.begun + 1
        /\ reads' \subseteq Reading
    BY <1>4, <2>1, StartedRead DEF Initialize
  <2>3. ReadsCounted'
    BY <1>4, <2>2, Numbers DEF Initialize, ReadsCounted
  <2> QED
    BY <1>4, <2>2, <2>3 DEF Initialize, TypeOK, EventsInOrder, QuestionHasContext, Now
<1>5. CASE InitializeFails
  <2>1. Mock \in Context
    BY Bounds DEF Mock, Context, Moment
  <2>2. TypeOK'
    BY <1>5, <2>1 DEF InitializeFails, TypeOK, Now
  <2>3. page'.begun = page.begun /\ page'.pc = "deaf"
    BY <1>5 DEF InitializeFails, TypeOK
  <2>4. ReadsCounted'
    BY <1>5, <2>3, Numbers DEF InitializeFails, ReadsCounted
  <2> QED
    BY <1>5, <2>2, <2>4 DEF InitializeFails, EventsInOrder, QuestionHasContext, Now
<1>6. ASSUME NEW r \in reads, Show(r),
             page' = page \/ page' = [page EXCEPT !.pc = "attaching"]
      PROVE  Typed'
  <2>1. shown' \in Context
    BY <1>6, ContextOfReading DEF Show
  <2>2. newest' \in 0..MaxReads
    BY <1>6, Numbers DEF Show, TypeOK, Reading
  <2>3. /\ page' \in [pc : {"starting", "reading", "attaching", "listening", "deaf"},
                     begun : 0..MaxReads]
        /\ page'.begun = page.begun
        /\ page'.pc = page.pc \/ page'.pc = "attaching"
    BY <1>6 DEF TypeOK
  <2>4. TypeOK'
    BY <1>6, <2>1, <2>2, <2>3 DEF Show, TypeOK, Now
  <2>5. ReadsCounted'
    BY <1>6, <2>3, Numbers DEF Show, ReadsCounted
  <2> QED
    BY <1>6, <2>4, <2>5 DEF Show, EventsInOrder, QuestionHasContext, Now
<1>7. CASE Attach
  <2>1. /\ page' \in [pc : {"starting", "reading", "attaching", "listening", "deaf"},
                     begun : 0..MaxReads]
        /\ page'.begun = page.begun /\ page'.pc # "starting"
    BY <1>7 DEF Attach, TypeOK
  <2>2. ReadsCounted'
    BY <1>7, <2>1, Numbers DEF Attach, ReadsCounted
  <2> QED
    BY <1>7, <2>1, <2>2 DEF Attach, TypeOK, EventsInOrder, QuestionHasContext, Now
<1>8. ASSUME NEW i \in heard.due, Hear(i) PROVE Typed'
  <2>1. /\ heard.last < i /\ 1 < i /\ i <= MaxMoments /\ i \in Nat
        /\ heard' = [due |-> heard.due \ {i}, last |-> i]
    BY <1>8, Numbers DEF Hear, EventsInOrder
  <2>2. page.begun < MaxReads
    BY <2>1, Numbers, Bounds DEF ReadsCounted, MaxReads
  <2>3. /\ page' \in [pc : {"starting", "reading", "attaching", "listening", "deaf"},
                     begun : 0..MaxReads]
        /\ page'.pc = page.pc /\ page'.begun = page.begun + 1
        /\ reads' \subseteq Reading
    <3>1. page.pc \in {"starting", "reading", "attaching", "listening", "deaf"}
      BY DEF TypeOK
    <3> QED
      BY <1>8, <2>2, <3>1, StartedRead DEF Hear
  <2>4. heard' \in [due : SUBSET (1..MaxMoments), last : Moment]
    BY <2>1, Bounds DEF TypeOK, Moment
  <2>5. EventsInOrder'
    BY <1>8, <2>1, Numbers DEF Hear, EventsInOrder, Now
  <2>6. ReadsCounted'
    BY <1>8, <2>1, <2>3, Numbers DEF Hear, ReadsCounted
  <2> QED
    BY <1>8, <2>3, <2>4, <2>5, <2>6 DEF Hear, TypeOK, QuestionHasContext, Now
<1>9. CASE LookUp
  BY <1>9 DEF LookUp, KeyOf, TypeOK, Context, EventsInOrder, ReadsCounted, QuestionHasContext, Now
<1>10. ASSUME NEW id \in naming.under, LookUpReturns(id) \/ LookUpFails(id) PROVE Typed'
  <2>1. naming' \in [key : 0..MaxReads \cup {None}, under : SUBSET (0..MaxReads),
                    failed : 0..MaxReads \cup {None}]
    <3>1. CASE LookUpReturns(id)
      BY <3>1 DEF LookUpReturns, TypeOK
    <3>2. CASE LookUpFails(id)
      <4>1. (IF shown.id = id THEN id ELSE naming.failed) \in 0..MaxReads \cup {None}
        BY DEF TypeOK
      <4> QED
        BY <3>2, <4>1 DEF LookUpFails, TypeOK
    <3> QED
      BY <1>10, <3>1, <3>2
  <2>2. shown' \in Context \cup {None}
    BY <1>10, PatchedContext DEF LookUpReturns, LookUpFails, TypeOK
  <2> QED
    BY <1>10, <2>1, <2>2 DEF LookUpReturns, LookUpFails, TypeOK, EventsInOrder,
       ReadsCounted, QuestionHasContext, Now
<1>11. CASE SignIn
  BY <1>11 DEF SignIn, TypeOK, EventsInOrder, ReadsCounted, QuestionHasContext, Now
<1>12. ASSUME NEW pc \in {"reading", "sent"}, Asks(pc) PROVE
        /\ question' \in [pc : {"idle", "reading", "naming", "sent"}, asked : 0..MaxQuestions,
                          at : Moment, base : Moment, fresh : Moment,
                          context : Context \cup {None}]
        /\ question'.asked = question.asked + 1 /\ question.asked < MaxQuestions
        /\ question'.context \in Context
  <2>1. Now \in Moment /\ question.asked + 1 \in 0..MaxQuestions /\ 0 \in Moment
    BY <1>12, Numbers, Bounds DEF Asks, Moment
  <2>2. shown \in Context /\ shown.marks \in Moment
    BY <1>12 DEF Asks, TypeOK, Context
  <2> QED
    BY <1>12, <2>1, <2>2, Numbers DEF Asks
<1>13. CASE Ask
  <2>1. page.begun < MaxReads
    BY <1>12, <1>13, Numbers, Bounds DEF Ask, EventsInOrder, ReadsCounted, MaxReads
  <2>2. /\ page' \in [pc : {"starting", "reading", "attaching", "listening", "deaf"},
                     begun : 0..MaxReads]
        /\ page'.pc = page.pc /\ page'.begun = page.begun + 1
        /\ reads' \subseteq Reading
    <3>1. page.pc \in {"starting", "reading", "attaching", "listening", "deaf"}
      BY DEF TypeOK
    <3> QED
      BY <1>13, <2>1, <3>1, StartedRead DEF Ask
  <2>3. ReadsCounted'
    BY <1>12, <1>13, <2>2, Numbers DEF Ask, ReadsCounted
  <2> QED
    BY <1>12, <1>13, <2>2, <2>3 DEF Ask, TypeOK, EventsInOrder, QuestionHasContext, Now
<1>14. CASE AskWithoutDashboard
  <2>1. ReadsCounted'
    BY <1>12, <1>14, Numbers DEF AskWithoutDashboard, ReadsCounted
  <2> QED
    BY <1>12, <1>14, <2>1 DEF AskWithoutDashboard, TypeOK, EventsInOrder, QuestionHasContext, Now
<1>15. ASSUME NEW r \in reads, Resolve(r) PROVE Typed'
  <2> DEFINE merged == Merged(question.context, ContextOf(r))
  <2>a. question.context \in Context
    BY <1>15 DEF Resolve, SendAwaited, QuestionHasContext
  <2>1. merged \in Context
    BY <1>15, <2>a, ContextOfReading DEF Resolve, Merged, MergedMarks, Context, QuestionHasContext
  <2>2. r.marks \in Moment
    BY <1>15 DEF Resolve, IsRead, TypeOK, Reading
  <2>3. question' = [question EXCEPT !.pc = NextPc(merged), !.fresh = r.marks,
                                   !.context = merged]
    BY <1>15 DEF Resolve
  <2>4. TypeOK' /\ QuestionHasContext' /\ question'.asked = question.asked
    BY <1>15, <2>1, <2>2, <2>3 DEF Resolve, NextPc, TypeOK, QuestionHasContext, Now
  <2>5. ReadsCounted' /\ EventsInOrder'
    BY <1>15, <2>4 DEF Resolve, ReadsCounted, EventsInOrder, Now
  <2> QED
    BY <2>4, <2>5
<1>16. CASE ResolveName
  <2>1. question.context \in Context
    BY <1>16 DEF ResolveName, QuestionHasContext
  <2>2. shown' \in Context \cup {None}
    BY <1>16, PatchedContext DEF ResolveName, TypeOK
  <2>3. /\ question' \in [pc : {"idle", "reading", "naming", "sent"}, asked : 0..MaxQuestions,
                         at : Moment, base : Moment, fresh : Moment,
                         context : Context \cup {None}]
        /\ question'.asked = question.asked /\ question'.context \in Context
    <3>1. [question.context EXCEPT !.named = TRUE] \in Context
      BY <2>1 DEF Context
    <3>2. \E c \in Context : question' = [question EXCEPT !.pc = "sent", !.context = c]
      BY <1>16, <2>1, <3>1 DEF ResolveName, TypeOK
    <3> QED
      BY <3>2 DEF TypeOK
  <2> QED
    BY <1>16, <2>2, <2>3 DEF ResolveName, TypeOK, EventsInOrder, ReadsCounted,
       QuestionHasContext, Now
<1>17. CASE AnswerReturns
  <2>1. shown' \in Context \cup {None}
    BY <1>17, PatchedContext DEF AnswerReturns, TypeOK
  <2>2. /\ question' \in [pc : {"idle", "reading", "naming", "sent"}, asked : 0..MaxQuestions,
                         at : Moment, base : Moment, fresh : Moment,
                         context : Context \cup {None}]
        /\ question'.asked = question.asked /\ question'.pc = "idle"
    BY <1>17, Bounds DEF AnswerReturns, Idle, TypeOK, Moment
  <2> QED
    BY <1>17, <2>1, <2>2 DEF AnswerReturns, TypeOK, EventsInOrder, ReadsCounted,
       QuestionHasContext, Now
<1>18. ASSUME NEW r \in reads, ShowFirst(r) \/ Refresh(r) PROVE Typed'
  BY <1>6, <1>18 DEF ShowFirst, Refresh
<1> QED
  BY <1>1, <1>2, <1>3, <1>4, <1>5, <1>7, <1>8, <1>9, <1>10, <1>11, <1>13, <1>14, <1>15,
     <1>16, <1>17, <1>18 DEF Next, PageStep, User

-----------------------------------------------------------------------------
(* What is shown *)

\* Readings are numbered in the order they began.
ReadsNumbered ==
  /\ newest <= page.begun
  /\ \A r \in reads : r.id <= page.begun
  /\ \A r, q \in reads : r.id = q.id => r = q

\* Nothing is heard before the page listens.
SilentAtFirst == page.pc = "starting" => heard.last = 0 /\ heard.due = {}

\* Marks that were read since the last event.
SinceHeard(marks) == marks = 0 \/ heard.last <= marks

\* The refresh of the last event: the youngest that will be shown.
Latest(r) ==
  /\ r.kind = "refresh"
  /\ newest < r.id
  /\ r.marks # None => SinceHeard(r.marks)
  /\ \A q \in reads : q.kind # "send" => q.id <= r.id

\* It is under way, or it was shown and what is left of the readings is older.
Follows ==
  heard.last > 0 =>
    \/ \E r \in reads : Latest(r)
    \/ /\ shown # None /\ shown.id = newest => SinceHeard(shown.marks)
       /\ \A q \in reads : q.kind # "send" => q.id < newest

ShownInv == ReadsNumbered /\ SilentAtFirst /\ Follows

\* A reading that begins is the youngest.
LEMMA NumberedStart ==
  ASSUME TypeOK, ReadsNumbered, NEW kind, NEW pc, StartRead(kind, pc), UNCHANGED newest
  PROVE  ReadsNumbered'
<1>1. page'.begun = page.begun + 1
  BY DEF StartRead
<1>2. reads' = reads \cup {NewRead(page.begun + 1, kind)}
  BY DEF StartRead
<1> QED
  BY <1>1, <1>2, Numbers DEF ReadsNumbered, NewRead

\* The step keeps what is shown in order.
LEMMA ShownStep == TypeInv /\ ShownInv /\ [Next]_vars => ShownInv'
<1> SUFFICES ASSUME TypeInv, ShownInv, [Next]_vars PROVE ShownInv'
  OBVIOUS
<1> USE DEF TypeInv, ShownInv
<1>1. ASSUME UNCHANGED <<page, newest, heard>>,
             reads' = reads \/ \E r \in reads : r.kind = "send" /\ reads' = reads \ {r},
             shown' = shown \/ shown' = Patched
      PROVE  ShownInv'
  <2>1. ReadsNumbered' /\ SilentAtFirst'
    BY <1>1 DEF ReadsNumbered, SilentAtFirst
  <2>2. \A r \in reads' : r \in reads
    BY <1>1
  <2>3. ASSUME NEW r \in reads, Latest(r) PROVE r \in reads' /\ Latest(r)'
    BY <1>1, <2>2, <2>3 DEF Latest, SinceHeard
  <2>4. ASSUME shown # None /\ shown.id = newest => SinceHeard(shown.marks)
        PROVE  (shown # None /\ shown.id = newest => SinceHeard(shown.marks))'
    BY <1>1, <2>4, PatchedContext DEF SinceHeard
  <2> QED
    BY <1>1, <2>1, <2>2, <2>3, <2>4 DEF Follows
<1>2. ASSUME NEW s \in Selection, Pick(s) PROVE ShownInv'
  <2>1. page.pc = "starting" => heard' = heard
    BY <1>2 DEF Pick
  <2>2. heard'.last = heard.last
    BY <1>2 DEF Pick, TypeOK
  <2> QED
    BY <1>2, <2>1, <2>2 DEF Pick, ReadsNumbered, SilentAtFirst, Follows, Latest, SinceHeard
<1>3. ASSUME NEW r \in reads, ReadMarks(r) PROVE ShownInv'
  <2>1. PICK m \in {Now, 0} : reads' = (reads \ {r}) \cup {[r EXCEPT !.marks = m]}
    BY <1>3 DEF ReadMarks
  <2> DEFINE new == [r EXCEPT !.marks = m]
  <2>2. new.id = r.id /\ new.kind = r.kind /\ new.marks = m
    BY DEF TypeOK, Reading
  <2>3. SinceHeard(m)
    BY Numbers DEF SinceHeard, EventsInOrder
  <2>4. ReadsNumbered' /\ SilentAtFirst'
    <3>1. \A q \in reads' : (q \in reads /\ q # r) \/ q = new
      BY <2>1
    <3>2. \A q \in reads' : q.id <= page.begun
      BY <2>2, <3>1 DEF ReadsNumbered
    <3>3. \A p, q \in reads' : p.id = q.id => p = q
      BY <2>2, <3>1 DEF ReadsNumbered
    <3> QED
      BY <1>3, <3>2, <3>3 DEF ReadMarks, ReadsNumbered, SilentAtFirst
  <2>5. ASSUME \A q \in reads : q.kind # "send" => q.id < newest
        PROVE  \A q \in reads' : q.kind # "send" => q.id < newest
    BY <2>1, <2>2, <2>5
  <2>6. ASSUME NEW q \in reads, Latest(q) PROVE \E p \in reads' : Latest(p)'
    <3>1. \A p \in reads' : p.kind # "send" => p.id <= q.id
      BY <2>1, <2>2, <2>6 DEF Latest
    <3>2. CASE q = r
      <4>1. new \in reads' /\ Latest(new)'
        BY <1>3, <2>1, <2>2, <2>3, <2>6, <3>1, <3>2 DEF ReadMarks, Latest, SinceHeard
      <4> QED
        BY <4>1
    <3>3. CASE q # r
      <4>1. q \in reads' /\ Latest(q)'
        BY <1>3, <2>1, <2>6, <3>1, <3>3 DEF ReadMarks, Latest, SinceHeard
      <4> QED
        BY <4>1
    <3> QED
      BY <3>2, <3>3
  <2> QED
    BY <1>3, <2>4, <2>5, <2>6 DEF ReadMarks, Follows, SinceHeard
<1>4. CASE Initialize
  <2>1. ReadsNumbered'
    BY <1>4, NumberedStart DEF Initialize
  <2> QED
    BY <1>4, <2>1 DEF Initialize, StartRead, SilentAtFirst, Follows
<1>5. CASE InitializeFails
  <2>1. page'.pc = "deaf" /\ page'.begun = page.begun
    BY <1>5 DEF InitializeFails, TypeOK
  <2> QED
    BY <1>5, <2>1 DEF InitializeFails, ReadsNumbered, SilentAtFirst, Follows
<1>6. ASSUME NEW r \in reads, r.kind # "send", Show(r),
             page' = page \/ page' = [page EXCEPT !.pc = "attaching"]
      PROVE  ShownInv'
  <2>1. page'.begun = page.begun /\ (page'.pc = "starting" => page.pc = "starting")
    BY <1>6 DEF TypeOK
  <2>2. /\ r.id \in Nat /\ newest \in Nat /\ \A q \in reads : q.id \in Nat
        /\ newest' = IF newest < r.id THEN r.id ELSE newest
    BY <1>6, Numbers DEF Show
  <2>3. ReadsNumbered' /\ SilentAtFirst'
    BY <1>6, <2>1, <2>2 DEF Show, ReadsNumbered, SilentAtFirst
  <2>4. shown'.id = r.id /\ shown'.marks = r.marks /\ r.marks # None
    BY <1>6, ContextOfReading DEF Show, IsRead
  <2>5. ASSUME NEW q \in reads, Latest(q), q # r PROVE q \in reads' /\ Latest(q)'
    <3>1. r.id < q.id
      BY <1>6, <2>2, <2>5 DEF Latest, ReadsNumbered
    <3> QED
      BY <1>6, <2>2, <2>5, <3>1 DEF Show, Latest, SinceHeard
  <2>6. ASSUME Latest(r)
        PROVE  /\ SinceHeard(shown'.marks)
               /\ \A q \in reads' : q.kind # "send" => q.id < newest'
    BY <1>6, <2>2, <2>4, <2>6 DEF Show, Latest, ReadsNumbered
  <2>7. ASSUME \A q \in reads : q.kind # "send" => q.id < newest
        PROVE  /\ shown'.id # newest'
               /\ \A q \in reads' : q.kind # "send" => q.id < newest'
    BY <1>6, <2>2, <2>4, <2>7 DEF Show
  <2>8. UNCHANGED heard
    BY <1>6 DEF Show
  <2> QED
    BY <2>3, <2>5, <2>6, <2>7, <2>8 DEF Follows, SinceHeard
<1>7. CASE Attach
  <2>1. page'.pc # "starting" /\ page'.begun = page.begun
    BY <1>7 DEF Attach, TypeOK
  <2> QED
    BY <1>7, <2>1 DEF Attach, ReadsNumbered, SilentAtFirst, Follows, Latest, SinceHeard
<1>8. ASSUME NEW i \in heard.due, Hear(i) PROVE ShownInv'
  <2>1. PICK new : /\ new = NewRead(page.begun + 1, "refresh")
                   /\ page'.pc = page.pc /\ reads' = reads \cup {new}
    BY <1>8 DEF Hear, StartRead
  <2>2. ReadsNumbered'
    BY <1>8, NumberedStart DEF Hear
  <2>3. page.pc # "starting"
    BY DEF SilentAtFirst
  <2>4. new \in reads' /\ Latest(new)'
    BY <1>8, <2>1, Numbers DEF Hear, Latest, NewRead, ReadsNumbered
  <2> QED
    BY <2>1, <2>2, <2>3, <2>4 DEF SilentAtFirst, Follows
<1>9. CASE Ask
  <2> DEFINE new == NewRead(page.begun + 1, "send")
  <2>1. /\ UNCHANGED <<shown, newest, heard>>
        /\ page'.pc = page.pc /\ reads' = reads \cup {new} /\ new.kind = "send"
    BY <1>9 DEF Ask, StartRead, NewRead
  <2>2. ReadsNumbered'
    BY <1>9, NumberedStart DEF Ask
  <2>3. ASSUME NEW r \in reads, Latest(r) PROVE r \in reads' /\ Latest(r)'
    BY <2>1, <2>3 DEF Latest, SinceHeard
  <2> QED
    BY <2>1, <2>2, <2>3 DEF SilentAtFirst, Follows, SinceHeard
<1>10. ASSUME NEW r \in reads, ShowFirst(r) \/ Refresh(r) PROVE ShownInv'
  BY <1>6, <1>10 DEF ShowFirst, Refresh
<1>11. ASSUME \/ UNCHANGED vars \/ LookUp \/ SignIn \/ AskWithoutDashboard
              \/ \E r \in reads : Resolve(r)
              \/ \E id \in naming.under : LookUpReturns(id) \/ LookUpFails(id)
              \/ ResolveName \/ AnswerReturns
       PROVE  ShownInv'
  <2>1. UNCHANGED <<page, newest, heard>> /\ (shown' = shown \/ shown' = Patched)
    BY <1>11 DEF vars, LookUp, SignIn, AskWithoutDashboard, Resolve, LookUpReturns,
       LookUpFails, ResolveName, AnswerReturns
  <2>2. reads' = reads \/ \E r \in reads : r.kind = "send" /\ reads' = reads \ {r}
    BY <1>11 DEF vars, LookUp, SignIn, AskWithoutDashboard, Resolve, LookUpReturns,
       LookUpFails, ResolveName, AnswerReturns
  <2> QED
    BY <1>1, <2>1, <2>2
<1> QED
  BY <1>2, <1>3, <1>4, <1>5, <1>7, <1>8, <1>9, <1>10, <1>11 DEF Next, PageStep, User

-----------------------------------------------------------------------------
(* What a question takes along *)

\* A question that waits for its reading keeps what was shown when it was asked.
AskedFrom ==
  question.pc = "reading" =>
    /\ question.base = question.context.marks
    /\ question.at <= Now

\* Its reading has marks no older than the question, and none has any to come.
ReadForQuestion ==
  \A r \in reads : r.marks # None =>
    /\ r.marks <= Now
    /\ r.kind = "send" => r.marks = 0 \/ question.at <= r.marks

QuestionInv ==
  /\ AskedFrom
  /\ ReadForQuestion
  /\ question.fresh <= Now
  /\ QuestionMeetsSelection

\* The step keeps the question's marks as they should be.
LEMMA QuestionStep == TypeInv /\ QuestionInv /\ [Next]_vars => QuestionInv'
<1> SUFFICES ASSUME TypeInv, QuestionInv, [Next]_vars PROVE QuestionInv'
  OBVIOUS
<1> USE DEF TypeInv, QuestionInv
<1>1. ASSUME UNCHANGED <<picked, question>>, reads' \subseteq reads PROVE QuestionInv'
  BY <1>1 DEF AskedFrom, ReadForQuestion, QuestionMeetsSelection, Meaningful, Now
<1>2. ASSUME NEW kind, kind # "send", NEW pc, StartRead(kind, pc),
             UNCHANGED <<picked, question>>
      PROVE  QuestionInv'
  <2>1. reads' = reads \cup {NewRead(page.begun + 1, kind)}
    BY <1>2 DEF StartRead
  <2> QED
    BY <1>2, <2>1 DEF NewRead, AskedFrom, ReadForQuestion, QuestionMeetsSelection,
       Meaningful, Now
<1>3. ASSUME NEW s \in Selection, Pick(s) PROVE QuestionInv'
  <2>1. /\ picked \in Seq(Selection) /\ picked' = Append(picked, s)
        /\ UNCHANGED <<reads, question>>
    BY <1>3 DEF Pick, TypeOK
  <2>2. Now' = Now + 1 /\ Now \in Nat
    BY <2>1 DEF Now
  <2>3. Meaningful(question.fresh)' <=> Meaningful(question.fresh)
    BY <2>1, Numbers DEF Meaningful, Now
  <2>4. AskedFrom' /\ question'.fresh <= Now'
    BY <2>1, <2>2, Numbers DEF AskedFrom
  <2>5. ReadForQuestion'
    BY <2>1, <2>2, Numbers DEF ReadForQuestion
  <2>6. QuestionMeetsSelection'
    BY <2>1, <2>3 DEF QuestionMeetsSelection
  <2> QED
    BY <2>4, <2>5, <2>6
<1>4. ASSUME NEW r \in reads, ReadMarks(r) PROVE QuestionInv'
  <2>1. PICK m \in {Now, 0} : reads' = (reads \ {r}) \cup {[r EXCEPT !.marks = m]}
    BY <1>4 DEF ReadMarks
  <2>2. [r EXCEPT !.marks = m].kind = r.kind /\ [r EXCEPT !.marks = m].marks = m
    BY DEF TypeOK, Reading
  <2>3. m <= Now /\ (r.kind = "send" => m = 0 \/ question.at <= m)
    BY Numbers DEF SendAwaited, AskedFrom
  <2>4. ReadForQuestion'
    BY <1>4, <2>1, <2>2, <2>3 DEF ReadMarks, ReadForQuestion, Now
  <2> QED
    BY <1>4, <2>4 DEF ReadMarks, AskedFrom, QuestionMeetsSelection, Meaningful, Now
<1>5. ASSUME NEW pc \in {"reading", "sent"}, Asks(pc), UNCHANGED picked
      PROVE  /\ AskedFrom' /\ question'.fresh <= Now'
             /\ pc = "sent" /\ shown = Mock => QuestionMeetsSelection'
             /\ pc = "reading" => QuestionMeetsSelection'
             /\ question'.at = Now
  BY <1>5, Numbers DEF Asks, AskedFrom, QuestionMeetsSelection, Now
<1>6. CASE Ask
  <2>1. reads' = reads \cup {NewRead(page.begun + 1, "send")}
    BY <1>6 DEF Ask, StartRead
  <2>2. \A r \in reads : r.kind # "send"
    BY <1>6 DEF Ask, Asks, SendAwaited
  <2>3. ReadForQuestion'
    BY <1>6, <2>1, <2>2 DEF Ask, ReadForQuestion, NewRead, Now
  <2> QED
    BY <1>5, <1>6, <2>3 DEF Ask
<1>7. CASE AskWithoutDashboard
  <2>1. \A r \in reads : r.kind # "send"
    BY <1>7 DEF AskWithoutDashboard, Asks, SendAwaited
  <2>2. ReadForQuestion'
    BY <1>7, <2>1 DEF AskWithoutDashboard, ReadForQuestion, Now
  <2> QED
    BY <1>5, <1>7, <2>2 DEF AskWithoutDashboard
<1>8. ASSUME NEW r \in reads, Resolve(r) PROVE QuestionInv'
  <2> DEFINE base == question.context.marks
             merged == MergedMarks(base, r.marks)
  <2>1. /\ question.pc = "reading" /\ question.base = base /\ r.kind = "send"
        /\ r.marks # None /\ r.marks \in Nat /\ r.marks <= Now
        /\ r.marks = 0 \/ question.at <= r.marks
    BY <1>8, Numbers DEF Resolve, IsRead, SendAwaited, AskedFrom, ReadForQuestion
  <2>2. base \in Nat
    BY <2>1, Bounds DEF QuestionHasContext, Context, Moment
  <2>3. ContextOf(r) \in Context /\ ContextOf(r).marks = r.marks
    BY <1>8, ContextOfReading DEF Resolve
  <2>4. /\ question'.context.marks = merged /\ question'.fresh = r.marks
        /\ question'.at = question.at /\ question'.base = base
        /\ question'.pc \in {"sent", "naming"}
    BY <1>8, <2>1, <2>3 DEF Resolve, Merged, NextPc, TypeOK, Context
  <2>5. /\ \A q \in reads' : q \in reads /\ q.kind # "send"
        /\ picked' = picked
    BY <1>8 DEF Resolve, SendAwaited
  <2>6. ReadForQuestion' /\ AskedFrom' /\ question'.fresh <= Now'
    BY <2>1, <2>4, <2>5 DEF ReadForQuestion, AskedFrom, Now
  <2>7. CASE merged = r.marks
    BY <2>1, <2>4, <2>6, <2>7 DEF QuestionMeetsSelection
  <2>8. CASE merged # r.marks
    <3>1. merged = base /\ ~Meaningful(r.marks)
      BY <2>8 DEF MergedMarks
    <3>2. Meaningful(r.marks)' <=> Meaningful(r.marks)
      BY <2>5 DEF Meaningful
    <3>3. base >= question.at \/ base < question.at
      BY <2>2, Numbers
    <3> QED
      BY <2>4, <2>5, <2>6, <3>1, <3>3 DEF QuestionMeetsSelection, Meaningful
  <2> QED
    BY <2>7, <2>8
<1>9. CASE ResolveName
  <2>1. question.context \in Context /\ question.pc = "naming"
    BY <1>9 DEF ResolveName, QuestionHasContext
  <2>2. /\ UNCHANGED <<picked, reads>>
        /\ question'.pc = "sent" /\ question'.at = question.at
        /\ question'.base = question.base /\ question'.fresh = question.fresh
        /\ question'.context.marks = question.context.marks
        /\ question.context = Mock => question'.context = Mock
    <3> DEFINE named == [question.context EXCEPT !.named = TRUE]
    <3>1. named.marks = question.context.marks
      BY <2>1 DEF Context
    <3>2. question.context = Mock => named = Mock
      <4>1. \A c \in Context : c.named => [c EXCEPT !.named = TRUE] = c
        BY DEF Context
      <4>2. Mock.named
        BY DEF Mock
      <4> QED
        BY <2>1, <4>1, <4>2
    <3>3. \/ question' = [question EXCEPT !.pc = "sent", !.context = named]
          \/ question' = [question EXCEPT !.pc = "sent"]
      BY <1>9 DEF ResolveName
    <3>4. UNCHANGED <<picked, reads>>
      BY <1>9 DEF ResolveName
    <3> HIDE DEF named
    <3> QED
      BY <3>1, <3>2, <3>3, <3>4 DEF TypeOK
  <2>3. AskedFrom' /\ question'.fresh <= Now'
    BY <2>2 DEF AskedFrom, Now
  <2>4. ReadForQuestion'
    BY <2>1, <2>2 DEF ReadForQuestion, SendAwaited, Now
  <2>5. QuestionMeetsSelection'
    BY <2>1, <2>2 DEF QuestionMeetsSelection, Meaningful
  <2> QED
    BY <2>3, <2>4, <2>5
<1>10. CASE AnswerReturns
  <2>1. /\ question'.pc = "idle" /\ question'.fresh = 0
        /\ UNCHANGED <<picked, reads>>
    BY <1>10 DEF AnswerReturns, Idle
  <2>2. \A r \in reads : r.kind # "send"
    BY <1>10 DEF AnswerReturns, SendAwaited
  <2> QED
    BY <2>1, <2>2, Numbers DEF AskedFrom, ReadForQuestion, QuestionMeetsSelection, Now
<1>11. ASSUME Initialize \/ \E i \in heard.due : Hear(i) PROVE QuestionInv'
  BY <1>2, <1>11 DEF Initialize, Hear
<1>12. ASSUME \/ UNCHANGED vars \/ InitializeFails \/ Attach \/ LookUp \/ SignIn
              \/ \E r \in reads : ShowFirst(r) \/ Refresh(r)
              \/ \E id \in naming.under : LookUpReturns(id) \/ LookUpFails(id)
       PROVE  QuestionInv'
  BY <1>1, <1>12 DEF vars, InitializeFails, Attach, LookUp, SignIn, ShowFirst, Refresh, Show,
     LookUpReturns, LookUpFails
<1> QED
  BY <1>3, <1>4, <1>6, <1>7, <1>8, <1>9, <1>10, <1>11, <1>12 DEF Next, PageStep, User

-----------------------------------------------------------------------------
(* Theorems *)

\* In every behaviour the variables have their types, the readings of one run
\* are no more than the selections and questions account for, and no question
\* waits for two readings.
THEOREM TypeCorrect == Spec => []TypeInv
<1>1. TypeInv /\ [Next]_vars => TypeInv'
  BY TypeStep
<1> QED
  BY <1>1, TypeInitially, PTL DEF Spec

\* Between changes the page shows a selection no older than the last one it
\* was told of (App.tsx: refreshDashboardContext).
THEOREM ShownFollows == Spec => []ShownFollowsSelection
<1>1. Init => ShownInv
  BY DEF Init, ShownInv, ReadsNumbered, SilentAtFirst, Follows
<1>2. TypeInv /\ ShownInv /\ [Next]_vars => ShownInv'
  BY ShownStep
<1>3. TypeInv /\ ShownInv => ShownFollowsSelection
  <2> SUFFICES ASSUME TypeInv, ShownInv, Quiet, shown # None, shown.id = newest
               PROVE  shown.marks = 0 \/ shown.marks >= heard.last
    BY DEF ShownFollowsSelection
  <2>1. shown.marks \in Nat /\ heard.last \in Nat
    BY Numbers, Bounds DEF TypeInv, TypeOK, Context, Moment
  <2>2. CASE heard.last = 0
    BY <2>1, <2>2
  <2>3. CASE heard.last > 0
    BY <2>1, <2>3 DEF ShownInv, Follows, Latest, Quiet, SinceHeard
  <2> QED
    BY <2>1, <2>2, <2>3
<1> QED
  BY <1>1, <1>2, <1>3, TypeCorrect, PTL DEF Spec

\* A question never goes out with marks older than itself, but if what was on
\* the page was behind and Tableau reported no selection any more
\* (ChatPanel.tsx: resolveDashboardContextForSend).
THEOREM QuestionMeets == Spec => []QuestionMeetsSelection
<1>1. Init => QuestionInv
  <2> SUFFICES ASSUME Init PROVE QuestionInv
    OBVIOUS
  <2>1. Now = 1
    BY DEF Init, Now
  <2> QED
    BY <2>1 DEF Init, Idle, QuestionInv, AskedFrom, ReadForQuestion, QuestionMeetsSelection
<1>2. TypeInv /\ QuestionInv /\ [Next]_vars => QuestionInv'
  BY QuestionStep
<1>3. QuestionInv => QuestionMeetsSelection
  BY DEF QuestionInv
<1> QED
  BY <1>1, <1>2, <1>3, TypeCorrect, PTL DEF Spec
=============================================================================
