-------------------------- MODULE WidgetCheck_proofs --------------------------
(***************************************************************************)
(* A verdict on a widget is right in both directions, for any totals,      *)
(* defects and tolerance, any number of checks, of requests of the page    *)
(* and of changes of the database.                                         *)
(***************************************************************************)
EXTENDS WidgetCheck, TLAPS

Answers == [kind : {"number"}, n : Int] \cup {NoRow}
Request == [kind : Kinds, filter : Filters, stage : Stages, answer : Answers, stale : BOOLEAN]

-----------------------------------------------------------------------------
(* What the comparison of two payloads of a widget comes to *)

\* A number is neither a missing value nor a text.
LEMMA NumbersAreNumbers ==
  ASSUME NEW n \in Int
  PROVE  /\ Number(n) # Null /\ Number(n).kind = "number" /\ Number(n).n = n
         /\ Normalize(Number(n)) = Number(n)
  BY DEF Number, Null, Normalize

\* With the widget's tolerance they agree when the totals are within it.
LEMMA TolerantComparison ==
  ASSUME NEW n \in Int, NEW m \in Int
  PROVE  LET left == Payload(Number(n)) right == Payload(Number(m))
         IN  Matched(left, right, Fields(left, right), {Tolerance})
                 <=> WithinTolerance(n, m, Tolerance)
<1> DEFINE left == Payload(Number(n))
           right == Payload(Number(m))
<1>1. /\ DOMAIN left = {"dimension", "total"} /\ DOMAIN right = {"dimension", "total"}
      /\ left["total"] = Number(n) /\ right["total"] = Number(m)
      /\ left["dimension"] = Text("US", 0) /\ right["dimension"] = Text("US", 0)
  BY DEF Payload
<1>2. FieldMatches(left["dimension"], right["dimension"], {Tolerance})
  <2>1. Text("US", 0).kind = "text" /\ Text("US", 0) # Null
    BY DEF Text, Null
  <2> QED
    BY <1>1, <2>1 DEF FieldMatches
<1>3. FieldMatches(left["total"], right["total"], {Tolerance}) <=> WithinTolerance(n, m, Tolerance)
  BY <1>1, NumbersAreNumbers DEF FieldMatches
<1> QED
  BY <1>1, <1>2, <1>3 DEF Matched, Diffs, Fields, CommonFields, FieldOf

\* Equal totals are within every tolerance that has a margin.
LEMMA EqualIsWithin ==
  ASSUME NEW n \in Int PROVE WithinTolerance(n, n, Tolerance)
<1>1. Distance(n, n) = 0 /\ Distance(n, 0) >= 0 /\ Distance(n, 0) \in Int
  BY DEF Distance
<1>2. ASSUME NEW p \in Tolerance.percentage
      PROVE  100 * Distance(n, n) <= p * Distance(n, 0)
  <2>1. p \in Nat
    BY NumbersAssumption
  <2>2. p * Distance(n, 0) >= 0
    BY <1>1, <2>1
  <2> QED
    BY <1>1, <2>2
<1>3. ASSUME NEW m \in Tolerance.absolute PROVE Distance(n, n) <= m
  BY <1>1, NumbersAssumption
<1> QED
  BY <1>2, <1>3, ToleranceAssumption DEF WithinTolerance

\* What the margins leave of a defect when they are applied to the total.
DefectWithin(total) ==
    \/ \E p \in Tolerance.percentage : 100 * Distance(defect, 0) <= p * Distance(total, 0)
    \/ \E m \in Tolerance.absolute : Distance(defect, 0) <= m

LEMMA DefectFromDistance ==
  ASSUME NEW n \in Int, defect \in Int, WithinTolerance(n, n + defect, Tolerance)
  PROVE  DefectWithin(n)
<1>1. Distance(n + defect, n) = Distance(defect, 0)
  BY DEF Distance
<1> QED
  BY <1>1 DEF WithinTolerance, DefectWithin

-----------------------------------------------------------------------------
(* The invariant *)

\* What a request of this kind and filter is answered while db is as it is.
TotalOf(r) == db[page[r].filter] + defect + IF page[r].kind = "forecast" THEN 1000 ELSE 0

\* What the server said is still true unless the database has changed.
TrueAnswer(r) ==
    page[r].answer # NoRow /\ ~page[r].stale => page[r].answer = Number(TotalOf(r))

\* An event is dispatched once.
QueueInv ==
    /\ \A i \in 1 .. Len(events) : page[events[i]].stage = "queued"
    /\ \A i, k \in 1 .. Len(events) : i # k => events[i] # events[k]

\* An exchange that is captured changes no more and is of this check, or came in it.
Listed == {captured[i] : i \in 1 .. Len(captured)}
CapturedInv == \A r \in Listed : page[r].stage = "over" /\ r \notin settled
SettledInv == \A r \in settled : page[r].stage \in {"over", "missed"}

\* What is compared is an answer to the widget that was captured in this check.
PickedInv ==
    at \in {"api", "database", "mismatch", "passed"} =>
        /\ picked \in Requests \ settled
        /\ page[picked].stage = "over" /\ page[picked].kind = "widget"
        /\ page[picked].answer # NoRow

\* The test's own request is the widget's, and in the list once it is over.
OwnInv ==
    at \in {"wait", "leave", "match"} =>
        page[round].kind = "widget" /\ (page[round].stage = "over" => round \in Listed)

WInv ==
    /\ TypeOK
    /\ \A r \in Requests : TrueAnswer(r)
    /\ QueueInv /\ CapturedInv /\ SettledInv /\ PickedInv /\ OwnInv
    /\ DefectIsFound /\ NoFalseAlarm /\ ReadIsFound

-----------------------------------------------------------------------------
(* Type correctness *)

LEMMA Bounds ==
  /\ MaxRounds \in Nat \ {0} /\ MaxOwn \in Nat /\ MaxDrift \in Nat /\ MaxAttempts \in Nat \ {0}
  /\ Rounds \subseteq Requests /\ Rounds = 1 .. MaxRounds /\ 1 \in Rounds
  /\ Rounds \subseteq Filters /\ Filters = 0 .. MaxRounds
  /\ Totals \subseteq Int /\ Defects \subseteq Int /\ Databases \subseteq [Filters -> Totals]
  BY BoundsAssumption, NumbersAssumption DEF Rounds, Requests, Filters

LEMMA UnsentType == Unsent \in Request /\ NoRow \in Answers
  BY Bounds DEF Unsent, Request, Answers, Kinds, Stages

\* TypeOK speaks of Request and Answers.
LEMMA PageType == TypeOK => page \in [Requests -> Request]
  BY DEF TypeOK, Request, Answers

LEMMA InitInv == Init => WInv
<1> SUFFICES ASSUME Init PROVE WInv
  OBVIOUS
<1>1. page \in [Requests -> Request]
  BY UnsentType DEF Init
<1>2. TypeOK
  <2>1. events \in Seq(Requests) /\ captured \in Seq(Requests) /\ db \in [Filters -> Totals]
    BY Bounds DEF Init
  <2>2. round \in Rounds /\ attempts \in 0 .. MaxAttempts /\ attached \in BOOLEAN
    <3>1. 0 \in 0 .. MaxAttempts
      BY Bounds
    <3> QED
      BY <3>1, Bounds DEF Init
  <2> QED
    BY <1>1, <2>1, <2>2 DEF Init, TypeOK, Request, Answers
<1>3. ASSUME NEW r \in Requests PROVE TrueAnswer(r)
  BY DEF Init, TrueAnswer, Unsent
<1>4. Listed = {}
  BY DEF Init, Listed
<1> QED
  BY <1>2, <1>3, <1>4 DEF Init, WInv, QueueInv, CapturedInv, SettledInv, PickedInv, OwnInv,
     DefectIsFound, NoFalseAlarm, ReadIsFound

-----------------------------------------------------------------------------
(* Steps of the dashboard, its server and the database *)

LEMMA DriftInv ==
  ASSUME WInv, ~Over, Drift PROVE WInv'
<1> USE DEF WInv
<1>1. PICK f \in Filters, n \in Totals :
          /\ n # db[f] /\ db' = [db EXCEPT ![f] = n]
          /\ page' = [r \in Requests |->
                [page[r] EXCEPT !.stale = @ \/ (page[r].filter = f /\ page[r].answer # NoRow)]]
  BY DEF Drift
<1>2. /\ page \in [Requests -> Request] /\ db \in [Filters -> Totals]
      /\ UNCHANGED <<defect, mode, events, attached, captured, round, at, picked, attempts, settled>>
  BY PageType DEF Drift, TypeOK
<1>3. ASSUME NEW r \in Requests
      PROVE  /\ page'[r] \in Request /\ page'[r].kind = page[r].kind
             /\ page'[r].filter = page[r].filter /\ page'[r].stage = page[r].stage
             /\ page'[r].answer = page[r].answer
             /\ page'[r].stale = (page[r].stale \/ (page[r].filter = f /\ page[r].answer # NoRow))
  <2>1. page[r] \in Request
    BY <1>2
  <2>2. page'[r] = [page[r] EXCEPT !.stale =
                      page[r].stale \/ (page[r].filter = f /\ page[r].answer # NoRow)]
    BY <1>1
  <2> QED
    BY <2>1, <2>2 DEF Request
<1>4. TypeOK'
  <2>1. page' \in [Requests -> Request]
    BY <1>1, <1>3
  <2>2. db' \in [Filters -> Totals]
    BY <1>1, <1>2
  <2> QED
    BY <1>2, <2>1, <2>2 DEF TypeOK, Request, Answers
<1>5. ASSUME NEW r \in Requests PROVE TrueAnswer(r)'
  <2>1. TrueAnswer(r) /\ page[r].filter \in Filters
    BY <1>2 DEF Request
  <2>2. page[r].filter # f => db'[page[r].filter] = db[page[r].filter]
    BY <2>1, <1>1, <1>2
  <2>3. page[r].filter # f => TotalOf(r)' = TotalOf(r)
    BY <2>2, <1>2, <1>3 DEF TotalOf
  <2> QED
    BY <2>1, <2>3, <1>3 DEF TrueAnswer
<1>6. QueueInv' /\ CapturedInv' /\ SettledInv'
  <2>1. /\ \A i \in 1 .. Len(events) : events[i] \in Requests
        /\ \A i \in 1 .. Len(captured) : captured[i] \in Requests
        /\ settled \subseteq Requests
    BY DEF TypeOK
  <2> QED
    BY <2>1, <1>2, <1>3 DEF QueueInv, CapturedInv, SettledInv, Listed
<1>7. PickedInv' /\ OwnInv'
  <2>1. round \in Requests
    BY Bounds DEF TypeOK
  <2> QED
    BY <2>1, <1>2, <1>3 DEF PickedInv, OwnInv, Listed
<1>8. DefectIsFound'
  <2> SUFFICES ASSUME at = "passed", mode \in {"ui_database", "ui_api_database"},
                      ~Undecided(picked)'
               PROVE  DefectWithin(db'[round])
    BY <1>2 DEF DefectIsFound, DefectWithin
  <2>1. /\ picked \in Requests /\ picked \notin settled /\ page[picked].answer # NoRow
    BY DEF PickedInv
  <2>2. page'[picked].filter = round /\ ~page'[picked].stale
    BY <1>2, <2>1 DEF Undecided
  <2>3. ~page[picked].stale /\ page[picked].filter = round /\ round # f
    BY <1>3, <2>1, <2>2
  <2>4. db'[round] = db[round]
    BY <1>1, <1>2, <2>3, Bounds DEF TypeOK
  <2>5. DefectWithin(db[round])
    BY <2>3 DEF DefectIsFound, Undecided, DefectWithin
  <2> QED
    BY <2>4, <2>5
<1>9. NoFalseAlarm' /\ ReadIsFound'
  BY <1>2 DEF Over, Final, NoFalseAlarm, ReadIsFound
<1> QED
  BY <1>4, <1>5, <1>6, <1>7, <1>8, <1>9

\* The request r moves on; the others, and what is decided, stay.
Moves(r) ==
    /\ page' \in [Requests -> Request] /\ events' \in Seq(Requests) /\ captured' \in Seq(Requests)
    /\ \A q \in Requests \ {r} : page'[q] = page[q]
    /\ Listed \subseteq Listed' /\ Listed' \subseteq Listed \cup {r}
    /\ page'[r].stage = "over" <=> r \in Listed'
    /\ r = round => page'[r].kind = page[r].kind
    /\ UNCHANGED <<world, attached, round, at, picked, attempts, settled>>

\* A request that is not over yet is neither picked nor captured nor settled.
LEMMA MovesInv ==
  ASSUME WInv, ~Over, NEW r \in Requests, Moves(r), page[r].stage \notin {"over", "missed"},
         TrueAnswer(r)', QueueInv'
  PROVE  WInv'
<1> USE DEF WInv, Moves, world
<1>1. TypeOK'
  BY DEF TypeOK, Request, Answers
<1>2. ASSUME NEW q \in Requests, q # r PROVE TrueAnswer(q)'
  <2>1. TrueAnswer(q) /\ page'[q] = page[q]
    BY <1>2
  <2> QED
    BY <2>1 DEF TrueAnswer, TotalOf
<1>3. r \notin settled /\ settled \subseteq Requests
  BY DEF SettledInv, TypeOK
<1>4. CapturedInv'
  <2>1. ASSUME NEW q \in Listed' PROVE page'[q].stage = "over" /\ q \notin settled'
    <3>1. CASE q = r
      BY <3>1, <2>1, <1>3
    <3>2. CASE q # r
      <4>1. q \in Listed
        BY <3>2, <2>1
      <4>2. \A i \in 1 .. Len(captured) : captured[i] \in Requests
        BY DEF TypeOK
      <4>3. q \in Requests
        BY <4>1, <4>2 DEF Listed
      <4> QED
        BY <4>1, <4>3, <3>2 DEF CapturedInv
    <3> QED
      BY <3>1, <3>2
  <2> QED
    BY <2>1 DEF CapturedInv
<1>5. SettledInv'
  BY <1>3 DEF SettledInv
<1>6. PickedInv'
  BY DEF PickedInv
<1>7. OwnInv'
  <2>1. round \in Requests
    BY Bounds DEF TypeOK
  <2> QED
    BY <2>1 DEF OwnInv
<1>8. DefectIsFound'
  BY DEF DefectIsFound, Undecided, PickedInv
<1>9. NoFalseAlarm' /\ ReadIsFound'
  BY DEF Over, Final, NoFalseAlarm, ReadIsFound
<1> QED
  BY <1>1, <1>2, <1>4, <1>5, <1>6, <1>7, <1>8, <1>9

\* A request whose event is not out is not in the queue of events.
LEMMA NotQueued ==
  ASSUME WInv, NEW r \in Requests, page[r].stage # "queued", \A q \in Requests \ {r} : page'[q] = page[q],
         events' = events
  PROVE  QueueInv'
<1>1. \A i \in 1 .. Len(events) : events[i] \in Requests
  BY DEF WInv, TypeOK
<1> QED
  BY <1>1 DEF WInv, QueueInv

\* A request that is not over is not in the list.
LEMMA NotListed ==
  ASSUME WInv, NEW r \in Requests, page[r].stage # "over" PROVE r \notin Listed
  BY DEF WInv, CapturedInv

\* A request is sent under the filter that it is sent under.
LEMMA SendInv ==
  ASSUME WInv, NEW r \in Requests, NEW kind \in Kinds, NEW filter \in Filters, Send(r, kind, filter)
  PROVE  /\ page' \in [Requests -> Request] /\ page[r].stage = "unsent"
         /\ page'[r].kind = kind /\ page'[r].stage = "sent" /\ page'[r].answer = NoRow
         /\ \A q \in Requests \ {r} : page'[q] = page[q]
<1> USE DEF WInv
<1>1. page \in [Requests -> Request]
  BY PageType
<1>2. [Unsent EXCEPT !.kind = kind, !.filter = filter, !.stage = "sent"] \in Request
  BY UnsentType DEF Request, Stages, Unsent
<1> QED
  BY <1>1, <1>2 DEF Send, Unsent

LEMMA PageSendsInv ==
  ASSUME WInv, ~Over, NEW r \in Requests, NEW kind \in Kinds, PageSends(r, kind)
  PROVE  WInv'
<1>1. /\ r > MaxRounds /\ Send(r, kind, Shown)
      /\ UNCHANGED <<world, events, attached, captured, round, at, picked, attempts, settled>>
  BY DEF PageSends
<1>2. round \in 1 .. MaxRounds /\ Shown \in Filters
  BY Bounds DEF WInv, TypeOK, Shown
<1>3. /\ page' \in [Requests -> Request] /\ page[r].stage = "unsent"
      /\ page'[r].stage = "sent" /\ page'[r].answer = NoRow
      /\ \A q \in Requests \ {r} : page'[q] = page[q]
  BY <1>1, <1>2, SendInv
<1>4. r # round
  BY <1>1, <1>2, Bounds
<1>5. Listed' = Listed /\ r \notin Listed
  BY <1>1, <1>3, NotListed DEF Listed
<1>6. Moves(r)
  BY <1>1, <1>3, <1>4, <1>5 DEF Moves, WInv, TypeOK
<1>7. QueueInv' /\ TrueAnswer(r)'
  BY <1>1, <1>3, NotQueued DEF TrueAnswer
<1> QED
  BY <1>3, <1>6, <1>7, MovesInv

LEMMA AnswerInv ==
  ASSUME WInv, ~Over, NEW r \in Requests, Answer(r) PROVE WInv'
<1> DEFINE total == db[page[r].filter] + defect + IF page[r].kind = "forecast" THEN 1000 ELSE 0
<1>1. /\ page[r].stage = "sent"
      /\ UNCHANGED <<world, events, attached, captured, round, at, picked, attempts, settled>>
  BY DEF Answer
<1>2. PICK answer \in {NoRow, Number(total)} :
          page' = [page EXCEPT ![r].stage = "answered", ![r].answer = answer]
  BY DEF Answer
<1>3. page \in [Requests -> Request] /\ page[r] \in Request
  BY PageType DEF WInv
<1>4. answer \in Answers
  <2>1. page[r].filter \in Filters
    BY <1>3 DEF Request
  <2>2. db[page[r].filter] \in Int /\ defect \in Int
    BY <2>1, Bounds DEF WInv, TypeOK
  <2>3. total \in Int
    BY <2>2
  <2>4. Number(total) \in Answers
    BY <2>3 DEF Number, Answers
  <2> QED
    BY <2>4, UnsentType
<1>5. [page[r] EXCEPT !.stage = "answered", !.answer = answer] \in Request
  BY <1>3, <1>4 DEF Request, Stages
<1>6. /\ page' \in [Requests -> Request]
      /\ page'[r].kind = page[r].kind /\ page'[r].filter = page[r].filter
      /\ page'[r].stage = "answered" /\ page'[r].answer = answer
      /\ \A q \in Requests \ {r} : page'[q] = page[q]
  <2>1. page' = [page EXCEPT ![r] = [page[r] EXCEPT !.stage = "answered", !.answer = answer]]
    BY <1>2, <1>3
  <2> QED
    BY <2>1, <1>3, <1>5 DEF Request
<1>7. Listed' = Listed /\ r \notin Listed
  BY <1>1, NotListed DEF Listed
<1>8. Moves(r)
  BY <1>1, <1>6, <1>7 DEF Moves, WInv, TypeOK
<1>9. TrueAnswer(r)'
  <2>1. TotalOf(r)' = TotalOf(r)
    BY <1>1, <1>6 DEF TotalOf, world
  <2> QED
    BY <2>1, <1>2, <1>6 DEF TrueAnswer, TotalOf
<1>10. QueueInv'
  BY <1>1, <1>6, NotQueued
<1> QED
  BY <1>1, <1>8, <1>9, <1>10, MovesInv

LEMMA ArriveInv ==
  ASSUME WInv, ~Over, NEW r \in Requests, Arrive(r) PROVE WInv'
<1> DEFINE next == IF attached THEN "queued" ELSE "missed"
<1>1. /\ page[r].stage = "answered"
      /\ page' = [page EXCEPT ![r].stage = next]
      /\ events' = IF attached THEN Append(events, r) ELSE events
      /\ UNCHANGED <<world, attached, captured, round, at, picked, attempts, settled>>
  BY DEF Arrive
<1>2. /\ page \in [Requests -> Request] /\ page[r] \in Request /\ events \in Seq(Requests)
      /\ next \in {"queued", "missed"}
  BY PageType DEF WInv, TypeOK
<1>3. /\ page' \in [Requests -> Request]
      /\ page'[r].kind = page[r].kind /\ page'[r].filter = page[r].filter
      /\ page'[r].stage = next /\ page'[r].answer = page[r].answer /\ page'[r].stale = page[r].stale
      /\ \A q \in Requests \ {r} : page'[q] = page[q]
  <2>1. [page[r] EXCEPT !.stage = next] \in Request
    BY <1>2 DEF Request, Stages
  <2> QED
    BY <2>1, <1>1, <1>2 DEF Request
<1>4. Listed' = Listed /\ r \notin Listed
  BY <1>1, NotListed DEF Listed
<1>5. Moves(r)
  <2>1. events' \in Seq(Requests)
    BY <1>1, <1>2
  <2>2. page'[r].stage # "over"
    BY <1>2, <1>3
  <2> HIDE DEF next
  <2> QED
    BY <1>1, <1>3, <1>4, <2>1, <2>2 DEF Moves, WInv, TypeOK
<1>6. TrueAnswer(r)'
  <2>1. TrueAnswer(r)
    BY DEF WInv
  <2> QED
    BY <2>1, <1>1, <1>3 DEF TrueAnswer, TotalOf, world
<1>7. QueueInv'
  <2>1. CASE ~attached
    BY <2>1, <1>1, <1>3, NotQueued
  <2>2. CASE attached
    <3>1. /\ Len(events') = Len(events) + 1 /\ events'[Len(events) + 1] = r
          /\ \A i \in 1 .. Len(events) : events'[i] = events[i] /\ events[i] \in Requests
          /\ \A i \in 1 .. Len(events') : i \in 1 .. Len(events) \/ i = Len(events) + 1
      BY <2>2, <1>1, <1>2
    <3>2. \A i \in 1 .. Len(events) : events[i] # r /\ page'[events[i]].stage = "queued"
      BY <3>1, <1>1, <1>3 DEF WInv, QueueInv
    <3>3. page'[r].stage = "queued"
      BY <2>2, <1>3
    <3> QED
      BY <3>1, <3>2, <3>3 DEF WInv, QueueInv
  <2> QED
    BY <2>1, <2>2
<1> QED
  BY <1>1, <1>5, <1>6, <1>7, MovesInv

LEMMA DispatchInv ==
  ASSUME WInv, ~Over, Dispatch PROVE WInv'
<1> DEFINE next == IF attached THEN "reading" ELSE "missed"
<1>1. events # <<>> /\ events \in Seq(Requests)
  BY DEF Dispatch, WInv, TypeOK
<1>2. PICK r \in Requests : r = Head(events)
  BY <1>1
<1>3. /\ events' = Tail(events) /\ page' = [page EXCEPT ![r].stage = next]
      /\ UNCHANGED <<world, attached, captured, round, at, picked, attempts, settled>>
  BY <1>2 DEF Dispatch
<1>4. /\ page \in [Requests -> Request] /\ Len(events) \in Nat
      /\ next \in {"reading", "missed"}
  BY <1>1, PageType DEF WInv, TypeOK
<1>5. /\ Len(events) > 0 /\ r = events[1] /\ Len(events') = Len(events) - 1
      /\ \A i \in 1 .. Len(events') : events'[i] = events[i + 1] /\ i + 1 \in 1 .. Len(events)
      /\ events' \in Seq(Requests)
  BY <1>1, <1>2, <1>3
<1>6. page[r].stage = "queued" /\ page[r] \in Request
  BY <1>4, <1>5 DEF WInv, QueueInv
<1>7. /\ page' \in [Requests -> Request]
      /\ page'[r].kind = page[r].kind /\ page'[r].filter = page[r].filter
      /\ page'[r].stage = next /\ page'[r].answer = page[r].answer
      /\ page'[r].stale = page[r].stale
      /\ \A q \in Requests \ {r} : page'[q] = page[q]
  <2>1. [page[r] EXCEPT !.stage = next] \in Request
    BY <1>4, <1>6 DEF Request, Stages
  <2> QED
    BY <2>1, <1>3, <1>4, <1>6 DEF Request
<1>8. Listed' = Listed /\ r \notin Listed
  BY <1>3, <1>6, NotListed DEF Listed
<1>9. Moves(r)
  <2>1. page'[r].stage # "over"
    BY <1>4, <1>7
  <2> HIDE DEF next
  <2> QED
    BY <1>3, <1>5, <1>7, <1>8, <2>1 DEF Moves, WInv, TypeOK
<1>10. TrueAnswer(r)'
  <2>1. TrueAnswer(r)
    BY DEF WInv
  <2> QED
    BY <2>1, <1>3, <1>7 DEF TrueAnswer, TotalOf, world
<1>11. QueueInv'
  <2>1. \A i \in 1 .. Len(events) : i # 1 => events[i] # r /\ events[i] \in Requests
    BY <1>1, <1>5 DEF WInv, QueueInv
  <2>2. ASSUME NEW i \in 1 .. Len(events') PROVE page'[events'[i]].stage = "queued"
    <3>1. i + 1 \in 1 .. Len(events) /\ i + 1 # 1 /\ events'[i] = events[i + 1]
      BY <1>5
    <3> QED
      BY <3>1, <2>1, <1>7 DEF WInv, QueueInv
  <2>3. ASSUME NEW i \in 1 .. Len(events'), NEW k \in 1 .. Len(events'), i # k
        PROVE  events'[i] # events'[k]
    <3>1. i + 1 # k + 1
      BY <2>3
    <3> QED
      BY <3>1, <1>5 DEF WInv, QueueInv
  <2> QED
    BY <2>2, <2>3 DEF QueueInv
<1> QED
  BY <1>6, <1>9, <1>10, <1>11, MovesInv

LEMMA ReadBodyInv ==
  ASSUME WInv, ~Over, NEW r \in Requests, ReadBody(r) PROVE WInv'
<1>1. /\ page[r].stage = "reading" /\ captured' = Append(captured, r)
      /\ UNCHANGED <<world, events, attached, round, at, picked, attempts, settled>>
  BY DEF ReadBody
<1>2. PICK answer \in {page[r].answer, NoRow} :
          page' = [page EXCEPT ![r].stage = "over", ![r].answer = answer]
  BY DEF ReadBody
<1>3. page \in [Requests -> Request] /\ page[r] \in Request /\ captured \in Seq(Requests)
  BY PageType DEF WInv, TypeOK
<1>4. [page[r] EXCEPT !.stage = "over", !.answer = answer] \in Request
  <2>1. answer \in Answers
    BY <1>3, UnsentType DEF Request
  <2> QED
    BY <2>1, <1>3 DEF Request, Stages
<1>5. /\ page' \in [Requests -> Request]
      /\ page'[r].kind = page[r].kind /\ page'[r].filter = page[r].filter
      /\ page'[r].stage = "over" /\ page'[r].answer = answer /\ page'[r].stale = page[r].stale
      /\ \A q \in Requests \ {r} : page'[q] = page[q]
  <2>1. page' = [page EXCEPT ![r] = [page[r] EXCEPT !.stage = "over", !.answer = answer]]
    BY <1>2, <1>3
  <2> QED
    BY <2>1, <1>3, <1>4 DEF Request
<1>6. Listed' = Listed \cup {r} /\ captured' \in Seq(Requests)
  <2>1. /\ Len(captured') = Len(captured) + 1 /\ captured'[Len(captured) + 1] = r
        /\ \A i \in 1 .. Len(captured) : captured'[i] = captured[i]
        /\ \A i \in 1 .. Len(captured') : i \in 1 .. Len(captured) \/ i = Len(captured) + 1
        /\ Len(captured) \in Nat /\ captured' \in Seq(Requests)
    BY <1>1, <1>3
  <2>2. \A q \in Listed' : q \in Listed \cup {r}
    BY <2>1 DEF Listed
  <2>3. \A q \in Listed \cup {r} : q \in Listed'
    <3>1. r \in Listed'
      BY <2>1 DEF Listed
    <3>2. \A i \in 1 .. Len(captured) : i \in 1 .. Len(captured')
      BY <2>1
    <3> QED
      BY <2>1, <3>1, <3>2 DEF Listed
  <2> QED
    BY <2>1, <2>2, <2>3
<1>7. Moves(r)
  BY <1>1, <1>5, <1>6 DEF Moves, WInv, TypeOK
<1>8. TrueAnswer(r)'
  <2>1. TrueAnswer(r)
    BY DEF WInv
  <2>2. TotalOf(r)' = TotalOf(r)
    BY <1>1, <1>5 DEF TotalOf, world
  <2> QED
    BY <2>1, <2>2, <1>2, <1>5 DEF TrueAnswer
<1>9. QueueInv'
  BY <1>1, <1>5, NotQueued
<1> QED
  BY <1>1, <1>7, <1>8, <1>9, MovesInv

-----------------------------------------------------------------------------
(* Steps of the test *)

\* Requests, events and the list do not depend on how far the test is.
Still == UNCHANGED <<world, page, events, captured, round, settled>>

LEMMA StillInv ==
  ASSUME WInv, Still, attached' \in BOOLEAN, attempts' \in 0 .. MaxAttempts,
         picked' \in {0} \cup Requests,
         at' \in {"leave", "match", "api", "database"} \cup Final
  PROVE  /\ TypeOK' /\ (\A r \in Requests : TrueAnswer(r)') /\ QueueInv'
         /\ CapturedInv' /\ SettledInv' /\ Listed' = Listed
<1>1. TypeOK'
  BY DEF WInv, TypeOK, Still, world
<1>2. ASSUME NEW r \in Requests PROVE TrueAnswer(r)'
  BY DEF WInv, TrueAnswer, TotalOf, Still, world
<1>3. Listed' = Listed
  BY DEF Still, Listed
<1>4. QueueInv' /\ CapturedInv' /\ SettledInv'
  BY <1>3 DEF WInv, QueueInv, CapturedInv, SettledInv, Still
<1> QED
  BY <1>1, <1>2, <1>3, <1>4

LEMMA EnterInv == ASSUME WInv, Enter PROVE WInv'
<1>1. /\ at' = "act" /\ attached' = TRUE /\ attempts' = 0 /\ captured' = <<>>
      /\ settled' = {r \in Requests : page[r].stage \in {"over", "missed"}}
      /\ UNCHANGED <<world, events, picked>>
  BY DEF Enter, Begin
<1>2. round' \in Rounds
  <2>1. round \in 1 .. MaxRounds /\ MaxRounds \in Nat
    BY Bounds DEF WInv, TypeOK
  <2> QED
    BY <2>1, Bounds DEF Enter, Begin
<1>3. page \in [Requests -> Request]
  BY PageType DEF WInv
<1>4. ASSUME NEW r \in Requests
      PROVE  /\ page'[r] \in Request
             /\ page'[r].kind = page[r].kind /\ page'[r].filter = page[r].filter
             /\ page'[r].answer = page[r].answer /\ page'[r].stale = page[r].stale
             /\ page'[r].stage = page[r].stage
                  \/ (page[r].stage = "reading" /\ page'[r].stage = "missed")
  <2>1. page[r] \in Request
    BY <1>3
  <2>2. CASE UNCHANGED page
    BY <2>1, <2>2
  <2>3. CASE page' = Abandoned
    BY <2>1, <2>3 DEF Abandoned, Request, Stages
  <2> QED
    BY <2>2, <2>3 DEF Enter
<1>5. page' \in [Requests -> Request]
  <2>1. DOMAIN page' = Requests /\ page' = [r \in Requests |-> page'[r]]
    BY <1>3 DEF Enter, Abandoned
  <2> QED
    BY <2>1, <1>4
<1>6. TypeOK'
  <2>1. attempts' \in 0 .. MaxAttempts /\ captured' \in Seq(Requests)
    BY <1>1, Bounds
  <2> QED
    BY <1>1, <1>2, <1>5, <2>1 DEF WInv, TypeOK, Request, Answers, world
<1>7. ASSUME NEW r \in Requests PROVE TrueAnswer(r)'
  BY <1>1, <1>4 DEF WInv, TrueAnswer, TotalOf, world
<1>8. QueueInv'
  <2>1. \A i \in 1 .. Len(events) : events[i] \in Requests /\ page[events[i]].stage = "queued"
    BY DEF WInv, TypeOK, QueueInv
  <2> QED
    BY <2>1, <1>1, <1>4 DEF WInv, QueueInv
<1>9. CapturedInv' /\ SettledInv'
  <2>1. Listed' = {}
    BY <1>1 DEF Listed
  <2> QED
    BY <2>1, <1>1, <1>4 DEF CapturedInv, SettledInv
<1>10. PickedInv' /\ OwnInv' /\ DefectIsFound' /\ NoFalseAlarm' /\ ReadIsFound'
  BY <1>1 DEF PickedInv, OwnInv, DefectIsFound, NoFalseAlarm, ReadIsFound
<1> QED
  BY <1>6, <1>7, <1>8, <1>9, <1>10 DEF WInv

LEMMA ActInv == ASSUME WInv, Act PROVE WInv'
<1> DEFINE r == round
<1>1. /\ at = "act" /\ at' = "wait" /\ Send(r, "widget", r)
      /\ UNCHANGED <<world, round, events, attached, captured, picked, attempts, settled>>
  BY DEF Act, Stay
<1>2. r \in Requests /\ r \in Filters
  BY Bounds DEF WInv, TypeOK
<1>3. /\ page' \in [Requests -> Request] /\ page[r].stage = "unsent"
      /\ page'[r].kind = "widget" /\ page'[r].stage = "sent" /\ page'[r].answer = NoRow
      /\ \A q \in Requests \ {r} : page'[q] = page[q]
  BY <1>1, <1>2, SendInv DEF Kinds
<1>4. TypeOK'
  BY <1>1, <1>3 DEF WInv, TypeOK, Request, Answers, world
<1>5. ASSUME NEW q \in Requests PROVE TrueAnswer(q)'
  <2>1. TrueAnswer(q)
    BY DEF WInv
  <2>2. CASE q = r
    BY <2>2, <1>3 DEF TrueAnswer
  <2>3. CASE q # r
    BY <2>1, <2>3, <1>1, <1>3 DEF TrueAnswer, TotalOf, world
  <2> QED
    BY <2>2, <2>3
<1>6. QueueInv'
  BY <1>1, <1>2, <1>3, NotQueued
<1>7. CapturedInv' /\ SettledInv'
  <2>1. Listed' = Listed /\ r \notin Listed
    BY <1>1, <1>2, <1>3, NotListed DEF Listed
  <2>2. Listed \subseteq Requests /\ settled \subseteq Requests
    BY DEF WInv, TypeOK, Listed
  <2>3. r \notin settled
    BY <1>3 DEF WInv, SettledInv
  <2> QED
    BY <2>1, <2>2, <2>3, <1>1, <1>3 DEF WInv, CapturedInv, SettledInv
<1>8. PickedInv' /\ OwnInv' /\ DefectIsFound' /\ NoFalseAlarm' /\ ReadIsFound'
  BY <1>1, <1>3 DEF PickedInv, OwnInv, DefectIsFound, NoFalseAlarm, ReadIsFound
<1> QED
  BY <1>4, <1>5, <1>6, <1>7, <1>8 DEF WInv

LEMMA WaitEndsInv == ASSUME WInv, WaitEnds \/ Leave PROVE WInv'
<1>1. /\ at \in {"wait", "leave"} /\ at' \in {"leave", "error", "match"} /\ attached' \in BOOLEAN
      /\ UNCHANGED <<picked, attempts>> /\ Still
  BY DEF WInv, TypeOK, WaitEnds, Leave, Stay, Still
<1>2. /\ TypeOK' /\ (\A r \in Requests : TrueAnswer(r)') /\ QueueInv'
      /\ CapturedInv' /\ SettledInv' /\ Listed' = Listed
  BY <1>1, StillInv DEF WInv, TypeOK, Final
<1>3. OwnInv'
  BY <1>1, <1>2 DEF WInv, OwnInv, Still
<1>4. PickedInv' /\ DefectIsFound' /\ NoFalseAlarm' /\ ReadIsFound'
  BY <1>1 DEF PickedInv, DefectIsFound, NoFalseAlarm, ReadIsFound
<1> QED
  BY <1>2, <1>3, <1>4 DEF WInv

\* The rule takes all answers to the widget and nothing of the forecast.
LEMMA Identified ==
  ASSUME TypeOK, NEW r \in Requests
  PROVE  Identifies(Identify, Tokens(r)) <=> page[r].kind = "widget"
<1>1. page[r].kind \in {"widget", "forecast"}
  BY DEF TypeOK, Kinds
<1> QED
  BY <1>1 DEF Identifies, Identify, Tokens

\* What is picked was captured in this check, and what was captured is found.
LEMMA MatchInv == ASSUME WInv, Match PROVE WInv'
<1> DEFINE matching == {i \in DOMAIN captured : Identifies(Identify, Tokens(captured[i]))}
<1>1. /\ at = "match" /\ Still /\ UNCHANGED <<attached, attempts>>
      /\ \/ matching = {} /\ at' = "unmatched" /\ picked' = 0
         \/ \E i \in matching :
               /\ picked' = captured[i]
               /\ at' = IF page[captured[i]].answer = NoRow THEN "error" ELSE "api"
  BY DEF Match, Stay, Still
<1>2. captured \in Seq(Requests) /\ round \in Requests
  BY Bounds DEF WInv, TypeOK
<1>3. /\ at' \in {"unmatched", "error", "api"} /\ picked' \in {0} \cup Requests
      /\ at' = "api" => /\ picked' \in Requests \ settled
                        /\ page[picked'].stage = "over" /\ page[picked'].kind = "widget"
                        /\ page[picked'].answer # NoRow
  <2>1. ASSUME NEW i \in matching, picked' = captured[i],
               at' = IF page[captured[i]].answer = NoRow THEN "error" ELSE "api"
        PROVE  /\ at' \in {"unmatched", "error", "api"} /\ picked' \in Requests \ settled
               /\ page[picked'].stage = "over" /\ page[picked'].kind = "widget"
               /\ at' = "api" => page[picked'].answer # NoRow
    <3>1. i \in 1 .. Len(captured) /\ captured[i] \in Requests /\ captured[i] \in Listed
      BY <1>2 DEF Listed
    <3>2. page[captured[i]].kind = "widget"
      BY <3>1, Identified DEF WInv
    <3> QED
      BY <2>1, <3>1, <3>2 DEF WInv, CapturedInv
  <2> QED
    BY <1>1, <2>1
<1>4. at' = "unmatched" => page[round].stage # "over"
  <2> SUFFICES ASSUME at' = "unmatched", page[round].stage = "over" PROVE FALSE
    OBVIOUS
  <2>1. page[round].kind = "widget" /\ round \in Listed
    BY <1>1 DEF WInv, OwnInv
  <2>2. PICK i \in 1 .. Len(captured) : captured[i] = round
    BY <2>1 DEF Listed
  <2>3. i \in matching
    BY <1>2, <2>1, <2>2, Identified DEF WInv
  <2> QED
    BY <1>1, <2>3
<1>5. /\ TypeOK' /\ (\A r \in Requests : TrueAnswer(r)') /\ QueueInv'
      /\ CapturedInv' /\ SettledInv'
  BY <1>1, <1>3, StillInv DEF WInv, TypeOK, Final
<1>6. PickedInv' /\ OwnInv' /\ DefectIsFound' /\ NoFalseAlarm' /\ ReadIsFound'
  BY <1>1, <1>3, <1>4 DEF PickedInv, OwnInv, DefectIsFound, NoFalseAlarm, ReadIsFound, Still
<1> QED
  BY <1>5, <1>6 DEF WInv

\* The numbers that a verdict compares, and what they are where they decide.
LEMMA Compared ==
  ASSUME WInv, at = "database"
  PROVE  /\ picked \in Requests /\ db[round] \in Int /\ defect \in Int
         /\ \E n \in Int : /\ page[picked].answer = Number(n)
                           /\ ~Undecided(picked) => n = db[round] + defect
<1>1. /\ picked \in Requests \ settled /\ page[picked].kind = "widget"
      /\ page[picked].answer # NoRow
  BY DEF WInv, PickedInv
<1>2. page[picked] \in Request /\ db[round] \in Int /\ defect \in Int
  BY <1>1, PageType, Bounds DEF WInv, TypeOK
<1>3. PICK n \in Int : page[picked].answer = Number(n)
  BY <1>1, <1>2 DEF Request, Answers, Number
<1>4. ~page[picked].stale => Number(n) = Number(TotalOf(picked))
  BY <1>1, <1>3 DEF WInv, TrueAnswer
<1>5. ~Undecided(picked) => page[picked].filter = round /\ ~page[picked].stale
  BY <1>1 DEF Undecided
<1>6. page[picked].filter = round => TotalOf(picked) = db[round] + defect
  BY <1>1, <1>2 DEF TotalOf
<1> QED
  BY <1>1, <1>2, <1>3, <1>4, <1>5, <1>6 DEF Number

\* The API's check says nothing of the widget's number.
LEMMA ApiStepInv == ASSUME WInv, SkipApi \/ VerifyApi PROVE WInv'
<1>1. /\ at = "api" /\ at' \in {"database", "error"} /\ Still
      /\ UNCHANGED <<attached, picked, attempts>>
  BY DEF SkipApi, VerifyApi, Stay, Still
<1>2. /\ TypeOK' /\ (\A r \in Requests : TrueAnswer(r)') /\ QueueInv'
      /\ CapturedInv' /\ SettledInv'
  BY <1>1, StillInv DEF WInv, TypeOK, Final
<1>3. PickedInv' /\ OwnInv' /\ DefectIsFound' /\ NoFalseAlarm' /\ ReadIsFound'
  BY <1>1 DEF WInv, PickedInv, OwnInv, DefectIsFound, NoFalseAlarm, ReadIsFound, Still
<1> QED
  BY <1>2, <1>3 DEF WInv

\* The verdict of the last layer.
LEMMA VerdictInv ==
  ASSUME WInv, at = "database", NEW ok \in BOOLEAN, Verdict(ok),
         ok /\ mode \in {"ui_database", "ui_api_database"} =>
             Undecided(picked) \/ DefectWithin(db[round]),
         ~ok => defect # 0 \/ Undecided(picked)
  PROVE  WInv'
<1>1. /\ at' = IF ok THEN "passed" ELSE "mismatch"
      /\ Still /\ UNCHANGED <<attached, picked, attempts>>
  BY DEF Verdict, Stay, Still
<1>2. /\ TypeOK' /\ (\A r \in Requests : TrueAnswer(r)') /\ QueueInv'
      /\ CapturedInv' /\ SettledInv'
  BY <1>1, StillInv DEF WInv, TypeOK, Final
<1>3. Undecided(picked)' = Undecided(picked)
  BY <1>1 DEF Undecided, Still
<1>4. PickedInv' /\ OwnInv' /\ ReadIsFound'
  BY <1>1 DEF WInv, PickedInv, OwnInv, ReadIsFound, Still
<1>5. NoFalseAlarm'
  BY <1>1, <1>3 DEF NoFalseAlarm, Still, world
<1>6. DefectIsFound'
  BY <1>1, <1>3 DEF DefectIsFound, DefectWithin, Still, world
<1> QED
  BY <1>2, <1>4, <1>5, <1>6 DEF WInv

LEMMA SkipDatabaseInv == ASSUME WInv, SkipDatabase PROVE WInv'
  BY VerdictInv DEF SkipDatabase

LEMMA QueryAnswersInv == ASSUME WInv, QueryAnswers PROVE WInv'
<1>1. at = "database" /\ Verdict(Matched(Db, Ui, Fields(Db, Ui), {Tolerance}))
  BY DEF QueryAnswers
<1>2. PICK n \in Int : /\ page[picked].answer = Number(n)
                       /\ ~Undecided(picked) => n = db[round] + defect
  BY <1>1, Compared
<1>3. db[round] \in Int /\ defect \in Int
  BY <1>1, Compared
<1>4. Ui = Payload(Number(n)) /\ Db = Payload(Number(db[round]))
  BY <1>2 DEF Ui, Db, WidgetQuery
<1>5. Matched(Db, Ui, Fields(Db, Ui), {Tolerance}) <=> WithinTolerance(db[round], n, Tolerance)
  BY <1>3, <1>4, TolerantComparison
<1> DEFINE ok == Matched(Db, Ui, Fields(Db, Ui), {Tolerance})
<1>6. ok => Undecided(picked) \/ DefectWithin(db[round])
  BY <1>2, <1>3, <1>5, DefectFromDistance
<1>7. ~ok => defect # 0 \/ Undecided(picked)
  <2>1. defect = 0 /\ ~Undecided(picked) => n = db[round]
    BY <1>2, <1>3
  <2> QED
    BY <2>1, <1>3, <1>5, EqualIsWithin
<1>8. ok \in BOOLEAN
  BY DEF Matched
<1> HIDE DEF ok
<1> QED
  BY <1>1, <1>6, <1>7, <1>8, VerdictInv DEF ok

\* A query that is still to be made has an attempt left.
TriesLeft == at \notin Final => attempts < MaxAttempts

LEMMA NextTries == WInv /\ TriesLeft /\ [Next]_vars => TriesLeft'
<1> SUFFICES ASSUME WInv, TriesLeft, [Next]_vars PROVE TriesLeft'
  OBVIOUS
<1>1. MaxAttempts \in Nat \ {0} /\ attempts \in Nat
  BY Bounds DEF WInv, TypeOK
<1>2. CASE QueryFails
  BY <1>1, <1>2 DEF QueryFails, TriesLeft, Final
<1>3. CASE SkipDatabase \/ QueryAnswers
  BY <1>3 DEF SkipDatabase, QueryAnswers, Verdict, TriesLeft, Final
<1>4. CASE Enter
  BY <1>1, <1>4 DEF Enter, Begin, TriesLeft
<1>5. CASE Act \/ WaitEnds \/ Leave \/ Match \/ SkipApi \/ VerifyApi
  BY <1>5 DEF Act, WaitEnds, Leave, Match, SkipApi, VerifyApi, TriesLeft, Final
<1>6. CASE Environment
  BY <1>6 DEF Environment, Drift, Dispatch, Answer, Arrive, ReadBody, PageSends, TriesLeft
<1>7. CASE UNCHANGED vars
  BY <1>7 DEF vars, TriesLeft
<1> QED
  BY <1>2, <1>3, <1>4, <1>5, <1>6, <1>7 DEF Next, Test

LEMMA QueryFailsInv == ASSUME WInv, TriesLeft, QueryFails PROVE WInv'
<1>1. /\ at = "database" /\ at' \in {"database", "error"} /\ Still
      /\ UNCHANGED <<attached, picked>>
  BY DEF QueryFails, Stay, Still
<1>2. attempts' \in 0 .. MaxAttempts
  <2>1. attempts \in 0 .. MaxAttempts /\ attempts < MaxAttempts /\ MaxAttempts \in Nat
    BY <1>1, Bounds DEF WInv, TypeOK, TriesLeft, Final
  <2> QED
    BY <2>1 DEF QueryFails
<1>3. /\ TypeOK' /\ (\A r \in Requests : TrueAnswer(r)') /\ QueueInv'
      /\ CapturedInv' /\ SettledInv'
  BY <1>1, <1>2, StillInv DEF WInv, TypeOK, Final
<1>4. PickedInv' /\ OwnInv' /\ DefectIsFound' /\ NoFalseAlarm' /\ ReadIsFound'
  BY <1>1 DEF WInv, PickedInv, OwnInv, DefectIsFound, NoFalseAlarm, ReadIsFound, Still
<1> QED
  BY <1>3, <1>4 DEF WInv

-----------------------------------------------------------------------------
(* The theorems *)

LEMMA NextInv == WInv /\ TriesLeft /\ [Next]_vars => WInv'
<1> SUFFICES ASSUME WInv, TriesLeft, [Next]_vars PROVE WInv'
  OBVIOUS
<1>1. CASE Environment
  BY <1>1, DriftInv, DispatchInv, AnswerInv, ArriveInv, ReadBodyInv, PageSendsInv DEF Environment
<1>2. CASE Test
  BY <1>2, EnterInv, ActInv, WaitEndsInv, MatchInv, ApiStepInv, SkipDatabaseInv, QueryAnswersInv,
     QueryFailsInv DEF Test
<1>3. CASE UNCHANGED vars
  <2>1. TypeOK' /\ QueueInv' /\ PickedInv' /\ DefectIsFound' /\ NoFalseAlarm' /\ ReadIsFound'
    BY <1>3 DEF vars, WInv, TypeOK, QueueInv, PickedInv, DefectIsFound, NoFalseAlarm, ReadIsFound,
       Undecided
  <2>2. CapturedInv' /\ SettledInv' /\ OwnInv'
    BY <1>3 DEF vars, WInv, CapturedInv, SettledInv, OwnInv, Listed
  <2>3. ASSUME NEW r \in Requests PROVE TrueAnswer(r)'
    BY <1>3 DEF vars, WInv, TrueAnswer, TotalOf
  <2> QED
    BY <2>1, <2>2, <2>3 DEF WInv
<1> QED
  BY <1>1, <1>2, <1>3 DEF Next

LEMMA Invariant == Spec => []WInv
<1>1. Init => WInv /\ TriesLeft
  BY InitInv, Bounds DEF Init, TriesLeft
<1>2. WInv /\ TriesLeft /\ [Next]_vars => WInv' /\ TriesLeft'
  BY NextInv, NextTries
<1> QED
  BY <1>1, <1>2, PTL DEF Spec

\* Requests, events and captured exchanges are what their types say.
THEOREM TypeCorrect == Spec => []TypeOK
<1>1. WInv => TypeOK
  BY DEF WInv
<1> QED
  BY Invariant, <1>1, PTL

\* A dashboard that shows a wrong number fails the check beyond the tolerance,
\* unless what is compared was read before a change of the database or was late
\* for the check before.
THEOREM DefectIsFoundHolds == Spec => []DefectIsFound
<1>1. WInv => DefectIsFound
  BY DEF WInv
<1> QED
  BY Invariant, <1>1, PTL

\* A dashboard that shows the right number is not called wrong, in whatever
\* order the page's requests are answered and captured, by anything but such a
\* late number.
THEOREM NoFalseAlarmHolds == Spec => []NoFalseAlarm
<1>1. WInv => NoFalseAlarm
  BY DEF WInv
<1> QED
  BY Invariant, <1>1, PTL

\* A widget's response that was read while the test listened is found, with
\* whatever body, and whichever interceptor is used again.
THEOREM ReadIsFoundHolds == Spec => []ReadIsFound
<1>1. WInv => ReadIsFound
  BY DEF WInv
<1> QED
  BY Invariant, <1>1, PTL
=============================================================================
