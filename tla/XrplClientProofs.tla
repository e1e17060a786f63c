-------------------------- MODULE XrplClientProofs --------------------------
(***************************************************************************)
(* Proofs about XrplClient, for every set of requests and accounts and any *)
(* bound on the Sequence.  That a used Sequence is a rival's doing needs   *)
(* two facts at once: requests of one account under way together know of   *)
(* each other (Rivalry), and a Sequence that has become stale before it is *)
(* submitted was taken by one of those (Staleness).                        *)
(***************************************************************************)
EXTENDS XrplClient, TLAPS

-----------------------------------------------------------------------------
(* The invariant *)

Answers ==
    {"", "submission failure"} \cup {HandleResponse(code) : code \in ResultCode}

TaskType ==
    [step : {"idle", "fill", "sign", "wait", "done"},
     account : Account \cup {NoTask.account}, seq : Int,
     code : ResultCode \cup {""}, answer : Answers]

TypeOK ==
    /\ next \in [Account -> Int]
    /\ applied \subseteq Request
    /\ held \subseteq Request
    /\ task \in [Request -> TaskType]
    /\ rivals \in [Request -> SUBSET Request]

\* What a task knows at its step.
Started(r) == task[r].step # "idle"

Answered(r) == task[r].code \in ResultCode

TaskOK(r) ==
    /\ Started(r) => task[r].account \in Account
    /\ ~Started(r) => ~Answered(r)
    /\ task[r].step = "wait" => Answered(r)
    /\ task[r].step \in {"fill", "sign"} => ~Answered(r)

\* The ledger has, or may take in, only what it did not refuse.
Kept(r) ==
    r \in applied \cup held =>
        /\ task[r].step \in {"wait", "done"}
        /\ Answered(r)
        /\ Prefix[task[r].code] \in {"tes", "tec", "ter"}

\* Answers that call a request failed come of codes that refuse it.
Refused(r) ==
    task[r].answer \in {"not valid", "submission failed"} =>
        /\ Answered(r)
        /\ task[r].step = "done"
        /\ Prefix[task[r].code] \in {"tem", "tef", "tel"}

\* Two requests of one account that are under way together are rivals.
Rivalry(r) ==
    \A q \in Request :
        (/\ Handled(r) /\ UnderWay(q) /\ q # r
         /\ task[q].account = task[r].account) => q \in rivals[r]

\* A rival that has signed with the same Sequence.
Beaten(r) ==
    \E q \in rivals[r] :
        /\ task[q].seq = task[r].seq
        /\ task[q].step \in {"sign", "wait", "done"}

\* What r signs with, or was refused for, is stale only for such a rival.
Staleness(r) ==
    (\/ task[r].step = "sign" /\ task[r].seq < next[task[r].account]
     \/ task[r].code = "tefPAST_SEQ") => Beaten(r)

Sound(r) ==
    TaskOK(r) /\ Kept(r) /\ Refused(r) /\ Rivalry(r) /\ Staleness(r)

ClientInv == TypeOK /\ \A r \in Request : Sound(r)

-----------------------------------------------------------------------------
(* Lemmas *)

\* The engine's results and what their first letters say.
LEMMA Codes ==
    /\ ResultCode = {"tesSUCCESS", "tecHOOK_REJECTED", "tecOTHER",
                     "temMALFORMED", "terPRE_SEQ", "tefPAST_SEQ", "telLOCAL"}
    /\ Prefix["tesSUCCESS"] = "tes" /\ Prefix["temMALFORMED"] = "tem"
    /\ Prefix["tecHOOK_REJECTED"] = "tec" /\ Prefix["tecOTHER"] = "tec"
    /\ Prefix["terPRE_SEQ"] = "ter" /\ Prefix["tefPAST_SEQ"] = "tef"
    /\ Prefix["telLOCAL"] = "tel"
  BY DEF ResultCode, Prefix

\* handleResponse calls a request failed only for the codes of a transaction
\* that the ledger refuses for good.
LEMMA FailuresOfCodes ==
    ASSUME NEW code \in ResultCode,
           HandleResponse(code) \in {"not valid", "submission failed"}
    PROVE  Prefix[code] \in {"tem", "tef", "tel"}
  BY Codes DEF HandleResponse

\* Only the Sequence already used is answered tef.
LEMMA StaleCode ==
    ASSUME NEW code \in ResultCode
    PROVE  code = "tefPAST_SEQ" <=> Prefix[code] = "tef"
  BY Codes

\* At first no request has been made.
LEMMA InitClient == Init => ClientInv
  <1> SUFFICES ASSUME Init PROVE ClientInv
    OBVIOUS
  <1>1. TypeOK
    <2>1. "" \in Answers
      BY DEF Answers
    <2>2. NoTask \in TaskType
      <3> DEFINE none == ""
                 codes == ResultCode \cup {none}
                 anyone == Account \cup {NoTask.account}
      <3>0. NoTask = [step |-> "idle", account |-> NoTask.account,
                      seq |-> 0, code |-> none, answer |-> none]
        BY DEF NoTask
      <3>1. /\ NoTask.account \in anyone
            /\ none \in codes /\ none \in Answers
        BY <2>1
      <3>2. TaskType = [step : {"idle", "fill", "sign", "wait", "done"},
                        account : anyone, seq : Int, code : codes,
                        answer : Answers]
        BY DEF TaskType
      <3> HIDE DEF anyone, codes, none
      <3>3. ASSUME NEW a \in anyone
            PROVE  [step |-> "idle", account |-> a, seq |-> 0,
                    code |-> none, answer |-> none] \in TaskType
        BY <3>1, <3>2
      <3> QED
        BY <3>0, <3>1, <3>3
    <2> QED
      BY <2>2 DEF Init, TypeOK
  <1>2. ASSUME NEW r \in Request
        PROVE  Sound(r)
    <2>1. /\ task[r].step = "idle" /\ task[r].code = ""
          /\ task[r].answer = "" /\ r \notin applied \cup held
      BY <1>2 DEF Init, NoTask
    <2> QED
      BY <2>1, Codes DEF TaskOK, Started, Answered, Kept, Refused, Rivalry,
                         Handled, Staleness, Sound
  <1> QED
    BY <1>1, <1>2 DEF ClientInv

-----------------------------------------------------------------------------
(* The steps *)

\* What each handler step writes into its task.
LEMMA TaskWritten ==
    ASSUME NEW q \in TaskType
    PROVE  /\ \A a \in Account :
                 [q EXCEPT !.step = "fill", !.account = a] \in TaskType
           /\ \A n \in Int :
                 [q EXCEPT !.step = "sign", !.seq = n] \in TaskType
           /\ \A code \in ResultCode :
                 [q EXCEPT !.step = "wait", !.code = code] \in TaskType
           /\ \A answer \in Answers :
                 [q EXCEPT !.step = "done", !.answer = answer] \in TaskType
  <1> DEFINE Steps == {"idle", "fill", "sign", "wait", "done"}
             Accounts == Account \cup {NoTask.account}
             Results == ResultCode \cup {""}
  <1>1. TaskType = [step : Steps, account : Accounts, seq : Int,
                    code : Results, answer : Answers]
    BY DEF TaskType
  <1>2. /\ {"fill", "sign", "wait", "done"} \subseteq Steps
        /\ Account \subseteq Accounts /\ ResultCode \subseteq Results
    OBVIOUS
  <1> HIDE DEF Steps, Accounts, Results
  <1> QED
    BY <1>1, <1>2

\* A task has its five fields.
LEMMA TaskFields ==
    ASSUME NEW q \in TaskType
    PROVE  q = [step |-> q.step, account |-> q.account, seq |-> q.seq,
                code |-> q.code, answer |-> q.answer]
  BY DEF TaskType

\* A step that writes one task keeps the others.
LEMMA OneTaskWritten ==
    ASSUME task \in [Request -> TaskType], NEW r \in Request,
           NEW new \in TaskType, task' = [task EXCEPT ![r] = new]
    PROVE  task' \in [Request -> TaskType]
  OBVIOUS

\* Every step keeps the types.
LEMMA TypeStep == ClientInv /\ [Next]_vars => TypeOK'
  <1> SUFFICES ASSUME ClientInv, [Next]_vars PROVE TypeOK'
    OBVIOUS
  <1>1. /\ next \in [Account -> Int]
        /\ applied \subseteq Request /\ held \subseteq Request
        /\ task \in [Request -> TaskType]
        /\ rivals \in [Request -> SUBSET Request]
    BY DEF ClientInv, TypeOK
  <1>2. \A r \in Request : task[r] \in TaskType
    BY <1>1
  <1>4. ASSUME NEW r \in Request, NEW a \in Account, Start(r, a)
        PROVE  TypeOK'
    <2>1. PICK new \in TaskType : task' = [task EXCEPT ![r] = new]
      <3>1. [task[r] EXCEPT !.step = "fill", !.account = a] \in TaskType
        BY <1>2, TaskWritten
      <3>2. task' = [task EXCEPT ![r] =
                 [task[r] EXCEPT !.step = "fill", !.account = a]]
        BY <1>4 DEF Start
      <3> QED
        BY <3>1, <3>2
    <2>2. task' \in [Request -> TaskType]
      BY <1>1, <2>1, OneTaskWritten
    <2> QED
      BY <1>1, <1>4, <2>2 DEF Start, TypeOK
  <1>5. ASSUME NEW r \in Request, Fill(r)
        PROVE  TypeOK'
    <2>1. next[task[r].account] \in Int
      BY <1>1, <1>5 DEF ClientInv, Sound, TaskOK, Started, Fill
    <2>2. PICK new \in TaskType : task' = [task EXCEPT ![r] = new]
      <3>1. [task[r] EXCEPT !.step = "sign",
                            !.seq = next[task[r].account]] \in TaskType
        BY <1>2, <2>1, TaskWritten
      <3>2. task' = [task EXCEPT ![r] =
                 [task[r] EXCEPT !.step = "sign",
                                 !.seq = next[task[r].account]]]
        BY <1>5 DEF Fill
      <3> QED
        BY <3>1, <3>2
    <2>3. task' \in [Request -> TaskType]
      BY <1>1, <2>2, OneTaskWritten
    <2> QED
      BY <1>1, <1>5, <2>3 DEF Fill, TypeOK
  <1>6. ASSUME NEW r \in Request, Throw(r)
        PROVE  TypeOK'
    <2>1. "submission failure" \in Answers
      BY DEF Answers
    <2>2. PICK new \in TaskType : task' = [task EXCEPT ![r] = new]
      <3>1. [task[r] EXCEPT !.step = "done",
                            !.answer = "submission failure"] \in TaskType
        BY <1>2, <2>1, TaskWritten
      <3>2. task' = [task EXCEPT ![r] =
                 [task[r] EXCEPT !.step = "done",
                                 !.answer = "submission failure"]]
        BY <1>6 DEF Throw
      <3> QED
        BY <3>1, <3>2
    <2>3. task' \in [Request -> TaskType]
      BY <1>1, <2>2, OneTaskWritten
    <2> QED
      BY <1>1, <1>6, <2>3 DEF Throw, TypeOK
  <1>7. ASSUME NEW r \in Request, Respond(r)
        PROVE  TypeOK'
    <2>1. task[r].code \in ResultCode
      BY <1>7 DEF ClientInv, Sound, TaskOK, Answered, Respond
    <2>2. HandleResponse(task[r].code) \in Answers
      BY <2>1 DEF Answers
    <2>3. PICK new \in TaskType : task' = [task EXCEPT ![r] = new]
      <3>1. [task[r] EXCEPT !.step = "done",
                            !.answer = HandleResponse(task[r].code)] \in TaskType
        BY <1>2, <2>2, TaskWritten
      <3>2. task' = [task EXCEPT ![r] =
                 [task[r] EXCEPT !.step = "done",
                                 !.answer = HandleResponse(task[r].code)]]
        BY <1>7 DEF Respond
      <3> QED
        BY <3>1, <3>2
    <2>4. task' \in [Request -> TaskType]
      BY <1>1, <2>3, OneTaskWritten
    <2> QED
      BY <1>1, <1>7, <2>4 DEF Respond, TypeOK
  <1>8. ASSUME NEW r \in Request, Receive(r)
        PROVE  TypeOK'
    <2>1. PICK new \in TaskType : task' = [task EXCEPT ![r] = new]
      <3>1. PICK code \in ResultCode :
               task' = [task EXCEPT ![r].step = "wait", ![r].code = code]
        BY <1>8 DEF Receive
      <3>2. [task[r] EXCEPT !.step = "wait", !.code = code] \in TaskType
        BY <1>2, <3>1, TaskWritten
      <3>3. task' = [task EXCEPT ![r] =
                 [task[r] EXCEPT !.step = "wait", !.code = code]]
        BY <3>1
      <3> QED
        BY <3>2, <3>3
    <2>2. task' \in [Request -> TaskType]
      BY <1>1, <2>1, OneTaskWritten
    <2>3. /\ next' \in [Account -> Int] /\ applied' \subseteq Request
          /\ held' \subseteq Request /\ rivals' = rivals
      BY <1>1, <1>8 DEF Receive, Take
    <2> QED
      BY <1>1, <2>2, <2>3 DEF TypeOK
  <1>9. ASSUME NEW r \in Request, Drop(r) \/ TakeHeld(r) \/ Expire(r)
        PROVE  TypeOK'
    <2>1. /\ next' \in [Account -> Int] /\ applied' \subseteq Request
          /\ held' \subseteq Request /\ task' = task
          /\ rivals' \in [Request -> SUBSET Request]
      BY <1>1, <1>9 DEF Drop, TakeHeld, Take, Expire
    <2> QED
      BY <1>1, <2>1 DEF TypeOK
  <1>10. CASE UNCHANGED vars
    BY <1>1, <1>10 DEF vars, TypeOK
  <1> QED
    BY <1>4, <1>5, <1>6, <1>7, <1>8, <1>9, <1>10 DEF Next


\* A rival that has signed stays one and keeps its Sequence.
LEMMA BeatenStays ==
    ASSUME NEW p \in Request, Beaten(p),
           task'[p].seq = task[p].seq, rivals[p] \subseteq rivals'[p],
           \A q \in Request :
               task[q].step \in {"sign", "wait", "done"} =>
                   /\ task'[q].step \in {"sign", "wait", "done"}
                   /\ task'[q].seq = task[q].seq,
           TypeOK
    PROVE  Beaten(p)'
  BY DEF Beaten, TypeOK

\* A request that starts learns of all that are under way for its account,
\* and they of it.
LEMMA StartKeeps ==
    ASSUME ClientInv, NEW r \in Request, NEW a \in Account, Start(r, a),
           NEW p \in Request
    PROVE  Sound(p)'
  <1> DEFINE others == {q \in Request \ {r} :
                           UnderWay(q) /\ task[q].account = a}
  <1>1. /\ task \in [Request -> TaskType] /\ rivals \in [Request -> SUBSET Request]
        /\ Sound(p) /\ Sound(r) /\ TypeOK
    BY DEF ClientInv, TypeOK
  <1>2. /\ task[r].step = "idle" /\ next' = next
        /\ applied' = applied /\ held' = held
        /\ task'[r].step = "fill" /\ task'[r].account = a
        /\ task'[r].seq = task[r].seq /\ task'[r].code = task[r].code
        /\ task'[r].answer = task[r].answer
        /\ \A q \in Request \ {r} : task'[q] = task[q]
    BY <1>1 DEF Start, TaskType
  <1>3. \A q \in Request :
           rivals'[q] = IF q = r THEN others
                        ELSE IF q \in others THEN rivals[q] \cup {r}
                        ELSE rivals[q]
    BY DEF Start
  <1>4. r \notin applied \cup held /\ ~Answered(r)
    BY <1>1, <1>2 DEF Sound, TaskOK, Kept, Started
  <1>5. TaskOK(p)' /\ Kept(p)' /\ Refused(p)'
    BY <1>1, <1>2, <1>4
       DEF Sound, TaskOK, Kept, Refused, Started, Answered
  <1>6. Rivalry(p)'
    <2> SUFFICES ASSUME NEW q \in Request, Handled(p)', UnderWay(q)', q # p,
                        task'[q].account = task'[p].account
                 PROVE  q \in rivals'[p]
      BY DEF Rivalry
    <2>1. CASE p = r
      BY <1>2, <1>3, <2>1 DEF UnderWay, Handled
    <2>2. CASE q = r
      BY <1>2, <1>3, <2>2 DEF UnderWay, Handled
    <2>3. CASE p # r /\ q # r
      <3>1. /\ Handled(p) /\ UnderWay(q)
            /\ task[q].account = task[p].account
        BY <1>2, <2>3 DEF UnderWay, Handled
      <3>2. q \in rivals[p]
        BY <1>1, <3>1 DEF Sound, Rivalry
      <3> HIDE DEF others
      <3>3. rivals'[p] \in {rivals[p], rivals[p] \cup {r}}
        BY <1>3, <2>3
      <3> QED
        BY <3>2, <3>3
    <2> QED
      BY <2>1, <2>2, <2>3
  <1>7. Staleness(p)'
    <2>1. CASE p = r
      BY <1>2, <1>4, <2>1, Codes DEF Staleness, Answered
    <2>2. CASE p # r
      <3>1. Beaten(p) => Beaten(p)'
        BY <1>1, <1>2, <1>3, <2>2, BeatenStays
      <3> QED
        BY <1>1, <1>2, <2>2, <3>1 DEF Sound, Staleness
    <2> QED
      BY <2>1, <2>2
  <1> QED
    BY <1>5, <1>6, <1>7 DEF Sound

\* A request that reads its Sequence reads the one that is expected.
LEMMA FillKeeps ==
    ASSUME ClientInv, NEW r \in Request, Fill(r), NEW p \in Request
    PROVE  Sound(p)'
  <1>1. /\ task \in [Request -> TaskType] /\ rivals \in [Request -> SUBSET Request]
        /\ Sound(p) /\ Sound(r) /\ TypeOK
    BY DEF ClientInv, TypeOK
  <1>2. /\ task[r].step = "fill" /\ next' = next
        /\ applied' = applied /\ held' = held /\ rivals' = rivals
        /\ task'[r].step = "sign" /\ task'[r].account = task[r].account
        /\ task'[r].seq = next[task[r].account]
        /\ task'[r].code = task[r].code /\ task'[r].answer = task[r].answer
        /\ \A q \in Request \ {r} : task'[q] = task[q]
    BY <1>1 DEF Fill, TaskType
  <1>3. r \notin applied \cup held /\ ~Answered(r)
        /\ task[r].account \in Account
    BY <1>1, <1>2 DEF Sound, TaskOK, Kept, Started
  <1>4. TaskOK(p)' /\ Kept(p)' /\ Refused(p)'
    BY <1>1, <1>2, <1>3
       DEF Sound, TaskOK, Kept, Refused, Started, Answered
  <1>5. Rivalry(p)'
    BY <1>1, <1>2 DEF Sound, Rivalry, UnderWay, Handled
  <1>6. Staleness(p)'
    <2>1. CASE p = r
      <3>1. next[task[r].account] \in Int
        BY <1>1, <1>3 DEF TypeOK
      <3> QED
        BY <1>2, <1>3, <2>1, <3>1, Codes DEF Staleness, Answered
    <2>2. CASE p # r
      <3>1. Beaten(p) => Beaten(p)'
        BY <1>1, <1>2, <2>2, BeatenStays
      <3> QED
        BY <1>1, <1>2, <2>2, <3>1 DEF Sound, Staleness
    <2> QED
      BY <2>1, <2>2
  <1> QED
    BY <1>4, <1>5, <1>6 DEF Sound


\* The handler comes to its end, by an exception or with an answer.
LEMMA EndKeeps ==
    ASSUME ClientInv, NEW r \in Request, Throw(r) \/ Respond(r),
           NEW p \in Request
    PROVE  Sound(p)'
  <1>1. /\ task \in [Request -> TaskType] /\ rivals \in [Request -> SUBSET Request]
        /\ Sound(p) /\ Sound(r) /\ TypeOK
    BY DEF ClientInv, TypeOK
  <1>2. /\ Handled(r) /\ next' = next
        /\ applied' = applied /\ held' = held /\ rivals' = rivals
        /\ task'[r].step = "done" /\ task'[r].account = task[r].account
        /\ task'[r].seq = task[r].seq /\ task'[r].code = task[r].code
        /\ \A q \in Request \ {r} : task'[q] = task[q]
    <2>1. PICK answer :
             task' = [task EXCEPT ![r].step = "done", ![r].answer = answer]
      BY DEF Throw, Respond
    <2>2. /\ task'[r].step = "done" /\ task'[r].account = task[r].account
          /\ task'[r].seq = task[r].seq /\ task'[r].code = task[r].code
          /\ \A q \in Request \ {r} : task'[q] = task[q]
      <3>1. task[r] = [step |-> task[r].step, account |-> task[r].account,
                       seq |-> task[r].seq, code |-> task[r].code,
                       answer |-> task[r].answer]
        BY <1>1, TaskFields
      <3> QED
        BY <1>1, <2>1, <3>1
    <2> QED
      BY <2>2 DEF Throw, Respond, Handled
  <1>3. \/ task'[r].answer = "submission failure"
        \/ /\ task[r].step = "wait"
           /\ task'[r].answer = HandleResponse(task[r].code)
    <2>1. PICK answer :
             /\ task' = [task EXCEPT ![r].step = "done", ![r].answer = answer]
             /\ \/ answer = "submission failure"
                \/ task[r].step = "wait" /\ answer = HandleResponse(task[r].code)
      BY DEF Throw, Respond
    <2>2. task'[r].answer = answer
      BY <1>1, <2>1 DEF TaskType
    <2> QED
      BY <2>1, <2>2
  <1>4. Refused(r)'
    <2>1. task[r].step = "wait" => task[r].code \in ResultCode
      BY <1>1 DEF Sound, TaskOK, Answered
    <2> QED
      BY <1>2, <1>3, <2>1, FailuresOfCodes DEF Refused, Answered
  <1>5. TaskOK(p)' /\ Kept(p)' /\ Refused(p)'
    <2>1. task[r].step = "done" => FALSE
      BY <1>2 DEF Handled
    <2> QED
      BY <1>1, <1>2, <1>4, <2>1
         DEF Sound, TaskOK, Kept, Refused, Started, Answered, Handled
  <1>6. Rivalry(p)'
    BY <1>1, <1>2 DEF Sound, Rivalry, UnderWay, Handled
  <1>7. Staleness(p)'
    <2>1. Beaten(p) => Beaten(p)'
      BY <1>1, <1>2, BeatenStays DEF Handled
    <2> QED
      BY <1>1, <1>2, <2>1 DEF Sound, Staleness
  <1> QED
    BY <1>5, <1>6, <1>7 DEF Sound

\* The ledger takes in r: whoever has signed with the same Sequence is its
\* rival, and that Sequence is now used.
LEMMA TakeBeats ==
    ASSUME ClientInv, NEW r \in Request, UnderWay(r), Take(r),
           task[r].step \in {"sign", "wait", "done"},
           task[r].seq = next[task[r].account],
           NEW p \in Request \ {r}, task[p].step = "sign",
           task[p].seq < next'[task[p].account]
    PROVE  Beaten(p)
  <1>1. /\ Sound(p) /\ Sound(r) /\ TypeOK
        /\ task[p].account \in Account /\ task[r].account \in Account
    BY DEF ClientInv, Sound, TaskOK, Started
  <1>2. /\ next[task[p].account] \in Int /\ task[p].seq \in Int
        /\ next'[task[p].account] =
              IF task[p].account = task[r].account
              THEN next[task[p].account] + 1 ELSE next[task[p].account]
    BY <1>1 DEF Take, TypeOK, TaskType
  <1>3. CASE task[p].seq < next[task[p].account]
    BY <1>1, <1>3 DEF Sound, Staleness
  <1>4. CASE ~(task[p].seq < next[task[p].account])
    <2>1. /\ task[p].account = task[r].account
          /\ task[p].seq = next[task[p].account]
      BY <1>2, <1>4
    <2>2. r \in rivals[p]
      BY <1>1, <2>1 DEF Sound, Rivalry, Handled
    <2> QED
      BY <2>1, <2>2 DEF Beaten
  <1> QED
    BY <1>3, <1>4

\* The ledger answers a submission: it takes it, holds it, or refuses it.
LEMMA ReceiveKeeps ==
    ASSUME ClientInv, NEW r \in Request, Receive(r), NEW p \in Request
    PROVE  Sound(p)'
  <1>1. /\ task \in [Request -> TaskType] /\ rivals \in [Request -> SUBSET Request]
        /\ Sound(p) /\ Sound(r) /\ TypeOK
    BY DEF ClientInv, TypeOK
  <1>2. PICK code \in ResultCode :
           /\ task' = [task EXCEPT ![r].step = "wait", ![r].code = code]
           /\ \/ /\ task[r].seq = next[task[r].account]
                 /\ Prefix[code] \in {"tes", "tec"}
                 /\ Take(r) /\ UNCHANGED held
              \/ /\ Prefix[code] = "ter"
                 /\ held' = held \cup {r}
                 /\ UNCHANGED <<next, applied>>
              \/ /\ \/ /\ task[r].seq < next[task[r].account]
                       /\ code = "tefPAST_SEQ"
                    \/ Prefix[code] \in {"tem", "tel"}
                 /\ UNCHANGED <<next, applied, held>>
    BY DEF Receive
  <1>3. /\ task[r].step = "sign" /\ rivals' = rivals
        /\ task'[r].step = "wait" /\ task'[r].account = task[r].account
        /\ task'[r].seq = task[r].seq /\ task'[r].code = code
        /\ task'[r].answer = task[r].answer
        /\ \A q \in Request \ {r} : task'[q] = task[q]
    <2>1. task' = [task EXCEPT ![r].step = "wait", ![r].code = code]
      BY <1>2
    <2>2. task[r].step = "sign" /\ rivals' = rivals
      BY DEF Receive
    <2> QED
      BY <1>1, <2>1, <2>2 DEF TaskType
  <1>4. /\ r \notin applied \cup held
        /\ task[r].answer \notin {"not valid", "submission failed"}
    BY <1>1, <1>3 DEF Sound, Kept, Refused
  <1>5. /\ applied' \cup held' \subseteq applied \cup held \cup {r}
        /\ r \in applied' \cup held' => Prefix[code] \in {"tes", "tec", "ter"}
        /\ held' \subseteq held \cup {r}
    BY <1>2, <1>4 DEF Take
  <1>6. TaskOK(p)' /\ Kept(p)' /\ Refused(p)'
    <2>1. CASE p = r
      <3>1. TaskOK(r)' /\ Refused(r)'
        BY <1>1, <1>3, <1>4 DEF Sound, TaskOK, Refused, Started, Answered
      <3>2. Kept(r)'
        BY <1>2, <1>3, <1>5 DEF Kept, Answered
      <3> QED
        BY <2>1, <3>1, <3>2
    <2>2. CASE p # r
      BY <1>1, <1>3, <1>5, <2>2
         DEF Sound, TaskOK, Kept, Refused, Started, Answered
    <2> QED
      BY <2>1, <2>2
  <1>7. Rivalry(p)'
    BY <1>1, <1>3, <1>5 DEF Sound, Rivalry, UnderWay, Handled
  <1>8. Staleness(p)'
    <2>1. Beaten(p) => Beaten(p)'
      BY <1>1, <1>3, BeatenStays
    <2>2. CASE p = r
      <3>1. code = "tefPAST_SEQ" => task[r].seq < next[task[r].account]
        BY <1>2, StaleCode, Codes
      <3> QED
        BY <1>1, <1>3, <2>1, <2>2, <3>1 DEF Sound, Staleness
    <2>3. CASE p # r /\ next' = next
      BY <1>1, <1>3, <2>1, <2>3 DEF Sound, Staleness
    <2>4. CASE p # r /\ next' # next
      <3>1. Take(r) /\ task[r].seq = next[task[r].account] /\ UnderWay(r)
        BY <1>2, <1>3, <2>4 DEF UnderWay, Handled
      <3>2. task[p].step = "sign" /\ task[p].seq < next'[task[p].account]
               => Beaten(p)
        BY <1>3, <2>4, <3>1, TakeBeats
      <3> QED
        BY <1>1, <1>3, <2>1, <2>4, <3>2 DEF Sound, Staleness
    <2> QED
      BY <2>2, <2>3, <2>4
  <1> QED
    BY <1>6, <1>7, <1>8 DEF Sound


\* A transaction that drops out of the ledger may be taken in again: it is a
\* rival of all that are under way by then.
LEMMA DropKeeps ==
    ASSUME ClientInv, NEW r \in Request, Drop(r), NEW p \in Request
    PROVE  Sound(p)'
  <1>1. /\ task \in [Request -> TaskType] /\ rivals \in [Request -> SUBSET Request]
        /\ Sound(p) /\ Sound(r) /\ TypeOK /\ task' = task
    BY DEF ClientInv, TypeOK, Drop
  <1>2. /\ r \in applied /\ applied' \cup held' = applied \cup held
        /\ held' = held \cup {r}
        /\ \A q \in Request :
              rivals'[q] = IF /\ q # r /\ Handled(q)
                              /\ task[q].account = task[r].account
                           THEN rivals[q] \cup {r} ELSE rivals[q]
    BY DEF Drop
  <1>3. TaskOK(p)' /\ Kept(p)' /\ Refused(p)'
    BY <1>1, <1>2 DEF Sound, TaskOK, Kept, Refused, Started, Answered
  <1>4. Rivalry(p)'
    BY <1>1, <1>2 DEF Sound, Rivalry, UnderWay, Handled
  <1>5. Staleness(p)'
    <2>1. Beaten(p) => Beaten(p)'
      BY <1>1, <1>2, BeatenStays
    <2>2. ASSUME task[p].step = "sign"
          PROVE  next'[task[p].account] <= next[task[p].account]
      <3>1. task[p].account \in Account
        BY <1>1, <2>2 DEF Sound, TaskOK, Started
      <3>2. next[task[p].account] \in Int
        BY <1>1, <3>1 DEF TypeOK
      <3> QED
        BY <1>1, <3>1, <3>2 DEF Drop, TypeOK
    <2>3. ASSUME task[p].step = "sign", task[p].seq < next'[task[p].account]
          PROVE  task[p].seq < next[task[p].account]
      <3>1. task[p].account \in Account /\ task[p].seq \in Int
        BY <1>1, <2>3 DEF Sound, TaskOK, Started, TaskType
      <3>2. next[task[p].account] \in Int /\ next'[task[p].account] \in Int
        BY <1>1, <3>1 DEF TypeOK, Drop
      <3> QED
        BY <2>2, <2>3, <3>1, <3>2
    <2> QED
      BY <1>1, <2>1, <2>3 DEF Sound, Staleness
  <1> QED
    BY <1>3, <1>4, <1>5 DEF Sound

\* The ledger takes in, or gives up, a transaction that it held.
LEMMA HeldKeeps ==
    ASSUME ClientInv, NEW r \in Request, TakeHeld(r) \/ Expire(r),
           NEW p \in Request
    PROVE  Sound(p)'
  <1>1. /\ Sound(p) /\ Sound(r) /\ TypeOK
        /\ task' = task /\ rivals' = rivals
        /\ r \in held /\ held' \subseteq held
        /\ applied' \cup held' \subseteq applied \cup held
    BY DEF ClientInv, TakeHeld, Expire, Take
  <1>2. TaskOK(p)' /\ Kept(p)' /\ Refused(p)'
    BY <1>1 DEF Sound, TaskOK, Kept, Refused, Started, Answered
  <1>3. Rivalry(p)'
    BY <1>1 DEF Sound, Rivalry, UnderWay, Handled
  <1>4. Staleness(p)'
    <2>1. Beaten(p)' <=> Beaten(p)
      BY <1>1 DEF Beaten
    <2>2. CASE next' = next
      BY <1>1, <2>1, <2>2 DEF Sound, Staleness
    <2>3. CASE next' # next
      <3>1. /\ Take(r) /\ task[r].seq = next[task[r].account]
            /\ UnderWay(r) /\ task[r].step \in {"wait", "done"}
        BY <1>1, <2>3 DEF TakeHeld, Expire, UnderWay, Sound, Kept
      <3>2. ASSUME task[p].step = "sign",
                   task[p].seq < next'[task[p].account]
            PROVE  Beaten(p)
        <4>1. p # r
          BY <3>1, <3>2
        <4> QED
          BY <3>1, <3>2, <4>1, TakeBeats
      <3> QED
        BY <1>1, <2>1, <3>2 DEF Sound, Staleness
    <2> QED
      BY <2>2, <2>3
  <1> QED
    BY <1>2, <1>3, <1>4 DEF Sound

\* Every step keeps the invariant.
LEMMA NextClient == ClientInv /\ [Next]_vars => ClientInv'
  <1> SUFFICES ASSUME ClientInv, [Next]_vars PROVE ClientInv'
    OBVIOUS
  <1>1. TypeOK'
    BY TypeStep
  <1>2. ASSUME NEW p \in Request PROVE Sound(p)'
    <2>1. CASE Next
      BY <2>1, StartKeeps, FillKeeps, EndKeeps, ReceiveKeeps, DropKeeps,
         HeldKeeps DEF Next
    <2>2. CASE UNCHANGED vars
      BY <2>2 DEF vars, ClientInv, Sound, TaskOK, Kept, Refused, Rivalry,
                  Staleness, Started, Answered, Handled, UnderWay, Beaten
    <2> QED
      BY <2>1, <2>2
  <1> QED
    BY <1>1, <1>2 DEF ClientInv

-----------------------------------------------------------------------------
(* What it comes to *)

\* What the service knows of every request, and the ledger of its transaction.
THEOREM ClientInvHolds == Spec => []ClientInv
  BY InitClient, NextClient, PTL DEF Spec

\* A request answered "not valid" or "submission failed" never takes effect,
\* however many requests submit for its account meanwhile.
THEOREM FailuresAreFinal == Spec => []FailureIsFinal
  <1>1. ClientInv => FailureIsFinal
    BY DEF ClientInv, Sound, Kept, Refused, FailureIsFinal
  <1> QED
    BY <1>1, ClientInvHolds, PTL

\* No request fails with tefPAST_SEQ but for one that signed with the same
\* Sequence while both were under way.
THEOREM OnlyRivalsMakeStale == Spec => []StaleOnlyByRivals
  <1>1. ClientInv => StaleOnlyByRivals
    BY DEF ClientInv, Sound, Staleness, Beaten, StaleOnlyByRivals
  <1> QED
    BY <1>1, ClientInvHolds, PTL

=============================================================================
