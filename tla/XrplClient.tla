----------------------------- MODULE XrplClient -----------------------------
(***************************************************************************)
(* submitTransaction of XrplService and the answers ClientErrorhandler     *)
(* makes of the ledger's: requests that submit for the same accounts at    *)
(* the same time.  Each reads the Sequence of its account, awaits, and     *)
(* signs with what it read.  The ledger's answer is of the open ledger: a  *)
(* transaction may drop out of it and be taken in again, with another      *)
(* result.  Nothing is submitted twice by the service itself.              *)
(***************************************************************************)
EXTENDS Integers

CONSTANTS
    Request,        \* the requests, each with one transaction
    Account,
    MAX_SEQUENCE    \* bound on the transactions of one account

ASSUME ClientConstants == MAX_SEQUENCE \in Nat

VARIABLES
    next,      \* next[a]: the Sequence that the open ledger expects of a
    applied,   \* the requests whose transaction the open ledger has
    held,      \* those whose transaction it may still take in
    task,      \* task[r]: how far the handler of r is, and what it knows
    rivals     \* rivals[r]: those of the same account, under way with r

vars == <<next, applied, held, task, rivals>>

-----------------------------------------------------------------------------
(* Results of the engine and answers to the client *)

\* formatResultCode
Prefix ==
    [tesSUCCESS |-> "tes", tecHOOK_REJECTED |-> "tec", tecOTHER |-> "tec",
     temMALFORMED |-> "tem", terPRE_SEQ |-> "ter", tefPAST_SEQ |-> "tef",
     telLOCAL |-> "tel"]

ResultCode == DOMAIN Prefix

\* Slip: no branch for ter, which falls to the last one.
HandleResponseWithoutRetry(code) ==
    CASE Prefix[code] = "tes" -> "ok"
      [] Prefix[code] = "tem" -> "not valid"
      [] code = "tecHOOK_REJECTED" -> "rejected by the hook"
      [] code = "tecOTHER" -> "purpose not achieved"
      [] OTHER -> "submission failed"

\* handleResponse: 200, 422, 503, 409, 503, 503.
HandleResponse(code) ==
    CASE Prefix[code] = "tes" -> "ok"
      [] Prefix[code] = "tem" -> "not valid"
      [] Prefix[code] = "ter" -> "retry"
      [] code = "tecHOOK_REJECTED" -> "rejected by the hook"
      [] Prefix[code] = "tec" /\ code # "tecHOOK_REJECTED" ->
            "purpose not achieved"
      [] OTHER -> "submission failed"

NoTask ==
    [step |-> "idle", account |-> CHOOSE a \in Account : TRUE, seq |-> 0,
     code |-> "", answer |-> ""]

Init ==
    /\ next = [a \in Account |-> 1]
    /\ applied = {}
    /\ held = {}
    /\ task = [r \in Request |-> NoTask]
    /\ rivals = [r \in Request |-> {}]

-----------------------------------------------------------------------------
(* submitTransaction *)

Handled(r) == task[r].step \in {"fill", "sign", "wait"}
UnderWay(r) == Handled(r) \/ r \in held

Start(r, a) ==
    LET others == {q \in Request \ {r} : UnderWay(q) /\ task[q].account = a}
    IN  /\ task[r].step = "idle"
        /\ task' = [task EXCEPT ![r].step = "fill", ![r].account = a]
        /\ rivals' = [q \in Request |->
               IF q = r THEN others
               ELSE IF q \in others THEN rivals[q] \cup {r} ELSE rivals[q]]
        /\ UNCHANGED <<next, applied, held>>

\* Slip: an account's values are read once and used for all its transactions.
FillOnce(r) ==
    LET known == {q \in Request : /\ task[q].account = task[r].account
                                  /\ task[q].seq # 0}
    IN  /\ task[r].step = "fill"
        /\ task' = [task EXCEPT ![r].step = "sign",
               ![r].seq = IF known = {} THEN next[task[r].account]
                          ELSE task[CHOOSE q \in known : TRUE].seq]
        /\ UNCHANGED <<next, applied, held, rivals>>

\* fillTxWithAdditionalInfo
Fill(r) ==
    /\ task[r].step = "fill"
    /\ task' = [task EXCEPT ![r].step = "sign",
                            ![r].seq = next[task[r].account]]
    /\ UNCHANGED <<next, applied, held, rivals>>

\* Any await may throw, the last one after the ledger took the transaction.
Throw(r) ==
    /\ Handled(r)
    /\ task' = [task EXCEPT ![r].step = "done",
                            ![r].answer = "submission failure"]
    /\ UNCHANGED <<next, applied, held, rivals>>

Respond(r) ==
    /\ task[r].step = "wait"
    /\ task' = [task EXCEPT ![r].step = "done",
                            ![r].answer = HandleResponse(task[r].code)]
    /\ UNCHANGED <<next, applied, held, rivals>>

-----------------------------------------------------------------------------
(* The ledger *)

Take(r) ==
    /\ next[task[r].account] <= MAX_SEQUENCE
    /\ applied' = applied \cup {r}
    /\ next' = [next EXCEPT ![task[r].account] = @ + 1]

Receive(r) ==
    LET expected == next[task[r].account]
    IN  /\ task[r].step = "sign"
        /\ \E code \in ResultCode :
              /\ task' = [task EXCEPT ![r].step = "wait", ![r].code = code]
              /\ \/ /\ task[r].seq = expected
                    /\ Prefix[code] \in {"tes", "tec"}
                    /\ Take(r)
                    /\ UNCHANGED held
                 \/ /\ task[r].seq >= expected
                    /\ Prefix[code] = "ter"
                    /\ held' = held \cup {r}
                    /\ UNCHANGED <<next, applied>>
                 \/ /\ \/ task[r].seq < expected /\ code = "tefPAST_SEQ"
                       \/ Prefix[code] \in {"tem", "tel"}
                    /\ UNCHANGED <<next, applied, held>>
        /\ UNCHANGED rivals

\* The open ledger is built anew, without the account's last transaction.
Drop(r) ==
    /\ r \in applied
    /\ next[task[r].account] = task[r].seq + 1
    /\ applied' = applied \ {r}
    /\ held' = held \cup {r}
    /\ next' = [next EXCEPT ![task[r].account] = @ - 1]
    /\ rivals' = [q \in Request |->
           IF q # r /\ Handled(q) /\ task[q].account = task[r].account
           THEN rivals[q] \cup {r} ELSE rivals[q]]
    /\ UNCHANGED task

TakeHeld(r) ==
    /\ r \in held
    /\ task[r].seq = next[task[r].account]
    /\ held' = held \ {r}
    /\ Take(r)
    /\ UNCHANGED <<task, rivals>>

Expire(r) ==
    /\ r \in held
    /\ held' = held \ {r}
    /\ UNCHANGED <<next, applied, task, rivals>>

Next ==
    \E r \in Request :
        \/ \E a \in Account : Start(r, a)
        \/ Fill(r) \/ Throw(r) \/ Respond(r)
        \/ Receive(r) \/ Drop(r) \/ TakeHeld(r) \/ Expire(r)

Spec == Init /\ [][Next]_vars

-----------------------------------------------------------------------------
(* Properties *)

\* A client that is told "not valid" or "submission failed" may send the
\* request again: its transaction has no effect, then or later.  The other
\* refusals do not say so: one that the service could not submit, or that
\* should be retried, may still be taken in.
FailureIsFinal ==
    \A r \in Request :
        task[r].answer \in {"not valid", "submission failed"} =>
            r \notin applied \cup held

\* A request fails with a Sequence already used only for a rival's sake: one
\* of the same account that signed with the same Sequence, at the same time
\* or while the ledger still held it.  One after the other they all fit.
StaleOnlyByRivals ==
    \A r \in Request :
        task[r].code = "tefPAST_SEQ" =>
            \E q \in rivals[r] : task[q].seq = task[r].seq
=============================================================================
