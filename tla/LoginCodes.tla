----------------------------- MODULE LoginCodes -----------------------------
(***************************************************************************)
(* Logging in with the code of an SMS: the rows of phone_login_codes of    *)
(* one phone, the row of users with that phone, and the requests that      *)
(* create a code or try one.  Each request is a worker thread with a       *)
(* transaction of its own (READ COMMITTED): every statement reads what is  *)
(* committed, and its own writes become visible when it commits.           *)
(*                                                                         *)
(* Both endpoints begin by deleting the rows that are consumed or expired; *)
(* a row deleted by a transaction that is still open is locked, and who    *)
(* wants to change it waits.                                               *)
(***************************************************************************)
EXTENDS Naturals, FiniteSets

CONSTANTS
    Code,          \* the codes that may be created, each with its token
    Worker,        \* the threads, each of which serves one request
    MaxAttempts,   \* login_code_max_attempts
    None           \* no row

VARIABLES
    row,       \* phone_login_codes: each code's row, or None
    user,      \* users has a row with this phone
    expired,   \* the codes whose time is over
    task,      \* where each request is
    answered,  \* history: the codes whose token the client was given
    wrong,     \* history: how many guesses at each code were answered as wrong
    spent,     \* history: the codes a right guess has used up
    logins,    \* history: how many requests were let in with each code
    raced      \* history: codes tried by a request after another had read the
               \* same row and before that one wrote it

history == <<answered, wrong, spent, logins, raced>>
vars == <<row, user, expired, task, history>>

Row == [attempts : Nat, consumed : BOOLEAN]

ASSUME CodesAssumption ==
    /\ MaxAttempts \in Nat \ {0}
    /\ None \notin Row

\* A request: what it has done, the rows its transaction has deleted, the code it
\* tries, whether the guess is right, the attempts it read, and whether the code
\* had been used up before it began.
Task == [at : {"new", "creating", "verifying", "wrong", "right", "unknown", "known", "issuing", "done"},
         deletes : SUBSET Code, code : Code \union {None}, right : BOOLEAN,
         attempts : Nat, late : BOOLEAN]

\* A request that is not under way.
Idle(at) == [at |-> at, deletes |-> {}, code |-> None, right |-> FALSE,
             attempts |-> 0, late |-> FALSE]

TypeOK ==
    /\ row \in [Code -> Row \union {None}]
    /\ user \in BOOLEAN /\ expired \subseteq Code
    /\ task \in [Worker -> Task]
    /\ answered \subseteq Code /\ spent \subseteq Code /\ raced \subseteq Code
    /\ wrong \in [Code -> Nat] /\ logins \in [Code -> Nat]
    /\ \A k \in Code : row[k] # None /\ row[k].consumed => user

Init ==
    /\ row = [k \in Code |-> None]
    /\ user \in BOOLEAN /\ expired = {}
    /\ task = [r \in Worker |-> Idle("new")]
    /\ answered = {} /\ spent = {} /\ raced = {}
    /\ wrong = [k \in Code |-> 0] /\ logins = [k \in Code |-> 0]

-----------------------------------------------------------------------------
(* Transactions.                                                           *)

At(r, at) == task[r].at = at

LockedByOther(r) == UNION {task[q].deletes : q \in Worker \ {r}}

\* _cleanup_phone_codes: what is consumed or expired.
Cleanup == {k \in Code : row[k] # None /\ (row[k].consumed \/ k \in expired)}

\* The rows after the commit of a request.
Kept(r) == [k \in Code |-> IF k \in task[r].deletes THEN None ELSE row[k]]

\* A transaction is over, and the request: its locks go.
Ended(r) == task' = [task EXCEPT ![r] = Idle("done")]

\* The process dies or a statement fails: everything is rolled back.
Fails(r) ==
    /\ task[r].at \notin {"new", "done"}
    /\ Ended(r)
    /\ UNCHANGED <<row, user, expired, history>>

\* The time of a code is over.
Expire(k) ==
    /\ k \in answered \ expired
    /\ expired' = expired \union {k}
    /\ UNCHANGED <<row, user, task, history>>

-----------------------------------------------------------------------------
(* request_phone_login_code.                                               *)

RequestCode(r) ==
    /\ At(r, "new") /\ Cleanup \intersect LockedByOther(r) = {}
    /\ task' = [task EXCEPT ![r] = [@ EXCEPT !.at = "creating", !.deletes = Cleanup]]
    /\ UNCHANGED <<row, user, expired, history>>

\* The SMS is sent and the row is committed; if sending fails, nothing is.
CodeSent(r, k) ==
    /\ At(r, "creating") /\ k \notin answered
    /\ row' = [Kept(r) EXCEPT ![k] = [attempts |-> 0, consumed |-> FALSE]]
    /\ answered' = answered \union {k}
    /\ Ended(r)
    /\ UNCHANGED <<user, expired, wrong, spent, logins, raced>>

-----------------------------------------------------------------------------
(* verify_phone_login_code.                                                *)

Verify(r, k, right) ==
    /\ At(r, "new") /\ k \in answered /\ Cleanup \intersect LockedByOther(r) = {}
    /\ task' = [task EXCEPT ![r] =
          [@ EXCEPT !.at = "verifying", !.deletes = Cleanup, !.code = k, !.right = right,
                    !.late = k \in spent]]
    /\ UNCHANGED <<row, user, expired, history>>

\* Mutant of Usable: one attempt too many.
UsableOnceMore(r) ==
    LET k == task[r].code IN
    /\ row[k] # None /\ k \notin task[r].deletes
    /\ k \notin expired /\ ~row[k].consumed
    /\ row[k].attempts <= MaxAttempts

\* The code is there for this transaction and good for another attempt.
Usable(r) ==
    LET k == task[r].code IN
    /\ row[k] # None /\ k \notin task[r].deletes
    /\ k \notin expired /\ ~row[k].consumed
    /\ row[k].attempts < MaxAttempts

\* The row is read: the guess is refused, or found wrong or right.
ReadCode(r) ==
    /\ At(r, "verifying")
    /\ IF Usable(r)
       THEN task' = [task EXCEPT ![r] =
               [@ EXCEPT !.at = IF task[r].right THEN "right" ELSE "wrong",
                         !.attempts = row[task[r].code].attempts]]
       ELSE Ended(r)
    /\ UNCHANGED <<row, user, expired, history>>

\* The write of its row has waited for the others' deletes.  If one of them was
\* committed there is no row to write, and the request fails.
Writes(r) ==
    /\ task[r].code \notin LockedByOther(r)
    /\ row[task[r].code] # None
    /\ raced' = raced \union
         {k \in {task[r].code} : \E q \in Worker \ {r} :
             task[q].code = k /\ task[q].at \in {"wrong", "right", "unknown", "known"}}

\* A wrong guess is counted from the attempts that were read, and the deletes are
\* committed with it.
Count(r) ==
    /\ At(r, "wrong") /\ Writes(r)
    /\ row' = [Kept(r) EXCEPT ![task[r].code].attempts = task[r].attempts + 1]
    /\ wrong' = [wrong EXCEPT ![task[r].code] = @ + 1]
    /\ Ended(r)
    /\ UNCHANGED <<user, expired, answered, spent, logins>>

ReadUser(r) ==
    /\ At(r, "right")
    /\ task' = [task EXCEPT ![r].at = IF user THEN "known" ELSE "unknown"]
    /\ UNCHANGED <<row, user, expired, history>>

\* Mutant of Consume: the code is not marked.
ConsumeNot(r) ==
    /\ task[r].at \in {"unknown", "known"} /\ Writes(r)
    /\ At(r, "unknown") => ~user
    /\ row' = Kept(r)
    /\ user' = TRUE
    /\ spent' = spent \union {task[r].code}
    /\ task' = [task EXCEPT ![r] = [@ EXCEPT !.at = "issuing", !.deletes = {}]]
    /\ UNCHANGED <<expired, answered, wrong, logins>>

\* Mutant of Consume: the user is not added.
ConsumeNoUser(r) ==
    /\ task[r].at \in {"unknown", "known"} /\ Writes(r)
    /\ row' = [Kept(r) EXCEPT ![task[r].code].consumed = TRUE]
    /\ spent' = spent \union {task[r].code}
    /\ task' = [task EXCEPT ![r] = [@ EXCEPT !.at = "issuing", !.deletes = {}]]
    /\ UNCHANGED <<user, expired, answered, wrong, logins>>

\* Mutant of Consume: the mark is committed although the insert of the user fails.
ConsumeFirst(r) ==
    /\ task[r].at \in {"unknown", "known"} /\ Writes(r)
    /\ row' = [Kept(r) EXCEPT ![task[r].code].consumed = TRUE]
    /\ user' = TRUE
    /\ spent' = IF At(r, "unknown") /\ user THEN spent ELSE spent \union {task[r].code}
    /\ IF At(r, "unknown") /\ user
       THEN Ended(r)
       ELSE task' = [task EXCEPT ![r] = [@ EXCEPT !.at = "issuing", !.deletes = {}]]
    /\ UNCHANGED <<expired, answered, wrong, logins>>

\* The code is marked and the user made if there was none, in one commit, which
\* fails if another request has made him in between: the phone is unique.
Consume(r) ==
    /\ task[r].at \in {"unknown", "known"} /\ Writes(r)
    /\ At(r, "unknown") => ~user
    /\ row' = [Kept(r) EXCEPT ![task[r].code].consumed = TRUE]
    /\ user' = TRUE
    /\ spent' = spent \union {task[r].code}
    /\ task' = [task EXCEPT ![r] = [@ EXCEPT !.at = "issuing", !.deletes = {}]]
    /\ UNCHANGED <<expired, answered, wrong, logins>>

\* build_token_response, in a transaction of its own: the request is let in.  If
\* this one fails the code stays used and nobody was let in.
Issue(r) ==
    /\ At(r, "issuing")
    /\ logins' = [logins EXCEPT ![task[r].code] = @ + 1]
    /\ Ended(r)
    /\ UNCHANGED <<row, user, expired, answered, wrong, spent, raced>>

Next ==
    \/ \E k \in Code : Expire(k)
    \/ \E r \in Worker :
       \/ Fails(r) \/ RequestCode(r) \/ ReadCode(r) \/ Count(r) \/ ReadUser(r)
       \/ Consume(r) \/ Issue(r)
       \/ \E k \in Code : CodeSent(r, k)
       \/ \E k \in Code, right \in BOOLEAN : Verify(r, k, right)

Spec == Init /\ [][Next]_vars

-----------------------------------------------------------------------------
(* Properties.                                                             *)

\* A code takes MaxAttempts wrong guesses and no more, unless two requests tried it
\* at once and one of the two increments was lost.
AttemptsRespected ==
    \A k \in Code \ raced : wrong[k] <= MaxAttempts

\* A request that began after a code had been used up is not let in with it, even
\* if others raced; and if none did, the code lets only one request in.
CodeWorksOnce ==
    /\ \A r \in Worker : task[r].late => ~At(r, "issuing")
    /\ \A k \in Code \ raced : logins[k] <= 1

\* Until a code expires, only a request that guessed it right and committed the
\* user with it uses it up: no cleanup, no wrong or refused guess, no request that
\* failed before that commit and no user made by another request takes it away.
\* (A request that fails after that commit has used it up for nothing.)
UnusedStays ==
    \A k \in answered \ (expired \union spent) : row[k] # None /\ ~row[k].consumed
=============================================================================
