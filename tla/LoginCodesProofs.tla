--------------------------- MODULE LoginCodesProofs ---------------------------
(***************************************************************************)
(* Proofs about LoginCodes, for any number of codes, requests and attempts. *)
(***************************************************************************)
EXTENDS LoginCodes, TLAPS

\* The places of a request that has read its row and may still write it.
Trying == {"wrong", "right", "unknown", "known"}

\* Nothing is known of a code that was not sent.
Unsent == \A k \in Code \ answered : row[k] = None /\ wrong[k] = 0 /\ k \notin spent

\* A request tries a code that was sent, not one its own cleanup has deleted.
Tries ==
    \A r \in Worker :
        /\ task[r].at \in Trying \union {"verifying", "issuing"} => task[r].code \in answered
        /\ task[r].at \in Trying => task[r].code \notin task[r].deletes
        /\ At(r, "wrong") => task[r].attempts < MaxAttempts

\* The cleanups delete what is expired or used.
Deletes == \A r \in Worker : \A k \in task[r].deletes : k \in expired \/ k \in spent

\* The mark of a row says whether its code has been used up.
Marked ==
    \A k \in Code :
        /\ k \in spent => row[k] = None \/ row[k].consumed
        /\ row[k] # None /\ row[k].consumed => k \in spent

\* Without a race the row counts every wrong guess, and what a request has read
\* is still there when it writes.
Counted == \A k \in Code \ raced : row[k] # None => wrong[k] = row[k].attempts

Current ==
    \A r \in Worker :
        task[r].at \in Trying /\ task[r].code \notin raced /\ row[task[r].code] # None =>
            /\ task[r].attempts = row[task[r].code].attempts
            /\ ~row[task[r].code].consumed

\* A request that came late gets no further than its read.
LateStops == \A r \in Worker : task[r].late => At(r, "verifying") /\ task[r].code \in spent

\* A code that nobody used up let nobody in, and without a race there is one request
\* at most that it is about to let in, and none was before.
Issuing ==
    /\ \A k \in Code \ spent : logins[k] = 0
    /\ \A r \in Worker : At(r, "issuing") =>
          /\ task[r].code \in spent
          /\ task[r].code \notin raced =>
                /\ logins[task[r].code] = 0
                /\ \A q \in Worker \ {r} :
                      ~(At(q, "issuing") /\ task[q].code = task[r].code)

IInv ==
    /\ TypeOK
    /\ Unsent /\ Tries /\ Deletes /\ Marked /\ Counted /\ Current /\ LateStops /\ Issuing
    /\ AttemptsRespected /\ CodeWorksOnce /\ UnusedStays

-----------------------------------------------------------------------------
(* Every action preserves IInv.                                            *)

LEMMA InitIInv == Init => IInv
<1>. SUFFICES ASSUME Init PROVE IInv
  OBVIOUS
<1>. USE CodesAssumption DEF Init, Idle
<1>1. TypeOK
  BY DEF TypeOK, Task, Row
<1>2. Unsent /\ Tries /\ Deletes /\ Marked /\ Counted /\ Current /\ LateStops /\ Issuing
  BY DEF Unsent, Tries, Deletes, Marked, Counted, Current, LateStops, Issuing, Trying, At
<1>3. AttemptsRespected /\ CodeWorksOnce /\ UnusedStays
  BY DEF AttemptsRespected, CodeWorksOnce, UnusedStays, At
<1>. QED  BY <1>1, <1>2, <1>3 DEF IInv

\* A step that moves one request and writes no row preserves everything that is
\* said of codes.  What it must show is what it claims of the request.
LEMMA TaskStep ==
    ASSUME IInv, NEW r \in Worker, NEW new \in Task,
           task' = [task EXCEPT ![r] = new],
           UNCHANGED <<row, user, expired, history>>,
           new.at # "issuing",
           new.at \in Trying \union {"verifying"} => new.code \in answered,
           new.at \in Trying => new.code \notin new.deletes,
           new.at = "wrong" => new.attempts < MaxAttempts,
           \A k \in new.deletes : k \in expired \/ k \in spent,
           new.at \in Trying /\ new.code \notin raced /\ row[new.code] # None =>
               new.attempts = row[new.code].attempts /\ ~row[new.code].consumed,
           new.late => new.at = "verifying" /\ new.code \in spent
    PROVE  IInv'
<1>. USE DEF IInv, history
<1>1. /\ task' \in [Worker -> Task] /\ task'[r] = new
      /\ \A q \in Worker \ {r} : task'[q] = task[q]
  BY DEF TypeOK
<1>2. TypeOK'
  BY <1>1 DEF TypeOK
<1>3. (Unsent /\ Marked /\ Counted /\ AttemptsRespected /\ UnusedStays)'
  BY DEF Unsent, Marked, Counted, AttemptsRespected, UnusedStays
<1>4. (Tries /\ Deletes /\ Current /\ LateStops)'
  BY <1>1 DEF Tries, Deletes, Current, LateStops, At
<1>6. Issuing'
  BY <1>1 DEF Issuing, At
<1>5. CodeWorksOnce'
  BY <1>1 DEF CodeWorksOnce, At
<1>. QED  BY <1>2, <1>3, <1>4, <1>5, <1>6

LEMMA IdleTask == Idle("done") \in Task
  BY DEF Idle, Task

\* Rolling back, and the end of a request whose answer needs no write.
LEMMA EndStep ==
    ASSUME IInv, NEW r \in Worker, Ended(r), UNCHANGED <<row, user, expired, history>>
    PROVE  IInv'
<1>1. /\ Idle("done").at = "done" /\ Idle("done").deletes = {} /\ ~Idle("done").late
  BY DEF Idle
<1>. QED  BY <1>1, IdleTask, TaskStep DEF Ended, Trying

LEMMA ExpireStep == ASSUME IInv, NEW k \in Code, Expire(k) PROVE IInv'
<1>. USE DEF IInv, Expire, history
<1>1. TypeOK'
  BY DEF TypeOK
<1>2. (Unsent /\ Tries /\ Marked /\ Counted /\ Current /\ LateStops)'
  BY DEF Unsent, Tries, Marked, Counted, Current, LateStops, At
<1>3. Deletes' /\ UnusedStays'
  BY DEF Deletes, UnusedStays
<1>4. AttemptsRespected' /\ CodeWorksOnce' /\ Issuing'
  BY DEF AttemptsRespected, CodeWorksOnce, Issuing, At
<1>. QED  BY <1>1, <1>2, <1>3, <1>4

LEMMA CleanupDeletes ==
    ASSUME IInv
    PROVE  Cleanup \subseteq Code /\ \A k \in Cleanup : k \in expired \/ k \in spent
  BY DEF IInv, Cleanup, Marked

LEMMA RequestStep == ASSUME IInv, NEW r \in Worker, RequestCode(r) PROVE IInv'
<1>. DEFINE new == [task[r] EXCEPT !.at = "creating", !.deletes = Cleanup]
<1>1. task[r] \in Task /\ At(r, "new")
  BY DEF IInv, TypeOK, RequestCode
<1>2. /\ new \in Task /\ new.at = "creating" /\ new.deletes = Cleanup
      /\ new.late = task[r].late
  BY <1>1, CleanupDeletes DEF Task
<1>3. ~new.late
  BY <1>1, <1>2 DEF IInv, LateStops, At
<1>4. task' = [task EXCEPT ![r] = new]
  BY DEF RequestCode, IInv, TypeOK
<1>5. UNCHANGED <<row, user, expired, history>>
  BY DEF RequestCode
<1>. HIDE DEF new
<1>. QED  BY <1>2, <1>3, <1>4, <1>5, CleanupDeletes, TaskStep DEF Trying

LEMMA VerifyStep ==
    ASSUME IInv, NEW r \in Worker, NEW k \in Code, NEW right \in BOOLEAN, Verify(r, k, right)
    PROVE  IInv'
<1>. DEFINE late == k \in spent
            new == [task[r] EXCEPT !.at = "verifying", !.deletes = Cleanup, !.code = k,
                                   !.right = right, !.late = late]
<1>1. task[r] \in Task /\ k \in answered /\ late \in BOOLEAN
  BY DEF IInv, TypeOK, Verify
<1>4. task' = [task EXCEPT ![r] = new]
  BY DEF Verify, IInv, TypeOK
<1>. HIDE DEF late
<1>2. /\ new \in Task /\ new.at = "verifying" /\ new.deletes = Cleanup
      /\ new.code = k /\ new.late = late
  BY <1>1, CleanupDeletes DEF Task
<1>6. late => k \in spent
  BY DEF late
<1>5. UNCHANGED <<row, user, expired, history>>
  BY DEF Verify
<1>. HIDE DEF new
<1>. QED  BY <1>1, <1>2, <1>4, <1>5, <1>6, CleanupDeletes, TaskStep DEF Trying

LEMMA ReadCodeStep == ASSUME IInv, NEW r \in Worker, ReadCode(r) PROVE IInv'
<1>. USE DEF IInv
<1>1. CASE ~Usable(r)
  BY <1>1, EndStep DEF ReadCode
<1>2. CASE Usable(r)
  <2>. DEFINE k == task[r].code
              new == [task[r] EXCEPT !.at = IF task[r].right THEN "right" ELSE "wrong",
                                     !.attempts = row[task[r].code].attempts]
  <2>1. task[r] \in Task /\ At(r, "verifying") /\ k \in answered /\ k \in Code
    BY DEF TypeOK, ReadCode, Tries, At
  <2>2. /\ row[k] \in Row /\ ~row[k].consumed /\ row[k].attempts < MaxAttempts
        /\ k \notin task[r].deletes /\ row[k] # None
    BY <1>2, <2>1 DEF Usable, TypeOK
  <2>3. /\ new \in Task /\ new.at \in {"right", "wrong"} /\ new.code = k
        /\ new.deletes = task[r].deletes /\ new.attempts = row[k].attempts
        /\ new.late = task[r].late
    BY <2>1, <2>2 DEF Task, Row
  <2>4. ~new.late
    BY <2>1, <2>2, <2>3 DEF LateStops, Marked
  <2>5. task' = [task EXCEPT ![r] = new] /\ UNCHANGED <<row, user, expired, history>>
    BY <1>2 DEF ReadCode, TypeOK
  <2>6. \A c \in new.deletes : c \in expired \/ c \in spent
    BY <2>3 DEF Deletes
  <2>. HIDE DEF new, k
  <2>7. new.at \in Trying \union {"verifying"} => new.code \in answered
    BY <2>1, <2>3
  <2>8. new.code \notin new.deletes /\ new.attempts < MaxAttempts
    BY <2>2, <2>3
  <2>. QED  BY <2>2, <2>3, <2>4, <2>5, <2>6, <2>7, <2>8, TaskStep
<1>. QED  BY <1>1, <1>2

LEMMA ReadUserStep == ASSUME IInv, NEW r \in Worker, ReadUser(r) PROVE IInv'
<1>. USE DEF IInv
<1>. DEFINE new == [task[r] EXCEPT !.at = IF user THEN "known" ELSE "unknown"]
<1>1. task[r] \in Task /\ At(r, "right")
  BY DEF TypeOK, ReadUser
<1>2. /\ new \in Task /\ new.at \in {"known", "unknown"} /\ new.code = task[r].code
      /\ new.deletes = task[r].deletes /\ new.attempts = task[r].attempts
      /\ new.late = task[r].late
  BY <1>1 DEF Task
<1>3. task' = [task EXCEPT ![r] = new] /\ UNCHANGED <<row, user, expired, history>>
  BY DEF ReadUser, TypeOK
<1>4. /\ task[r].code \in answered /\ task[r].code \notin task[r].deletes
      /\ \A c \in task[r].deletes : c \in expired \/ c \in spent
      /\ ~task[r].late
  BY <1>1 DEF Tries, Deletes, LateStops, At, Trying
<1>5. task[r].code \notin raced /\ row[task[r].code] # None =>
          /\ task[r].attempts = row[task[r].code].attempts
          /\ ~row[task[r].code].consumed
  BY <1>1 DEF Current, At, Trying
<1>. HIDE DEF new
<1>. QED  BY <1>2, <1>3, <1>4, <1>5, TaskStep

\* What a commit leaves of the rows: those the request deleted are gone.
LEMMA KeptRows ==
    ASSUME IInv, NEW r \in Worker
    PROVE  /\ Kept(r) \in [Code -> Row \union {None}]
           /\ \A k \in Code : k \notin task[r].deletes => Kept(r)[k] = row[k]
           /\ \A k \in task[r].deletes : Kept(r)[k] = None
           /\ \A k \in Code : Kept(r)[k] # None => Kept(r)[k] = row[k]
  BY DEF IInv, TypeOK, Kept, Task

LEMMA EndedTask ==
    ASSUME IInv, NEW r \in Worker, Ended(r)
    PROVE  /\ task' \in [Worker -> Task]
           /\ task'[r].at = "done" /\ task'[r].deletes = {} /\ ~task'[r].late
           /\ \A q \in Worker \ {r} : task'[q] = task[q]
<1>1. task' = [task EXCEPT ![r] = Idle("done")] /\ task \in [Worker -> Task]
  BY DEF Ended, IInv, TypeOK
<1>2. Idle("done").at = "done" /\ Idle("done").deletes = {} /\ ~Idle("done").late
  BY DEF Idle
<1>. QED  BY <1>1, <1>2, IdleTask

LEMMA CodeSentStep ==
    ASSUME IInv, NEW r \in Worker, NEW k \in Code, CodeSent(r, k)
    PROVE  IInv'
<1>. USE DEF IInv
<1>. DEFINE new == [attempts |-> 0, consumed |-> FALSE]
<1>1. /\ k \notin answered /\ answered' = answered \union {k} /\ Ended(r)
      /\ UNCHANGED <<user, expired, wrong, spent, logins, raced>>
  BY DEF CodeSent
<1>2. /\ row' \in [Code -> Row \union {None}] /\ row'[k] = new
      /\ \A c \in Code \ {k} : row'[c] = Kept(r)[c]
      /\ new \in Row /\ new.attempts = 0 /\ ~new.consumed
  BY KeptRows DEF CodeSent, Row
<1>. HIDE DEF new
<1>3. /\ task' \in [Worker -> Task]
      /\ task'[r].at = "done" /\ task'[r].deletes = {} /\ ~task'[r].late
      /\ \A q \in Worker \ {r} : task'[q] = task[q]
  BY <1>1, EndedTask
<1>4. row[k] = None /\ wrong[k] = 0 /\ k \notin spent
  BY <1>1 DEF Unsent
<1>5. TypeOK'
  BY <1>1, <1>2, <1>3, KeptRows DEF TypeOK
<1>6. Unsent'
  <2>1. \A c \in Code \ answered : Kept(r)[c] = None
    BY KeptRows DEF Unsent
  <2>. QED  BY <1>1, <1>2, <2>1 DEF Unsent
<1>7. Tries' /\ Deletes' /\ LateStops'
  BY <1>1, <1>3 DEF Tries, Deletes, LateStops, At, Trying
<1>8. Marked' /\ Counted'
  BY <1>1, <1>2, <1>4, KeptRows, CodesAssumption DEF Marked, Counted
<1>9. Current'
  <2>1. \A q \in Worker : task[q].at \in Trying => task[q].code \in answered /\ task[q].code # k
    BY <1>1 DEF Tries
  <2>2. answered \subseteq Code
    BY DEF TypeOK
  <2>. QED  BY <1>1, <1>2, <1>3, <2>1, <2>2, KeptRows DEF Current, Trying
<1>10. AttemptsRespected' /\ CodeWorksOnce' /\ Issuing'
  BY <1>1, <1>3 DEF AttemptsRespected, CodeWorksOnce, Issuing, At
<1>11. UnusedStays'
  BY <1>1, <1>2, KeptRows, CodesAssumption DEF UnusedStays, Deletes, TypeOK
<1>. QED  BY <1>5, <1>6, <1>7, <1>8, <1>9, <1>10, <1>11

\* The row a request writes; whoever else has read it makes it a raced one.
LEMMA WriteFacts ==
    ASSUME IInv, NEW r \in Worker, task[r].at \in Trying, Writes(r)
    PROVE  /\ task[r].code \in Code /\ task[r].code \in answered
           /\ row[task[r].code] \in Row /\ row[task[r].code] # None
           /\ Kept(r)[task[r].code] = row[task[r].code]
           /\ raced' \subseteq Code /\ raced \subseteq raced'
           /\ task[r].code \notin raced' =>
                 \A q \in Worker \ {r} :
                    ~(task[q].at \in Trying /\ task[q].code = task[r].code)
<1>. USE DEF IInv
<1>1. task[r].code \in Code /\ task[r].code \in answered /\ task[r].code \notin task[r].deletes
  BY DEF TypeOK, Tries
<1>2. row[task[r].code] # None /\ row[task[r].code] \in Row
  BY <1>1 DEF Writes, TypeOK
<1>3. Kept(r)[task[r].code] = row[task[r].code]
  BY <1>1, KeptRows
<1>4. raced' \subseteq Code /\ raced \subseteq raced'
  BY <1>1 DEF Writes, TypeOK
<1>5. task[r].code \notin raced' =>
          \A q \in Worker \ {r} : ~(task[q].at \in Trying /\ task[q].code = task[r].code)
  BY DEF Writes, Trying
<1>. QED  BY <1>1, <1>2, <1>3, <1>4, <1>5

LEMMA CountStep == ASSUME IInv, NEW r \in Worker, Count(r) PROVE IInv'
<1>. USE DEF IInv
<1>. DEFINE k == task[r].code
            new == [row[k] EXCEPT !.attempts = task[r].attempts + 1]
<1>1. /\ At(r, "wrong") /\ task[r].at \in Trying /\ Writes(r) /\ Ended(r)
      /\ UNCHANGED <<user, expired, answered, spent, logins>>
  BY DEF Count, At, Trying
<1>2. /\ k \in Code /\ k \in answered /\ row[k] \in Row /\ row[k] # None
      /\ Kept(r)[k] = row[k] /\ raced' \subseteq Code /\ raced \subseteq raced'
      /\ k \notin raced' => \A q \in Worker \ {r} : ~(task[q].at \in Trying /\ task[q].code = k)
  BY <1>1, WriteFacts
<1>3. task[r].attempts \in Nat /\ task[r].attempts < MaxAttempts
  BY <1>1 DEF TypeOK, Task, Tries
<1>4. /\ row' \in [Code -> Row \union {None}] /\ row'[k] = new
      /\ \A c \in Code \ {k} : row'[c] = Kept(r)[c]
      /\ new \in Row /\ new.attempts = task[r].attempts + 1
      /\ new.consumed = row[k].consumed
  <2>1. new \in Row /\ new.attempts = task[r].attempts + 1 /\ new.consumed = row[k].consumed
    BY <1>2, <1>3 DEF Row
  <2>2. row' = [Kept(r) EXCEPT ![k] = new]
    BY <1>2 DEF Count
  <2>. QED  BY <1>2, <2>1, <2>2, KeptRows
<1>5. /\ wrong' \in [Code -> Nat] /\ wrong'[k] = wrong[k] + 1
      /\ \A c \in Code \ {k} : wrong'[c] = wrong[c]
  BY <1>2 DEF Count, TypeOK
<1>6. k \notin raced => task[r].attempts = row[k].attempts /\ wrong[k] = row[k].attempts
  BY <1>1, <1>2 DEF Current, Counted
<1>7. /\ task' \in [Worker -> Task]
      /\ task'[r].at = "done" /\ task'[r].deletes = {} /\ ~task'[r].late
      /\ \A q \in Worker \ {r} : task'[q] = task[q]
  BY <1>1, EndedTask
<1>. HIDE DEF k, new
<1>8. TypeOK'
  BY <1>1, <1>2, <1>4, <1>5, <1>7, KeptRows DEF TypeOK
<1>9. Unsent'
  <2>1. \A c \in Code \ answered : Kept(r)[c] = None /\ c # k
    BY <1>2, KeptRows DEF Unsent
  <2>. QED  BY <1>1, <1>4, <1>5, <2>1 DEF Unsent
<1>10. Tries' /\ Deletes' /\ LateStops'
  BY <1>1, <1>7 DEF Tries, Deletes, LateStops, At, Trying
<1>11. Marked' /\ Counted'
  BY <1>1, <1>2, <1>4, <1>5, <1>6, KeptRows, CodesAssumption DEF Marked, Counted
<1>12. Current'
  <2>1. \A q \in Worker : task[q].at \in Trying => task[q].code \in Code
    BY DEF Tries, TypeOK
  <2>2. SUFFICES ASSUME NEW q \in Worker \ {r}, task[q].at \in Trying,
                        task[q].code \notin raced', row'[task[q].code] # None
                 PROVE  /\ task[q].attempts = row'[task[q].code].attempts
                        /\ ~row'[task[q].code].consumed
    BY <1>7 DEF Current, Trying
  <2>3. task[q].code \in Code \ {k}
    BY <1>2, <2>1, <2>2
  <2>4. row'[task[q].code] = row[task[q].code]
    BY <1>4, <2>2, <2>3, KeptRows
  <2>. QED  BY <1>2, <2>2, <2>4 DEF Current
<1>13. AttemptsRespected'
  <2>1. k \notin raced => wrong'[k] <= MaxAttempts
    BY <1>3, <1>5, <1>6, CodesAssumption
  <2>. QED  BY <1>2, <1>5, <2>1 DEF AttemptsRespected
<1>14. CodeWorksOnce' /\ Issuing'
  BY <1>1, <1>2, <1>7 DEF CodeWorksOnce, Issuing, At
<1>15. UnusedStays'
  <2>1. SUFFICES ASSUME NEW c \in answered \ expired, c \notin spent
                 PROVE  row'[c] # None /\ ~row'[c].consumed
    BY <1>1 DEF UnusedStays
  <2>2. c \in Code /\ row[c] # None /\ ~row[c].consumed /\ c \notin task[r].deletes
    BY <2>1 DEF TypeOK, UnusedStays, Deletes
  <2>. QED  BY <1>4, <2>2, KeptRows, CodesAssumption
<1>. QED  BY <1>8, <1>9, <1>10, <1>11, <1>12, <1>13, <1>14, <1>15

LEMMA ConsumeStep == ASSUME IInv, NEW r \in Worker, Consume(r) PROVE IInv'
<1>. USE DEF IInv
<1>. DEFINE k == task[r].code
            new == [row[k] EXCEPT !.consumed = TRUE]
            next == [task[r] EXCEPT !.at = "issuing", !.deletes = {}]
<1>1. /\ task[r].at \in {"unknown", "known"} /\ task[r].at \in Trying /\ Writes(r)
      /\ user' = TRUE /\ UNCHANGED <<expired, answered, wrong, logins>>
  BY DEF Consume, Trying
<1>2. /\ k \in Code /\ k \in answered /\ row[k] \in Row /\ row[k] # None
      /\ Kept(r)[k] = row[k] /\ raced' \subseteq Code /\ raced \subseteq raced'
      /\ k \notin raced' => \A q \in Worker \ {r} : ~(task[q].at \in Trying /\ task[q].code = k)
  BY <1>1, WriteFacts
<1>3. /\ row' \in [Code -> Row \union {None}] /\ row'[k] = new
      /\ \A c \in Code \ {k} : row'[c] = Kept(r)[c]
      /\ new \in Row /\ new.attempts = row[k].attempts /\ new.consumed
  <2>1. new \in Row /\ new.attempts = row[k].attempts /\ new.consumed
    BY <1>2 DEF Row
  <2>2. row' = [Kept(r) EXCEPT ![k] = new]
    BY <1>2 DEF Consume
  <2>. QED  BY <1>2, <2>1, <2>2, KeptRows
<1>4. spent' = spent \union {k}
  BY DEF Consume
<1>5. /\ task' \in [Worker -> Task] /\ task'[r].at = "issuing"
      /\ task'[r].code = k /\ task'[r].deletes = {} /\ task'[r].late = task[r].late
      /\ \A q \in Worker \ {r} : task'[q] = task[q]
  <2>1. /\ next \in Task /\ next.at = "issuing" /\ next.code = k
        /\ next.deletes = {} /\ next.late = task[r].late
    BY <1>1 DEF TypeOK, Task
  <2>2. task' = [task EXCEPT ![r] = next] /\ task \in [Worker -> Task]
    BY DEF Consume, TypeOK
  <2>. HIDE DEF next
  <2>. QED  BY <2>1, <2>2
<1>6. ~task[r].late
  BY <1>1 DEF LateStops, At
<1>7. k \notin raced => k \notin spent
  BY <1>1, <1>2 DEF Current, Marked
<1>. HIDE DEF k, new
<1>8. TypeOK'
  BY <1>1, <1>2, <1>3, <1>4, <1>5 DEF TypeOK
<1>9. Unsent'
  <2>1. \A c \in Code \ answered : Kept(r)[c] = None /\ c # k
    BY <1>2, KeptRows DEF Unsent
  <2>. QED  BY <1>1, <1>3, <1>4, <2>1 DEF Unsent
<1>12. Tries' /\ Deletes' /\ LateStops'
  <2>1. Tries'
    BY <1>1, <1>2, <1>5 DEF Tries, At, Trying
  <2>2. Deletes'
    BY <1>1, <1>4, <1>5 DEF Deletes, TypeOK, Task
  <2>3. LateStops'
    <3>1. SUFFICES ASSUME NEW q \in Worker \ {r}, task[q].late
                   PROVE  task[q].at = "verifying" /\ task[q].code \in spent'
      BY <1>5, <1>6 DEF LateStops, At
    <3>2. task[q].at = "verifying" /\ task[q].code \in spent /\ task[q].code \in Code
      BY <3>1 DEF LateStops, Tries, At, TypeOK
    <3>. QED  BY <1>4, <3>2
  <2>. QED  BY <2>1, <2>2, <2>3
<1>13. Marked' /\ Counted'
  BY <1>1, <1>2, <1>3, <1>4, KeptRows DEF Marked, Counted
<1>14. Current'
  <2>1. \A q \in Worker : task[q].at \in Trying => task[q].code \in Code
    BY DEF Tries, TypeOK
  <2>2. SUFFICES ASSUME NEW q \in Worker \ {r}, task[q].at \in Trying,
                        task[q].code \notin raced', row'[task[q].code] # None
                 PROVE  /\ task[q].attempts = row'[task[q].code].attempts
                        /\ ~row'[task[q].code].consumed
    BY <1>5 DEF Current, Trying
  <2>3. task[q].code \in Code \ {k}
    BY <1>2, <2>1, <2>2
  <2>4. row'[task[q].code] = row[task[q].code]
    BY <1>3, <2>2, <2>3, KeptRows
  <2>. QED  BY <1>2, <2>2, <2>4 DEF Current
<1>15. AttemptsRespected'
  BY <1>1, <1>2 DEF AttemptsRespected
<1>16. CodeWorksOnce'
  <2>1. \A q \in Worker : task'[q].late => task'[q].at # "issuing"
    BY <1>5, <1>6 DEF LateStops, At
  <2>2. \A c \in Code \ raced' : logins'[c] <= 1
    BY <1>1, <1>2 DEF CodeWorksOnce
  <2>. QED  BY <2>1, <2>2 DEF CodeWorksOnce, At
<1>17. UnusedStays'
  <2>1. SUFFICES ASSUME NEW c \in answered \ expired, c \notin spent'
                 PROVE  row'[c] # None /\ ~row'[c].consumed
    BY <1>1 DEF UnusedStays
  <2>2. c \in Code /\ c # k /\ c \notin spent
    BY <1>4, <2>1 DEF TypeOK
  <2>3. row[c] # None /\ ~row[c].consumed /\ c \notin task[r].deletes
    BY <2>1, <2>2 DEF UnusedStays, Deletes
  <2>. QED  BY <1>3, <2>2, <2>3, KeptRows
<1>18. Issuing'
  <2>1. \A q \in Worker : At(q, "issuing") => task[q].code \in spent
    BY DEF Issuing
  <2>2. k \notin raced => logins[k] = 0 /\ \A q \in Worker : At(q, "issuing") => task[q].code # k
    BY <1>2, <1>7, <2>1 DEF Issuing
  <2>3. \A c \in Code \ spent' : logins'[c] = 0
    BY <1>1, <1>4 DEF Issuing
  <2>4. SUFFICES ASSUME NEW q \in Worker, task'[q].at = "issuing"
                 PROVE  /\ task'[q].code \in spent'
                        /\ task'[q].code \notin raced' =>
                              /\ logins[task'[q].code] = 0
                              /\ \A p \in Worker \ {q} :
                                    ~(task'[p].at = "issuing" /\ task'[p].code = task'[q].code)
    BY <1>1, <2>3 DEF Issuing, At
  <2>5. CASE q = r
    BY <1>2, <1>4, <1>5, <2>2, <2>5 DEF At
  <2>6. CASE q # r
    <3>1. At(q, "issuing") /\ task'[q] = task[q]
      BY <1>5, <2>4, <2>6 DEF At
    <3>2. task[q].code \in spent /\ (task[q].code \notin raced' => task[q].code # k)
      BY <1>2, <2>2, <3>1 DEF Issuing
    <3>. QED  BY <1>2, <1>4, <1>5, <3>1, <3>2 DEF Issuing, At
  <2>. QED  BY <2>5, <2>6
<1>. QED  BY <1>8, <1>9, <1>12, <1>13, <1>14, <1>15, <1>16, <1>17, <1>18

\* A request is let in with the code it used up.
LEMMA IssueStep == ASSUME IInv, NEW r \in Worker, Issue(r) PROVE IInv'
<1>. USE DEF IInv
<1>. DEFINE k == task[r].code
<1>1. /\ At(r, "issuing") /\ Ended(r)
      /\ UNCHANGED <<row, user, expired, answered, wrong, spent, raced>>
  BY DEF Issue
<1>2. /\ task' \in [Worker -> Task]
      /\ task'[r].at = "done" /\ task'[r].deletes = {} /\ ~task'[r].late
      /\ \A q \in Worker \ {r} : task'[q] = task[q]
  BY <1>1, EndedTask
<1>3. /\ k \in spent /\ k \in Code
      /\ k \notin raced => logins[k] = 0
      /\ k \notin raced => \A q \in Worker \ {r} : ~(At(q, "issuing") /\ task[q].code = k)
  BY <1>1 DEF Issuing, TypeOK
<1>4. /\ logins' \in [Code -> Nat] /\ logins'[k] = logins[k] + 1
      /\ \A c \in Code \ {k} : logins'[c] = logins[c]
  BY <1>3 DEF Issue, TypeOK
<1>. HIDE DEF k
<1>5. TypeOK'
  BY <1>1, <1>2, <1>4 DEF TypeOK
<1>6. (Unsent /\ Marked /\ Counted /\ AttemptsRespected /\ UnusedStays)'
  BY <1>1 DEF Unsent, Marked, Counted, AttemptsRespected, UnusedStays
<1>7. (Tries /\ Deletes /\ Current /\ LateStops)'
  BY <1>1, <1>2 DEF Tries, Deletes, Current, LateStops, At, Trying
<1>8. CodeWorksOnce'
  <2>1. k \notin raced => logins'[k] <= 1
    BY <1>3, <1>4
  <2>. QED  BY <1>1, <1>2, <1>4, <2>1 DEF CodeWorksOnce, At
<1>9. Issuing'
  <2>1. \A c \in Code \ spent : logins'[c] = 0
    BY <1>3, <1>4 DEF Issuing
  <2>2. ASSUME NEW q \in Worker, task'[q].at = "issuing"
        PROVE  /\ q # r /\ task'[q] = task[q] /\ At(q, "issuing")
               /\ task[q].code \in Code
               /\ task[q].code \notin raced => task[q].code # k
    BY <1>2, <1>3, <2>2 DEF At, Issuing, TypeOK
  <2>. QED  BY <1>1, <1>4, <2>1, <2>2 DEF Issuing, At
<1>. QED  BY <1>5, <1>6, <1>7, <1>8, <1>9

-----------------------------------------------------------------------------
(* The theorems.                                                           *)

\* IInv is inductive: whatever step the requests take, it holds again.
LEMMA NextIInv == IInv /\ [Next]_vars => IInv'
<1>. SUFFICES ASSUME IInv, [Next]_vars PROVE IInv'
  OBVIOUS
<1>1. CASE UNCHANGED vars
  BY <1>1 DEF vars, history, IInv, TypeOK, Unsent, Tries, Deletes, Marked, Counted,
     Current, LateStops, Issuing, AttemptsRespected, CodeWorksOnce, UnusedStays, At
<1>2. ASSUME NEW k \in Code, Expire(k) PROVE IInv'
  BY <1>2, ExpireStep
<1>3. ASSUME NEW r \in Worker, Fails(r) \/ Issue(r) PROVE IInv'
  BY <1>3, EndStep, IssueStep DEF Fails
<1>4. ASSUME NEW r \in Worker, RequestCode(r) \/ ReadCode(r) \/ ReadUser(r) PROVE IInv'
  BY <1>4, RequestStep, ReadCodeStep, ReadUserStep
<1>5. ASSUME NEW r \in Worker, Count(r) \/ Consume(r) PROVE IInv'
  BY <1>5, CountStep, ConsumeStep
<1>6. ASSUME NEW r \in Worker, NEW k \in Code, CodeSent(r, k) PROVE IInv'
  BY <1>6, CodeSentStep
<1>7. ASSUME NEW r \in Worker, NEW k \in Code, NEW right \in BOOLEAN, Verify(r, k, right)
      PROVE  IInv'
  BY <1>7, VerifyStep
<1>. QED  BY <1>1, <1>2, <1>3, <1>4, <1>5, <1>6, <1>7 DEF Next

\* IInv holds in every reachable state, for any number of codes and requests.
THEOREM Inductive == Spec => []IInv
  BY InitIInv, NextIInv, PTL DEF Spec

\* Every variable keeps its type, and a code is consumed only together with a user.
THEOREM TypeCorrect == Spec => []TypeOK
<1>1. IInv => TypeOK
  BY DEF IInv
<1>. QED  BY <1>1, Inductive, PTL

\* A code takes at most MaxAttempts wrong guesses unless two requests tried it at
\* once: verify_phone_login_code counts from the row it read.
THEOREM AttemptsSafe == Spec => []AttemptsRespected
<1>1. IInv => AttemptsRespected
  BY DEF IInv
<1>. QED  BY <1>1, Inductive, PTL

\* A code that was used up lets in no request that begins later, and lets in only one
\* if none raced: build_token_response is reached once.
THEOREM OnceSafe == Spec => []CodeWorksOnce
<1>1. IInv => CodeWorksOnce
  BY DEF IInv
<1>. QED  BY <1>1, Inductive, PTL

\* A code with time left is used up only by a request that guessed it right and
\* committed that together with the user; what that request does afterwards, and
\* whether it lets anybody in, is not claimed.
THEOREM UnusedSafe == Spec => []UnusedStays
<1>1. IInv => UnusedStays
  BY DEF IInv
<1>. QED  BY <1>1, Inductive, PTL
=============================================================================
