------------------------------ MODULE Sessions ------------------------------
(***************************************************************************)
(* The session of one device: the refresh tokens the server keeps and      *)
(* rotates, the pair of tokens the client holds and saves, and what its    *)
(* API layer does when a request is answered with 401.                     *)
(*                                                                         *)
(* A row of refresh_tokens stands for the pair issued with it: the refresh *)
(* token is stored in the row, and the access token names the row in its   *)
(* claim "sid".  Endpoints run in worker threads: reading a row and        *)
(* committing what was decided from it are two steps.  The client is one   *)
(* isolate whose handlers give way only where they await a request or a    *)
(* save.                                                                   *)
(***************************************************************************)
EXTENDS Naturals, Sequences, FiniteSets

CONSTANTS
    Call,          \* requests the client may have under way at the same time
    MaxRows,       \* bound: rows of refresh_tokens
    MaxRefreshes,  \* bound: refresh requests
    MaxSaves,      \* bound: saves under way at the same time
    MaxFaults,     \* bound: answers lost and kills of the app
    None           \* no row, no token, no request

ASSUME SessionsAssumption ==
    /\ {MaxRows, MaxRefreshes, MaxSaves, MaxFaults} \subseteq Nat
    /\ None \notin Nat

VARIABLES
    row,         \* the rows issued so far, in the order of their ids
    lapsed,      \* the access tokens of rows 1..lapsed are past their time
    refreshes,   \* refresh requests posted so far, and what became of them
    ending,      \* rows another device's request has read and is to revoke
    held,        \* _tokens of the running app
    saved,       \* the pair in the preferences
    saves,       \* saveSession calls under way, oldest first
    call,        \* the requests under way
    ended,       \* history: sessions another device closed
    raced,       \* history: sessions with two rotations of one token at once
    faults       \* history: answers lost and kills

server == <<row, lapsed, refreshes, ending>>
client == <<held, saved, saves, call>>
history == <<ended, raced, faults>>
vars == <<server, client, history>>

RowId == 1..Len(row)

Known == RowId \union {None}

\* session_key: the row a login issued stands for the session.
RowType == [session : RowId, active : BOOLEAN]

Pair == [access : Known, refresh : Known]

LoggedOut == [access |-> None, refresh |-> None]

PairOf(n) == [access |-> n, refresh |-> n]

\* sent -> read -> granted, or refused; made is the row a grant issued.
Refresh == [token : RowId, stage : {"sent", "read", "granted", "refused"}, made : Known]

\* A call has nothing to do, awaits its first request, its refresh request, the
\* save of the refreshed pair or the repetition of its request; pair is what it
\* sends, read from _tokens when it started and again for the repetition.
CallType == [at : {"idle", "first", "refresh", "saving", "again"}, pair : Pair,
             refresh : DOMAIN refreshes \union {None}, boot : BOOLEAN]

Idle == [at |-> "idle", pair |-> LoggedOut, refresh |-> None, boot |-> FALSE]

Loading == \E t \in Call : call[t].boot

SavedHalf == [pair : Pair, access : BOOLEAN]

TypeOK ==
    /\ row \in Seq(RowType) /\ Len(row) <= MaxRows
    /\ lapsed \in 0..Len(row)
    /\ refreshes \in Seq(Refresh) /\ Len(refreshes) <= MaxRefreshes
    /\ ending \subseteq RowId
    /\ held \in Pair /\ saved \in Pair
    /\ saves \in Seq(SavedHalf) /\ Len(saves) <= MaxSaves
    /\ call \in [Call -> CallType]
    /\ ended \subseteq RowId /\ raced \subseteq RowId
    /\ faults \in 0..MaxFaults

Init ==
    /\ row = <<>> /\ lapsed = 0 /\ refreshes = <<>> /\ ending = {}
    /\ held = LoggedOut /\ saved = LoggedOut /\ saves = <<>>
    /\ call = [t \in Call |-> Idle]
    /\ ended = {} /\ raced = {} /\ faults = 0

-----------------------------------------------------------------------------
(* The server.                                                             *)

Active(n) == n \in RowId /\ row[n].active

ActiveRows(s) == {n \in RowId : row[n].active /\ row[n].session = s}

\* get_current_user: the token has not run out and its row is not revoked.
Accepts(access) == Active(access) /\ access > lapsed

Issue(rows, s) == Append(rows, [session |-> s, active |-> TRUE])

Revoke(S) == [n \in RowId |-> IF n \in S THEN [row[n] EXCEPT !.active = FALSE] ELSE row[n]]

\* access_token_expire_minutes: tokens run out in the order they were issued.
Lapse ==
    /\ lapsed < Len(row) /\ lapsed' = lapsed + 1
    /\ UNCHANGED <<row, refreshes, ending, client, history>>

RotatesNow(n) == \E i \in DOMAIN refreshes : refreshes[i].stage = "read" /\ refreshes[i].token = n

\* Mutant of RefreshRead: a revoked token is accepted.
RefreshReadRevoked(i) ==
    /\ refreshes[i].stage = "sent"
    /\ refreshes' = [refreshes EXCEPT ![i].stage = "read"]
    /\ UNCHANGED <<row, lapsed, ending, client, history>>

\* rotate_refresh_token reads the row of the token ...
RefreshRead(i) ==
    /\ refreshes[i].stage = "sent"
    /\ LET n == refreshes[i].token IN
       /\ refreshes' = [refreshes EXCEPT ![i].stage = IF Active(n) THEN "read" ELSE "refused"]
       /\ raced' = IF Active(n) /\ RotatesNow(n) THEN raced \union {row[n].session} ELSE raced
    /\ UNCHANGED <<row, lapsed, ending, client, ended, faults>>

\* Mutant of RefreshCommit: the old token stays good.
RefreshCommitKeeps(i) ==
    /\ refreshes[i].stage = "read" /\ Len(row) < MaxRows
    /\ row' = Issue(row, row[refreshes[i].token].session)
    /\ refreshes' = [refreshes EXCEPT ![i] = [@ EXCEPT !.stage = "granted", !.made = Len(row) + 1]]
    /\ UNCHANGED <<lapsed, ending, client, history>>

\* ... and revokes it and issues its successor, whatever happened to it since.
RefreshCommit(i) ==
    /\ refreshes[i].stage = "read" /\ Len(row) < MaxRows
    /\ LET n == refreshes[i].token IN
       row' = Issue(Revoke({n}), row[n].session)
    /\ refreshes' = [refreshes EXCEPT ![i] = [@ EXCEPT !.stage = "granted", !.made = Len(row) + 1]]
    /\ UNCHANGED <<lapsed, ending, client, history>>

\* revoke_session_by_key and revoke_other_sessions, called from another
\* device, read the rows that are not revoked ...
EndRead(S) ==
    /\ ending = {}
    /\ ending' = UNION {ActiveRows(s) : s \in S} /\ ending' # {}
    /\ UNCHANGED <<row, lapsed, refreshes, client, history>>

\* ... and revoke those.
EndCommit ==
    /\ ending # {} /\ ending' = {}
    /\ row' = Revoke(ending)
    /\ ended' = ended \union {row[n].session : n \in ending}
    /\ UNCHANGED <<lapsed, refreshes, client, raced, faults>>

-----------------------------------------------------------------------------
(* What the client holds and saves.                                        *)

\* Every assignment of _tokens is followed by saveSession.
Hold(pair) ==
    /\ Len(saves) < MaxSaves
    /\ held' = pair
    /\ saves' = Append(saves, [pair |-> pair, access |-> FALSE])
    /\ UNCHANGED saved

\* saveSession writes the access token, and after another await the refresh
\* token; calls under way at the same time take turns.
SaveAccess(i) ==
    /\ ~saves[i].access /\ \A j \in 1..(i - 1) : saves[j].access
    /\ saved' = [saved EXCEPT !.access = saves[i].pair.access]
    /\ saves' = [saves EXCEPT ![i].access = TRUE]
    /\ UNCHANGED <<server, held, call, history>>

SaveRefresh ==
    /\ saves # <<>> /\ Head(saves).access
    /\ saved' = [saved EXCEPT !.refresh = Head(saves).pair.refresh]
    /\ saves' = Tail(saves)
    /\ UNCHANGED <<server, held, call, history>>

\* A login: the server issues the first row of a session.
LogIn ==
    /\ held = LoggedOut /\ ~Loading /\ Len(row) < MaxRows
    /\ row' = Issue(row, Len(row) + 1)
    /\ Hold(PairOf(Len(row) + 1))
    /\ UNCHANGED <<lapsed, refreshes, ending, call, history>>

\* Mutant of LogOut: the preferences keep the pair.
LogOutUnsaved ==
    /\ held # LoggedOut /\ ~Loading /\ held' = LoggedOut
    /\ UNCHANGED <<server, saved, saves, call, history>>

\* _performLogout from the settings.  The client never calls /auth/logout.
LogOut ==
    /\ held # LoggedOut /\ ~Loading
    /\ Hold(LoggedOut)
    /\ UNCHANGED <<server, call, history>>

\* The app is killed and started again: _bootstrap asks for the user with the
\* pair that was saved.
Restart(t) ==
    /\ faults < MaxFaults /\ faults' = faults + 1
    /\ held' = IF saved.access = None THEN LoggedOut ELSE saved
    /\ saves' = <<>>
    /\ call' = [u \in Call |->
                IF u = t /\ saved.access # None
                THEN [at |-> "first", pair |-> saved, refresh |-> None, boot |-> TRUE]
                ELSE Idle]
    /\ UNCHANGED <<server, saved, ended, raced>>

-----------------------------------------------------------------------------
(* The client's requests.                                                  *)

\* The requests of one flush of the outbox are sent one after the other with a
\* pair read once: they are calls that start together.
Start(t) ==
    /\ held # LoggedOut /\ ~Loading /\ call[t].at = "idle"
    /\ call' = [call EXCEPT ![t] = [at |-> "first", pair |-> held, refresh |-> None, boot |-> FALSE]]
    /\ UNCHANGED <<server, held, saved, saves, history>>

Over(t) == call' = [call EXCEPT ![t] = Idle]

\* A request that throws: _loadCurrentUser logs out, the others report it.
Throws(t) ==
    /\ Over(t)
    /\ \/ (call[t].boot /\ Hold(LoggedOut))
       \/ (~call[t].boot /\ UNCHANGED <<held, saved, saves>>)

Token(t) == call[t].pair.access

Requests(t) == call[t].at \in {"first", "again"}

RequestAccepted(t) ==
    /\ Requests(t) /\ Accepts(Token(t))
    /\ Over(t)
    /\ UNCHANGED <<server, held, saved, saves, history>>

\* The second 401 of a request is an error like any other; so is the first
\* one without a refresh token.
RequestRefused(t) ==
    /\ Requests(t) /\ ~Accepts(Token(t))
    /\ (call[t].at = "again" \/ call[t].pair.refresh = None)
    /\ Throws(t)
    /\ UNCHANGED <<server, history>>

\* Mutant of AskRefresh: nobody looks whether there is a refresh token.
AskRefreshAnyway(t) ==
    /\ call[t].at = "first" /\ ~Accepts(Token(t))
    /\ Len(refreshes) < MaxRefreshes
    /\ refreshes' = Append(refreshes, [token |-> call[t].pair.refresh, stage |-> "sent", made |-> None])
    /\ call' = [call EXCEPT ![t] = [@ EXCEPT !.at = "refresh", !.refresh = Len(refreshes) + 1]]
    /\ UNCHANGED <<row, lapsed, ending, held, saved, saves, history>>

\* The first 401: refresh, with the pair the call captured.
AskRefresh(t) ==
    /\ call[t].at = "first" /\ ~Accepts(Token(t))
    /\ call[t].pair.refresh # None /\ Len(refreshes) < MaxRefreshes
    /\ refreshes' = Append(refreshes, [token |-> call[t].pair.refresh, stage |-> "sent", made |-> None])
    /\ call' = [call EXCEPT ![t] = [@ EXCEPT !.at = "refresh", !.refresh = Len(refreshes) + 1]]
    /\ UNCHANGED <<row, lapsed, ending, held, saved, saves, history>>

Answer(t) == refreshes[call[t].refresh]

\* Mutant of RefreshGranted: the new refresh token is not taken over.
RefreshGrantedKeeps(t) ==
    /\ call[t].at = "refresh" /\ Answer(t).stage = "granted"
    /\ Hold([access |-> Answer(t).made, refresh |-> Answer(t).token])
    /\ call' = [call EXCEPT ![t].at = "saving"]
    /\ UNCHANGED <<server, history>>

\* _refreshFromApi: the new pair replaces whatever the app holds by now.
RefreshGranted(t) ==
    /\ call[t].at = "refresh" /\ Answer(t).stage = "granted"
    /\ Hold(PairOf(Answer(t).made))
    /\ call' = [call EXCEPT ![t].at = "saving"]
    /\ UNCHANGED <<server, history>>

\* It returns _tokens as they are when its save is done: another pair by then,
\* or none after a logout, which ends the call with "Session expired".
RefreshReturns(t) ==
    /\ call[t].at = "saving"
    /\ \A i \in DOMAIN saves : saves[i].pair # PairOf(Answer(t).made)
    /\ \/ held # LoggedOut
          /\ call' = [call EXCEPT ![t] = [@ EXCEPT !.at = "again", !.pair = held]]
          /\ UNCHANGED <<held, saved, saves>>
       \/ held = LoggedOut /\ Throws(t)
    /\ UNCHANGED <<server, history>>

\* Its catch: any failure logs out, and the call reports "Session expired".
Expired(t) == Over(t) /\ Hold(LoggedOut)

RefreshRefused(t) ==
    /\ call[t].at = "refresh" /\ Answer(t).stage = "refused"
    /\ Expired(t)
    /\ UNCHANGED <<server, history>>

\* The connection breaks; the server may still do what it was asked.
RequestLost(t) ==
    /\ faults < MaxFaults /\ faults' = faults + 1
    /\ \/ (Requests(t) /\ Throws(t))
       \/ (call[t].at = "refresh" /\ Expired(t))
    /\ UNCHANGED <<server, ended, raced>>

Next ==
    \/ Lapse \/ LogIn \/ LogOut \/ EndCommit \/ SaveRefresh
    \/ \E S \in SUBSET RowId : EndRead(S)
    \/ \E i \in DOMAIN refreshes : RefreshRead(i) \/ RefreshCommit(i)
    \/ \E i \in DOMAIN saves : SaveAccess(i)
    \/ \E t \in Call :
       \/ RequestAccepted(t) \/ RequestRefused(t) \/ RequestLost(t)
       \/ AskRefresh(t) \/ RefreshGranted(t) \/ RefreshReturns(t) \/ RefreshRefused(t)
       \/ Start(t) \/ Restart(t)

Spec == Init /\ [][Next]_vars

-----------------------------------------------------------------------------
(* Properties.                                                             *)

\* A session has at most one row that is not revoked, whatever refreshes,
\* logins and revocations overlap, unless two requests rotated one and the
\* same token at once.
OneActiveRow ==
    \A s \in RowId \ raced : \A m, n \in ActiveRows(s) : m = n

\* A session without an active row, and without a rotation that has read one,
\* never gets one again: neither late requests nor retries revive it.
Dead(s) == ActiveRows(s) = {} /\ \A n \in RowId : RotatesNow(n) => row[n].session # s

DeadStaysDead == [][\A s \in RowId : Dead(s) => Dead(s)']_vars

\* As long as no answer is lost and the app is not killed, the refresh token the
\* client holds is good, unless another device closed the session or a refresh
\* that was granted for it is about to be answered.
HeldIsActive ==
    faults = 0 /\ held # LoggedOut =>
        \/ Active(held.refresh) \/ row[held.refresh].session \in ended
        \/ \E t \in Call :
            /\ call[t].at = "refresh" /\ Answer(t).stage = "granted"
            /\ Answer(t).token = held.refresh

\* When no save is under way, the next start of the app finds what the app
\* holds, in whatever way saves of refreshes and logouts took turns.
SavedIsHeld ==
    saves = <<>> =>
        \/ saved = held
        \/ held = LoggedOut /\ saved.access = None
=============================================================================
