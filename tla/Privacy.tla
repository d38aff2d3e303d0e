------------------------------ MODULE Privacy ------------------------------
(***************************************************************************)
(* What a user lets others see: the settings row, the exceptions for       *)
(* single viewers, the chats shared with them, and the requests of viewers *)
(* that read the three in separate queries while the owner changes them.   *)
(*                                                                         *)
(* All requests run in worker threads; each query and each commit is a     *)
(* step, at the isolation level "read committed".  There is one owner.     *)
(* Nothing removes a chat member and nothing creates a follow, so that a   *)
(* relation, once there, stays.                                            *)
(***************************************************************************)
EXTENDS Naturals, FiniteSets

CONSTANTS
    Viewer,
    Thread,      \* bound: requests at a time
    Payload,     \* bound: what a request to change the settings may give
    MaxChanges,  \* bound: commits that change what is visible
    None         \* no row, request or answer

VARIABLES
    settings,   \* the owner's row of user_privacy_settings
    related,    \* the viewers who share a chat with the owner
    exception,  \* user_privacy_exceptions of the owner
    call,       \* the request of each worker thread
    truths,     \* history: what was permitted while a request is under way
    touched,    \* history: the inputs that have changed since it began
    eased,      \* history: the settings that were eased since it began
    changes     \* history: changes so far

database == <<settings, related, exception>>
history == <<truths, touched, eased>>
vars == <<database, call, history, changes>>

Key == {"phone_visibility", "phone_search_visibility", "last_seen_visibility"}

Audience == {"everyone", "contacts", "nobody"}

Mode == {"allow", "disallow"}

Answer == {"shown", "hidden"}

Input == {"audience", "related", "exception"}

\* Columns a request gives; None stands for a field that is not in its payload.
Fields == [Key -> Audience \union {None}]

\* A viewer's request: "profile" answers with phone and last seen, "find" looks
\* the owner up by phone.  A lookup is one after the other.
View == [op : {"profile", "find"}, viewer : Viewer, key : Key,
         at : {"settings", "insert", "shared", "exception", "answer"},
         audience : Fields, shared : SUBSET Viewer, answer : [Key -> Answer \union {None}]]

\* A request that changes the settings, or (wanting nothing) shows them.
Patch == [op : {"patch"}, at : {"settings", "insert", "commit"}, fields : Fields]

\* A request for an exception, with the mode it has found.
Rule == [op : {"upsert"}, key : Key, viewer : Viewer, mode : Mode, found : Mode \union {None}]
        \union [op : {"remove"}, key : Key, viewer : Viewer]

ASSUME PrivacyAssumption ==
    /\ Payload \subseteq Fields /\ MaxChanges \in Nat
    /\ None \notin Audience \union Mode \union Answer /\ None \notin [Key -> Audience]

TypeOK ==
    /\ settings \in [Key -> Audience] \union {None}
    /\ related \subseteq Viewer
    /\ exception \in [Key -> [Viewer -> Mode \union {None}]]
    /\ call \in [Thread -> View \union Patch \union Rule \union {None}]
    /\ truths \in [Thread -> [Key -> SUBSET Answer]]
    /\ touched \in [Thread -> [Key -> SUBSET Input]]
    /\ eased \in [Thread -> SUBSET Key]
    /\ changes \in 0..MaxChanges

Default == [k \in Key |-> "everyone"]

NoFields == [k \in Key |-> None]

Init ==
    /\ settings = None /\ related = {}
    /\ exception = [k \in Key |-> [v \in Viewer |-> None]]
    /\ call = [t \in Thread |-> None]
    /\ truths = [t \in Thread |-> [k \in Key |-> {}]]
    /\ touched = [t \in Thread |-> [k \in Key |-> {}]]
    /\ eased = [t \in Thread |-> {}]
    /\ changes = 0

-----------------------------------------------------------------------------
(* What is permitted.                                                      *)

\* _privacy_allows for a viewer who is not the owner.
Allows(audience, shared, mode) ==
    \/ mode = "allow"
    \/ mode = None /\ (audience = "everyone" \/ (audience = "contacts" /\ shared))

Reply(audience, shared, mode) == IF Allows(audience, shared, mode) THEN "shown" ELSE "hidden"

\* A missing row stands for the defaults.
AudienceOf(k) == IF settings = None THEN Default[k] ELSE settings[k]

Truth(k, v) == Reply(AudienceOf(k), v \in related, exception[k][v])

Openness(x) == CASE x \in {"nobody", "disallow"} -> 0
                 [] x \in {"contacts", None} -> 1
                 [] x \in {"everyone", "allow"} -> 2

Viewing(t) == IF call[t] = None THEN FALSE ELSE call[t].op \in {"profile", "find"}

TruthNext(k, v) == Reply(AudienceOf(k)', v \in related', exception'[k][v])

\* The inputs of viewer v's setting k that a step changes.
Changed(k, v) ==
    {i \in Input : \/ i = "audience" /\ AudienceOf(k)' # AudienceOf(k)
                   \/ i = "related" /\ (v \in related') # (v \in related)
                   \/ i = "exception" /\ exception'[k][v] # exception[k][v]}

Eases(k, v) ==
    \/ Openness(AudienceOf(k)') > Openness(AudienceOf(k))
    \/ v \in related' \ related
    \/ Openness(exception'[k][v]) > Openness(exception[k][v])

\* A change of what is visible, as the requests under way meet it.
Change ==
    /\ changes < MaxChanges /\ changes' = changes + 1
    /\ truths' = [t \in Thread |-> [k \in Key |->
          IF Viewing(t) THEN truths[t][k] \union {TruthNext(k, call[t].viewer)} ELSE truths[t][k]]]
    /\ touched' = [t \in Thread |-> [k \in Key |->
          IF Viewing(t) THEN touched[t][k] \union Changed(k, call[t].viewer) ELSE touched[t][k]]]
    /\ eased' = [t \in Thread |->
          eased[t] \union {k \in Key : IF Viewing(t) THEN Eases(k, call[t].viewer) ELSE FALSE}]

Free(t) == call' = [call EXCEPT ![t] = None]

At(t, place) == IF Viewing(t) THEN call[t].at = place ELSE FALSE

Patching(t, place) ==
    IF call[t] = None THEN FALSE ELSE IF call[t].op = "patch" THEN call[t].at = place ELSE FALSE

-----------------------------------------------------------------------------
(* get_or_create_privacy_settings, for viewers and the owner alike.        *)

\* The row is missing when it is looked for: it is to be inserted.
Missing(t) ==
    /\ settings = None /\ (At(t, "settings") \/ Patching(t, "settings"))
    /\ call' = [call EXCEPT ![t].at = "insert"]
    /\ UNCHANGED <<database, history, changes>>

\* The insert, after which the row is read back.
Insert(t) ==
    /\ settings = None /\ (At(t, "insert") \/ Patching(t, "insert"))
    /\ settings' = Default
    /\ call' = [call EXCEPT ![t].at = "settings"]
    /\ UNCHANGED <<related, exception, history, changes>>

\* Another request has inserted the row: this one fails, a viewer's too.
InsertFails(t) ==
    /\ settings # None /\ (At(t, "insert") \/ Patching(t, "insert"))
    /\ Free(t)
    /\ UNCHANGED <<database, history, changes>>

-----------------------------------------------------------------------------
(* The viewers' requests.                                                  *)

ViewStart(t, v, op) ==
    /\ call[t] = None
    /\ call' = [call EXCEPT ![t] =
          [op |-> op, viewer |-> v, at |-> "settings",
           key |-> IF op = "find" THEN "phone_search_visibility" ELSE "phone_visibility",
           audience |-> NoFields, shared |-> {}, answer |-> [k \in Key |-> None]]]
    /\ truths' = [truths EXCEPT ![t] = [k \in Key |-> {Truth(k, v)}]]
    /\ touched' = [touched EXCEPT ![t] = [k \in Key |-> {}]]
    /\ eased' = [eased EXCEPT ![t] = {}]
    /\ UNCHANGED <<database, changes>>

\* The row is read once for all that the request answers: the session keeps it.
ViewSettings(t) ==
    /\ At(t, "settings") /\ settings # None
    /\ call' = [call EXCEPT ![t] = [call[t] EXCEPT !.at = "shared", !.audience = settings]]
    /\ UNCHANGED <<database, history, changes>>

\* _has_shared_relationship.
ViewShared(t) ==
    /\ At(t, "shared")
    /\ call' = [call EXCEPT ![t] =
          [call[t] EXCEPT !.at = "exception", !.shared = related \intersect {call[t].viewer}]]
    /\ UNCHANGED <<database, history, changes>>

\* Mutant of ViewException: a viewer refused for one setting is refused for all.
ViewExceptionAnyKey(t) ==
    /\ At(t, "exception")
    /\ LET k == call[t].key
           v == call[t].viewer IN
       call' = [call EXCEPT ![t] = [call[t] EXCEPT
          !.answer[k] = Reply(call[t].audience[k], v \in call[t].shared,
                                 IF \E j \in Key : exception[j][v] = "disallow"
                                 THEN "disallow" ELSE exception[k][v]),
          !.at = IF k = "phone_visibility" THEN "shared" ELSE "answer",
          !.key = IF k = "phone_visibility" THEN "last_seen_visibility" ELSE k]]
    /\ UNCHANGED <<database, history, changes>>

\* Mutant of ViewException: one column is taken for all settings.
ViewExceptionPhone(t) ==
    /\ At(t, "exception")
    /\ LET k == call[t].key
           v == call[t].viewer IN
       call' = [call EXCEPT ![t] = [call[t] EXCEPT
          !.answer[k] = Reply(call[t].audience["phone_visibility"], v \in call[t].shared,
                                 exception[k][v]),
          !.at = IF k = "phone_visibility" THEN "shared" ELSE "answer",
          !.key = IF k = "phone_visibility" THEN "last_seen_visibility" ELSE k]]
    /\ UNCHANGED <<database, history, changes>>

\* _privacy_exception_mode, and what can_view_phone, can_view_last_seen or
\* can_find_by_phone make of the three; after the phone follows last seen.
ViewException(t) ==
    /\ At(t, "exception")
    /\ LET k == call[t].key
           v == call[t].viewer IN
       call' = [call EXCEPT ![t] = [call[t] EXCEPT
          !.answer[k] = Reply(call[t].audience[k], v \in call[t].shared, exception[k][v]),
          !.at = IF k = "phone_visibility" THEN "shared" ELSE "answer",
          !.key = IF k = "phone_visibility" THEN "last_seen_visibility" ELSE k]]
    /\ UNCHANGED <<database, history, changes>>

ViewAnswer(t) ==
    /\ At(t, "answer") /\ Free(t)
    /\ UNCHANGED <<database, history, changes>>

-----------------------------------------------------------------------------
(* The owner's requests, and chats.                                        *)

PatchStart(t, fields) ==
    /\ call[t] = None
    /\ call' = [call EXCEPT ![t] = [op |-> "patch", at |-> "settings", fields |-> fields]]
    /\ UNCHANGED <<database, history, changes>>

\* Only the fields that differ from what was read will be written.
PatchRead(t) ==
    /\ Patching(t, "settings") /\ settings # None
    /\ LET asked == call[t].fields IN
       call' = [call EXCEPT ![t] = [call[t] EXCEPT
          !.at = "commit",
          !.fields = [k \in Key |-> IF asked[k] = settings[k] THEN None ELSE asked[k]]]]
    /\ UNCHANGED <<database, history, changes>>

\* Mutant of PatchCommit: fields that are not in the payload are written too.
PatchCommitAll(t) ==
    /\ Patching(t, "commit")
    /\ settings' = call[t].fields
    /\ UNCHANGED <<related, exception>>
    /\ IF settings' = settings THEN UNCHANGED <<history, changes>> ELSE Change
    /\ Free(t)

PatchCommit(t) ==
    /\ Patching(t, "commit")
    /\ settings' = [k \in Key |-> IF call[t].fields[k] = None THEN settings[k] ELSE call[t].fields[k]]
    /\ UNCHANGED <<related, exception>>
    /\ IF settings' = settings THEN UNCHANGED <<history, changes>> ELSE Change
    /\ Free(t)

\* upsert_privacy_exception and remove_privacy_exception up to the row found.
UpsertRead(t, k, v, mode) ==
    /\ call[t] = None
    /\ call' = [call EXCEPT ![t] =
          [op |-> "upsert", key |-> k, viewer |-> v, mode |-> mode, found |-> exception[k][v]]]
    /\ UNCHANGED <<database, history, changes>>

RemoveRead(t, k, v) ==
    /\ call[t] = None /\ exception[k][v] # None
    /\ call' = [call EXCEPT ![t] = [op |-> "remove", key |-> k, viewer |-> v]]
    /\ UNCHANGED <<database, history, changes>>

Upserting(t) == IF call[t] = None THEN FALSE ELSE call[t].op = "upsert"

Removing(t) == IF call[t] = None THEN FALSE ELSE call[t].op = "remove"

\* The row is inserted if none was found, and none is there; one that was found
\* with the other mode is updated if it is still there.
Applies(t) ==
    LET r == call[t] IN
    /\ (exception[r.key][r.viewer] = None) = (r.found = None)
    /\ r.found # r.mode

UpsertCommit(t) ==
    /\ Upserting(t) /\ Applies(t)
    /\ exception' = [exception EXCEPT ![call[t].key][call[t].viewer] = call[t].mode]
    /\ UNCHANGED <<settings, related>>
    /\ IF exception' = exception THEN UNCHANGED <<history, changes>> ELSE Change
    /\ Free(t)

\* There is nothing to write, or the row was inserted or removed meanwhile and
\* the request fails.
UpsertEnds(t) ==
    /\ Upserting(t) /\ ~Applies(t) /\ Free(t)
    /\ UNCHANGED <<database, history, changes>>

RemoveCommit(t) ==
    /\ Removing(t)
    /\ exception' = [exception EXCEPT ![call[t].key][call[t].viewer] = None]
    /\ UNCHANGED <<settings, related>>
    /\ IF exception' = exception THEN UNCHANGED <<history, changes>> ELSE Change
    /\ Free(t)

\* A chat with the owner: create_chat, add_member.
Meet(v) ==
    /\ v \notin related /\ related' = related \union {v}
    /\ UNCHANGED <<settings, exception, call>> /\ Change

Next ==
    \/ \E t \in Thread :
       \/ Missing(t) \/ Insert(t) \/ InsertFails(t)
       \/ ViewSettings(t) \/ ViewShared(t) \/ ViewException(t) \/ ViewAnswer(t)
       \/ PatchRead(t) \/ PatchCommit(t) \/ UpsertCommit(t) \/ UpsertEnds(t) \/ RemoveCommit(t)
       \/ \E fields \in Payload : PatchStart(t, fields)
       \/ \E v \in Viewer :
          \/ \E op \in {"profile", "find"} : ViewStart(t, v, op)
          \/ \E k \in Key : RemoveRead(t, k, v) \/ \E mode \in Mode : UpsertRead(t, k, v, mode)
    \/ \E v \in Viewer : Meet(v)

Spec == Init /\ [][Next]_vars

-----------------------------------------------------------------------------
(* Properties.                                                             *)

Answered(t, k) == IF Viewing(t) THEN call[t].answer[k] # None ELSE FALSE

\* What a viewer is answered was true at some moment of the request, whatever
\* was read before it changed, unless two different inputs changed meanwhile:
\* then the answer may mix an old audience with a new exception, and show what
\* was visible at no time.
AnswerWasTrue ==
    \A t \in Thread : \A k \in Key : Answered(t, k) =>
        \/ call[t].answer[k] \in truths[t][k]
        \/ \E i, j \in touched[t][k] : i # j

\* However many changes a request meets, it does not show what was never
\* visible as long as each of them only tightens the setting it is about.
TighteningNeverShows ==
    \A t \in Thread : \A k \in Key : Answered(t, k) =>
        (call[t].answer[k] = "shown" => "shown" \in truths[t][k] \/ k \in eased[t])
=============================================================================
