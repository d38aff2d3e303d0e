--------------------------- MODULE PrivacyProofs ---------------------------
(***************************************************************************)
(* Proofs about Privacy, for every number of viewers, requests, payloads   *)
(* and changes.                                                            *)
(*                                                                         *)
(* A request under way has read some of the three inputs and not yet the   *)
(* others.  Knows says of each reading that it is still current or that    *)
(* its input has been touched, and that the answer it would give with the  *)
(* other inputs as they are was true at some moment, unless one of those   *)
(* has been touched: with one input touched, one of the two remains.       *)
(***************************************************************************)
EXTENDS Privacy, TLAPS

\* What is known of setting k while thread t works on the viewer's request c.
Knows(t, k, c) ==
    LET v == c.viewer
        seen == truths[t][k]
        mixed == Reply(c.audience[k], v \in related, exception[k][v]) IN
    /\ Truth(k, v) \in seen
    /\ c.at \in {"shared", "exception"} =>
          /\ c.audience[k] = AudienceOf(k) \/ "audience" \in touched[t][k]
          /\ mixed \in seen \/ "related" \in touched[t][k] \/ "exception" \in touched[t][k]
          /\ mixed = "shown" => "shown" \in seen \/ k \in eased[t]
    /\ c.at = "exception" /\ c.key = k =>
          /\ v \in c.shared => v \in related
          /\ ((v \in c.shared) <=> (v \in related)) \/ "related" \in touched[t][k]
          /\ \/ Reply(AudienceOf(k), v \in c.shared, exception[k][v]) \in seen
             \/ "audience" \in touched[t][k]
             \/ "exception" \in touched[t][k]
    /\ c.answer[k] # None =>
          /\ c.answer[k] \in seen \/ \E i, j \in touched[t][k] : i # j
          /\ c.answer[k] = "shown" => "shown" \in seen \/ k \in eased[t]

Known == \A t \in Thread : Viewing(t) => \A k \in Key : Knows(t, k, call[t])

\* Who has got past the settings has found or inserted the row.
RowThere ==
    settings = None => \A t \in Thread :
        ~Patching(t, "commit") /\ ~At(t, "shared") /\ ~At(t, "exception") /\ ~At(t, "answer")

IInv == TypeOK /\ RowThere /\ Known

-----------------------------------------------------------------------------
(* Types.                                                                  *)

LEMMA InitOK == Init => IInv
BY PrivacyAssumption DEF PrivacyAssumption, Init, IInv, TypeOK, RowThere, Known, Viewing, Patching, At

LEMMA CallKinds ==
    ASSUME TypeOK, NEW t \in Thread
    PROVE  /\ Viewing(t) => call[t] \in View
           /\ \A place : Patching(t, place) => call[t] \in Patch
           /\ Upserting(t) =>
                call[t] \in [op : {"upsert"}, key : Key, viewer : Viewer, mode : Mode, found : Mode \union {None}]
           /\ Removing(t) => call[t] \in [op : {"remove"}, key : Key, viewer : Viewer]
BY DEF TypeOK, View, Patch, Rule, Viewing, Patching, Upserting, Removing

\* What a step makes of a thread's request, and of all others nothing.
LEMMA CallIs ==
    ASSUME TypeOK, NEW t \in Thread, NEW r, call' = [call EXCEPT ![t] = r]
    PROVE  /\ call'[t] = r
           /\ \A o \in Thread : o # t => call'[o] = call[o]
           /\ r \in View \union Patch \union Rule \union {None} =>
                call' \in [Thread -> View \union Patch \union Rule \union {None}]
BY DEF TypeOK

LEMMA TruthType ==
    ASSUME NEW k \in Key, NEW v \in Viewer
    PROVE  Truth(k, v) \in Answer /\ TruthNext(k, v) \in Answer
BY DEF Truth, TruthNext, Reply, Answer

LEMMA ChangeType ==
    ASSUME TypeOK, Change
    PROVE  /\ truths' \in [Thread -> [Key -> SUBSET Answer]]
           /\ touched' \in [Thread -> [Key -> SUBSET Input]]
           /\ eased' \in [Thread -> SUBSET Key]
           /\ changes' \in 0..MaxChanges
<1>1. \A t \in Thread : Viewing(t) => call[t].viewer \in Viewer
  BY CallKinds DEF View
<1>2. \A t \in Thread, k \in Key :
        (IF Viewing(t) THEN truths[t][k] \union {TruthNext(k, call[t].viewer)} ELSE truths[t][k])
          \in SUBSET Answer
  BY <1>1, TruthType DEF TypeOK
<1>3. truths' \in [Thread -> [Key -> SUBSET Answer]]
  BY <1>2 DEF Change
<1>4. \A t \in Thread, k \in Key :
        (IF Viewing(t) THEN touched[t][k] \union Changed(k, call[t].viewer) ELSE touched[t][k])
          \in SUBSET Input
  BY DEF TypeOK, Changed
<1>5. touched' \in [Thread -> [Key -> SUBSET Input]]
  BY <1>4 DEF Change
<1>6. eased' \in [Thread -> SUBSET Key]
  BY DEF Change, TypeOK
<1>7. changes' \in 0..MaxChanges
  BY PrivacyAssumption DEF PrivacyAssumption, Change, TypeOK
<1> QED
  BY <1>3, <1>5, <1>6, <1>7

\* Steps that only move a request.
LEMMA Moves ==
    ASSUME TypeOK, NEW t \in Thread, NEW r \in View \union Patch \union Rule \union {None},
           call' = [call EXCEPT ![t] = r], UNCHANGED <<database, history, changes>>
    PROVE  TypeOK'
BY CallIs DEF TypeOK, database, history

\* A step that changes the tables and frees its thread.
LEMMA Commits ==
    ASSUME TypeOK, NEW t \in Thread, Free(t) \/ UNCHANGED call,
           settings' \in [Key -> Audience] \union {None}, related' \subseteq Viewer,
           exception' \in [Key -> [Viewer -> Mode \union {None}]],
           Change \/ UNCHANGED <<history, changes>>
    PROVE  TypeOK'
<1>1. call' \in [Thread -> View \union Patch \union Rule \union {None}]
  BY CallIs DEF Free, TypeOK
<1>2. CASE Change
  BY <1>1, <1>2, ChangeType DEF TypeOK
<1>3. CASE UNCHANGED <<history, changes>>
  BY <1>1, <1>3 DEF TypeOK, history
<1> QED
  BY <1>2, <1>3

LEMMA InsertMoves ==
    ASSUME TypeOK, NEW t \in Thread, NEW place \in {"settings", "insert"},
           Viewing(t) \/ \E p : Patching(t, p)
    PROVE  [call[t] EXCEPT !.at = place] \in View \union Patch
<1>1. CASE Viewing(t)
  BY <1>1, CallKinds DEF View
<1>2. CASE \E p : Patching(t, p)
  BY <1>2, CallKinds DEF Patch
<1> QED
  BY <1>1, <1>2

LEMMA TypeStep == TypeOK /\ RowThere /\ [Next]_vars => TypeOK'
<1> SUFFICES ASSUME TypeOK, RowThere, [Next]_vars PROVE TypeOK'
  OBVIOUS
<1>1. ASSUME NEW t \in Thread, Missing(t) PROVE TypeOK'
  <2>1. [call[t] EXCEPT !.at = "insert"] \in View \union Patch
    BY <1>1, InsertMoves DEF Missing, At
  <2> QED
    BY <1>1, <2>1, Moves DEF Missing
<1>2. ASSUME NEW t \in Thread, Insert(t) PROVE TypeOK'
  <2>1. [call[t] EXCEPT !.at = "settings"] \in View \union Patch
    BY <1>2, InsertMoves DEF Insert, At
  <2>2. settings' \in [Key -> Audience] \union {None}
    BY <1>2 DEF Insert, Default, Audience
  <2> QED
    BY <1>2, <2>1, <2>2, CallIs DEF Insert, TypeOK, history
<1>3. ASSUME NEW t \in Thread, InsertFails(t) PROVE TypeOK'
  BY <1>3, Moves DEF InsertFails, Free
<1>4. ASSUME NEW t \in Thread, NEW v \in Viewer, NEW op \in {"profile", "find"}, ViewStart(t, v, op)
      PROVE  TypeOK'
  <2> DEFINE r == [op |-> op, viewer |-> v, at |-> "settings",
                   key |-> IF op = "find" THEN "phone_search_visibility" ELSE "phone_visibility",
                   audience |-> NoFields, shared |-> {}, answer |-> [k \in Key |-> None]]
  <2>1. r \in View
    BY DEF View, Key, NoFields, Fields
  <2>2. call' = [call EXCEPT ![t] = r]
    BY <1>4 DEF ViewStart
  <2> HIDE DEF r
  <2>3. call' \in [Thread -> View \union Patch \union Rule \union {None}]
    BY <2>1, <2>2, CallIs
  <2>4. [k \in Key |-> {Truth(k, v)}] \in [Key -> SUBSET Answer]
    BY TruthType
  <2>5. truths' \in [Thread -> [Key -> SUBSET Answer]]
    BY <1>4, <2>4 DEF ViewStart, TypeOK
  <2>6. touched' \in [Thread -> [Key -> SUBSET Input]] /\ eased' \in [Thread -> SUBSET Key]
    BY <1>4 DEF ViewStart, TypeOK
  <2> QED
    BY <1>4, <2>3, <2>5, <2>6 DEF ViewStart, TypeOK, database
<1>5. ASSUME NEW t \in Thread, ViewSettings(t) PROVE TypeOK'
  <2>1. call[t] \in View /\ settings \in Fields
    BY <1>5, CallKinds DEF ViewSettings, At, TypeOK, Fields
  <2>2. [call[t] EXCEPT !.at = "shared", !.audience = settings] \in View
    BY <2>1 DEF View
  <2> QED
    BY <1>5, <2>2, Moves DEF ViewSettings
<1>6. ASSUME NEW t \in Thread, ViewShared(t) PROVE TypeOK'
  <2>1. call[t] \in View
    BY <1>6, CallKinds DEF ViewShared, At
  <2>2. [call[t] EXCEPT !.at = "exception", !.shared = related \intersect {call[t].viewer}] \in View
    BY <2>1 DEF View, TypeOK
  <2> QED
    BY <1>6, <2>2, Moves DEF ViewShared
<1>7. ASSUME NEW t \in Thread, ViewException(t) PROVE TypeOK'
  <2> DEFINE k == call[t].key
             a == Reply(call[t].audience[k], call[t].viewer \in call[t].shared, exception[k][call[t].viewer])
             r == [call[t] EXCEPT !.answer[k] = a,
                                  !.at = IF k = "phone_visibility" THEN "shared" ELSE "answer",
                                  !.key = IF k = "phone_visibility" THEN "last_seen_visibility" ELSE k]
  <2>1. call[t] \in View
    BY <1>7, CallKinds DEF ViewException, At
  <2>2. a \in Answer
    BY DEF Reply, Answer
  <2> HIDE DEF a
  <2>3. r \in View
    BY <2>1, <2>2 DEF View, Key
  <2>4. call' = [call EXCEPT ![t] = r]
    BY <1>7 DEF ViewException, a
  <2> QED
    BY <1>7, <2>3, <2>4, Moves DEF ViewException
<1>8. ASSUME NEW t \in Thread, ViewAnswer(t) PROVE TypeOK'
  BY <1>8, Moves DEF ViewAnswer, Free
<1>9. ASSUME NEW t \in Thread, NEW fields \in Payload, PatchStart(t, fields) PROVE TypeOK'
  <2>1. [op |-> "patch", at |-> "settings", fields |-> fields] \in Patch
    BY PrivacyAssumption DEF PrivacyAssumption, Patch
  <2> QED
    BY <1>9, <2>1, Moves DEF PatchStart
<1>10. ASSUME NEW t \in Thread, PatchRead(t) PROVE TypeOK'
  <2> DEFINE f == [k \in Key |-> IF call[t].fields[k] = settings[k] THEN None ELSE call[t].fields[k]]
  <2>1. call[t] \in Patch
    BY <1>10, CallKinds DEF PatchRead
  <2>2. f \in Fields
    BY <2>1 DEF Patch, Fields
  <2>3. call' = [call EXCEPT ![t] = [call[t] EXCEPT !.at = "commit", !.fields = f]]
    BY <1>10 DEF PatchRead
  <2> HIDE DEF f
  <2>4. [call[t] EXCEPT !.at = "commit", !.fields = f] \in Patch
    BY <2>1, <2>2 DEF Patch
  <2> QED
    BY <1>10, <2>3, <2>4, Moves DEF PatchRead
<1>11. ASSUME NEW t \in Thread, PatchCommit(t) PROVE TypeOK'
  <2>0. settings # None
    BY <1>11 DEF PatchCommit, RowThere
  <2>1. call[t] \in Patch
    BY <1>11, CallKinds DEF PatchCommit
  <2>2. settings' \in [Key -> Audience]
    BY <1>11, <2>0, <2>1 DEF PatchCommit, Patch, Fields, TypeOK
  <2> QED
    BY <1>11, <2>2, Commits DEF PatchCommit, TypeOK
<1>12. ASSUME NEW t \in Thread, NEW k \in Key, NEW v \in Viewer, NEW mode \in Mode, UpsertRead(t, k, v, mode)
       PROVE  TypeOK'
  <2>1. [op |-> "upsert", key |-> k, viewer |-> v, mode |-> mode, found |-> exception[k][v]] \in Rule
    BY DEF Rule, TypeOK
  <2> QED
    BY <1>12, <2>1, Moves DEF UpsertRead
<1>13. ASSUME NEW t \in Thread, NEW k \in Key, NEW v \in Viewer, RemoveRead(t, k, v) PROVE TypeOK'
  <2>1. [op |-> "remove", key |-> k, viewer |-> v] \in Rule
    BY DEF Rule
  <2> QED
    BY <1>13, <2>1, Moves DEF RemoveRead
<1>14. ASSUME NEW t \in Thread, UpsertCommit(t) PROVE TypeOK'
  <2>1. call[t].key \in Key /\ call[t].viewer \in Viewer /\ call[t].mode \in Mode
    BY <1>14, CallKinds DEF UpsertCommit
  <2> QED
    BY <1>14, <2>1, Commits DEF UpsertCommit, TypeOK
<1>15. ASSUME NEW t \in Thread, UpsertEnds(t) PROVE TypeOK'
  BY <1>15, Moves DEF UpsertEnds, Free
<1>16. ASSUME NEW t \in Thread, RemoveCommit(t) PROVE TypeOK'
  <2>1. call[t].key \in Key /\ call[t].viewer \in Viewer
    BY <1>16, CallKinds DEF RemoveCommit
  <2> QED
    BY <1>16, <2>1, Commits DEF RemoveCommit, TypeOK
<1>17. ASSUME NEW v \in Viewer, Meet(v) PROVE TypeOK'
  BY <1>17, ChangeType DEF Meet, TypeOK
<1>18. CASE UNCHANGED vars
  BY <1>18 DEF vars, database, history, TypeOK
<1> QED
  BY <1>1, <1>2, <1>3, <1>4, <1>5, <1>6, <1>7, <1>8, <1>9, <1>10, <1>11, <1>12, <1>13, <1>14,
     <1>15, <1>16, <1>17, <1>18 DEF Next

LEMMA RowStep == TypeOK /\ RowThere /\ [Next]_vars => RowThere'
<1> SUFFICES ASSUME TypeOK, RowThere, [Next]_vars, settings' = None PROVE RowThere'
  BY DEF RowThere
<1> DEFINE Before(o) == ~Patching(o, "commit") /\ ~At(o, "shared") /\ ~At(o, "exception") /\ ~At(o, "answer")
<1>1. settings = None
  <2>1. ASSUME NEW t \in Thread, PatchCommit(t), settings # None PROVE FALSE
    <3>1. call[t] \in Patch
      BY <2>1, CallKinds DEF PatchCommit
    <3>2. settings' \in [Key -> Audience]
      BY <2>1, <3>1 DEF PatchCommit, Patch, Fields, TypeOK
    <3> QED
      BY <3>2, PrivacyAssumption DEF PrivacyAssumption
  <2> QED
    BY <2>1 DEF Next, vars, database, history, Missing, Insert, InsertFails, ViewStart, ViewSettings,
       ViewShared, ViewException, ViewAnswer, PatchStart, PatchRead, UpsertRead, RemoveRead,
       UpsertCommit, UpsertEnds, RemoveCommit, Meet
<1>2. \A o \in Thread : Before(o)
  BY <1>1 DEF RowThere
<1>3. ASSUME NEW t \in Thread, NEW r, call' = [call EXCEPT ![t] = r],
             r = None \/ r.op \notin {"profile", "find", "patch"} \/ r.at \in {"settings", "insert"}
      PROVE  RowThere'
  <2>1. call'[t] = r /\ \A o \in Thread : o # t => call'[o] = call[o]
    BY <1>3, CallIs
  <2> QED
    BY <1>2, <1>3, <2>1 DEF RowThere, Patching, At, Viewing
<1>4. CASE UNCHANGED call
  BY <1>2, <1>4 DEF RowThere, Patching, At, Viewing
<1>5. ASSUME NEW t \in Thread, Free(t) PROVE RowThere'
  BY <1>3, <1>5 DEF Free
<1>6. ASSUME NEW t \in Thread, Missing(t) PROVE RowThere'
  <2>1. [call[t] EXCEPT !.at = "insert"].at = "insert"
    BY <1>6, CallKinds DEF Missing, At, View, Patch
  <2> QED
    BY <1>3, <1>6, <2>1 DEF Missing
<1>7. ASSUME NEW t \in Thread, Insert(t) PROVE RowThere'
  BY <1>7, PrivacyAssumption DEF PrivacyAssumption, Insert, Default, Audience
<1>8. ASSUME NEW t \in Thread, NEW v \in Viewer, NEW op \in {"profile", "find"}, ViewStart(t, v, op)
      PROVE  RowThere'
  BY <1>3, <1>8 DEF ViewStart
<1>9. ASSUME NEW t \in Thread, NEW fields \in Payload, PatchStart(t, fields) PROVE RowThere'
  BY <1>3, <1>9 DEF PatchStart
<1>10. ASSUME NEW t \in Thread, NEW k \in Key, NEW v \in Viewer,
              RemoveRead(t, k, v) \/ \E mode \in Mode : UpsertRead(t, k, v, mode)
       PROVE  RowThere'
  BY <1>3, <1>10 DEF RemoveRead, UpsertRead
<1>11. ASSUME NEW t \in Thread, ViewSettings(t) \/ PatchRead(t) \/ ViewShared(t) \/ ViewException(t)
       PROVE  RowThere'
  BY <1>1, <1>2, <1>11 DEF ViewSettings, PatchRead, ViewShared, ViewException
<1> QED
  BY <1>4, <1>5, <1>6, <1>7, <1>8, <1>9, <1>10, <1>11
  DEF Next, InsertFails, ViewAnswer, PatchCommit, UpsertCommit, UpsertEnds, RemoveCommit, Meet, vars

-----------------------------------------------------------------------------
(* What the readings are worth.                                            *)

\* Steps that change nothing a viewer's request reads, but for the request of
\* one thread.
LEMMA MovesKnown ==
    ASSUME TypeOK, Known, NEW t \in Thread, NEW r, call' = [call EXCEPT ![t] = r],
           UNCHANGED <<related, exception, history>>, \A k \in Key : AudienceOf(k)' = AudienceOf(k),
           r # None /\ r.op \in {"profile", "find"} => \A k \in Key : Knows(t, k, r)
    PROVE  Known'
<1>1. call'[t] = r /\ \A o \in Thread : o # t => call'[o] = call[o]
  BY CallIs
<1>2. ASSUME NEW o \in Thread, Viewing(o)', NEW k \in Key PROVE Knows(o, k, call[o])'
  <2>1. Knows(o, k, call'[o])
    <3>1. CASE o = t
      BY <1>1, <1>2, <3>1 DEF Viewing
    <3>2. CASE o # t
      BY <1>1, <1>2, <3>2 DEF Viewing, Known
    <3> QED
      BY <3>1, <3>2
  <2> QED
    BY <2>1 DEF Knows, Truth, history
<1> QED
  BY <1>2 DEF Known

\* The value of an exception that is less open shows no more.
LEMMA LessOpen ==
    ASSUME NEW a, NEW s, NEW e \in Mode \union {None}, NEW f \in Mode \union {None},
           ~(Openness(f) > Openness(e)), Reply(a, s, f) = "shown"
    PROVE  Reply(a, s, e) = "shown"
<1>1. None \notin Mode /\ None # "nobody" /\ None # "everyone"
  BY PrivacyAssumption DEF PrivacyAssumption, Audience
<1>2. Openness("allow") = 2 /\ Openness("disallow") = 0 /\ Openness(None) = 1
  BY <1>1 DEF Openness, Mode
<1>3. e \in {"allow", "disallow", None} /\ f \in {"allow", "disallow", None}
  BY DEF Mode
<1>4. CASE e = "allow"
  BY <1>4 DEF Reply, Allows
<1>5. CASE e = "disallow"
  BY <1>1, <1>2, <1>3, <1>5 DEF Reply, Allows, Mode
<1>6. CASE e = None
  BY <1>1, <1>2, <1>3, <1>6 DEF Reply, Allows, Mode
<1> QED
  BY <1>3, <1>4, <1>5, <1>6

\* A change, as a request under way meets it.
LEMMA ChangeKnows ==
    ASSUME TypeOK, TypeOK', Change, related \subseteq related',
           NEW t \in Thread, Viewing(t), call'[t] = call[t], NEW k \in Key, Knows(t, k, call[t])
    PROVE  Knows(t, k, call[t])'
<1> DEFINE c == call[t]
           v == call[t].viewer
           e == exception[k][v]
           f == exception'[k][v]
<1>1. c \in View /\ v \in Viewer
  BY CallKinds DEF View
<1>2. /\ truths'[t][k] = truths[t][k] \union {TruthNext(k, v)}
      /\ touched'[t][k] = touched[t][k] \union Changed(k, v)
      /\ eased' [t] = eased[t] \union {j \in Key : Eases(j, v)}
  BY DEF Change
<1>3. /\ "audience" \in Changed(k, v) <=> AudienceOf(k)' # AudienceOf(k)
      /\ "related" \in Changed(k, v) <=> ~(v \in related' <=> v \in related)
      /\ "exception" \in Changed(k, v) <=> f # e
  BY DEF Changed, Input
<1>4. /\ k \notin eased'[t] => k \notin eased[t]
      /\ k \notin eased'[t] => (v \in related' <=> v \in related) /\ ~(Openness(f) > Openness(e))
  BY <1>2 DEF Eases
<1>5. e \in Mode \union {None} /\ f \in Mode \union {None}
  BY <1>1 DEF TypeOK
<1> DEFINE mixed == Reply(c.audience[k], v \in related, e)
           mixedNext == Reply(c.audience[k], v \in related', f)
<1>6. TruthNext(k, v) \in truths'[t][k] /\ TruthNext(k, v) = Reply(AudienceOf(k)', v \in related', f)
  BY <1>2 DEF TruthNext
<1>7. ASSUME c.at \in {"shared", "exception"}
      PROVE  /\ c.audience[k] = AudienceOf(k)' \/ "audience" \in touched'[t][k]
             /\ mixedNext \in truths'[t][k] \/ "related" \in touched'[t][k] \/ "exception" \in touched'[t][k]
             /\ mixedNext = "shown" => "shown" \in truths'[t][k] \/ k \in eased'[t]
  <2>1. /\ c.audience[k] = AudienceOf(k) \/ "audience" \in touched[t][k]
        /\ mixed \in truths[t][k] \/ "related" \in touched[t][k] \/ "exception" \in touched[t][k]
        /\ mixed = "shown" => "shown" \in truths[t][k] \/ k \in eased[t]
    BY <1>7 DEF Knows
  <2>2. c.audience[k] = AudienceOf(k)' \/ "audience" \in touched'[t][k]
    BY <2>1, <1>2, <1>3
  <2>3. mixedNext \in truths'[t][k] \/ "related" \in touched'[t][k] \/ "exception" \in touched'[t][k]
    <3>1. CASE (v \in related' <=> v \in related) /\ f = e
      <4>1. mixedNext = mixed
        BY <3>1 DEF Reply, Allows
      <4> QED
        BY <4>1, <2>1, <1>2
    <3>2. CASE ~((v \in related' <=> v \in related) /\ f = e)
      BY <3>2, <1>2, <1>3
    <3> QED
      BY <3>1, <3>2
  <2>4. ASSUME mixedNext = "shown", k \notin eased'[t] PROVE "shown" \in truths'[t][k]
    <3>1. Reply(c.audience[k], v \in related, f) = "shown"
      BY <2>4, <1>4 DEF Reply, Allows
    <3>2. mixed = "shown"
      BY <2>4, <3>1, <1>4, <1>5, LessOpen
    <3> QED
      BY <2>1, <2>4, <3>2, <1>2, <1>4
  <2> QED
    BY <2>2, <2>3, <2>4
<1>8. ASSUME c.at = "exception", c.key = k
      PROVE  /\ v \in c.shared => v \in related'
             /\ ((v \in c.shared) <=> (v \in related')) \/ "related" \in touched'[t][k]
             /\ \/ Reply(AudienceOf(k)', v \in c.shared, f) \in truths'[t][k]
                \/ "audience" \in touched'[t][k]
                \/ "exception" \in touched'[t][k]
  <2>1. /\ v \in c.shared => v \in related
        /\ ((v \in c.shared) <=> (v \in related)) \/ "related" \in touched[t][k]
        /\ \/ Reply(AudienceOf(k), v \in c.shared, e) \in truths[t][k]
           \/ "audience" \in touched[t][k]
           \/ "exception" \in touched[t][k]
    BY <1>8 DEF Knows
  <2>2. ((v \in c.shared) <=> (v \in related')) \/ "related" \in touched'[t][k]
    BY <2>1, <1>2, <1>3
  <2>3. \/ Reply(AudienceOf(k)', v \in c.shared, f) \in truths'[t][k]
        \/ "audience" \in touched'[t][k]
        \/ "exception" \in touched'[t][k]
    BY <2>1, <1>2, <1>3
  <2> QED
    BY <2>1, <2>2, <2>3
<1>9. ASSUME c.answer[k] # None
      PROVE  /\ c.answer[k] \in truths'[t][k] \/ \E i, j \in touched'[t][k] : i # j
             /\ c.answer[k] = "shown" => "shown" \in truths'[t][k] \/ k \in eased'[t]
  <2>1. /\ c.answer[k] \in truths[t][k] \/ \E i, j \in touched[t][k] : i # j
        /\ c.answer[k] = "shown" => "shown" \in truths[t][k] \/ k \in eased[t]
    BY <1>9 DEF Knows
  <2> QED
    BY <2>1, <1>2
<1> QED
  BY <1>6, <1>7, <1>8, <1>9 DEF Knows, Truth

LEMMA ChangeKnown ==
    ASSUME TypeOK, TypeOK', Known, Change, related \subseteq related',
           \/ UNCHANGED call
           \/ \E t \in Thread : Free(t)
    PROVE  Known'
<1>1. ASSUME NEW o \in Thread, Viewing(o)' PROVE Viewing(o) /\ call'[o] = call[o]
  BY <1>1, CallIs DEF Free, Viewing
<1>2. ASSUME NEW o \in Thread, Viewing(o)', NEW k \in Key PROVE Knows(o, k, call[o])'
  <2>1. Viewing(o) /\ call'[o] = call[o] /\ Knows(o, k, call[o])
    BY <1>1, <1>2 DEF Known
  <2> QED
    BY <2>1, ChangeKnows
<1> QED
  BY <1>2 DEF Known

LEMMA ViewStartKnown ==
    ASSUME IInv, NEW t \in Thread, NEW v \in Viewer, NEW op \in {"profile", "find"}, ViewStart(t, v, op)
    PROVE  Known'
<1> USE DEF IInv
<1> DEFINE r == [op |-> op, viewer |-> v, at |-> "settings",
                 key |-> IF op = "find" THEN "phone_search_visibility" ELSE "phone_visibility",
                 audience |-> NoFields, shared |-> {}, answer |-> [k \in Key |-> None]]
<1>1. call' = [call EXCEPT ![t] = r] /\ UNCHANGED database
  BY DEF ViewStart
<1>2. call'[t] = r /\ \A o \in Thread : o # t => call'[o] = call[o]
  BY <1>1, CallIs
<1>3. truths'[t] = [k \in Key |-> {Truth(k, v)}]
  BY DEF ViewStart, TypeOK
<1>4. \A o \in Thread : o # t =>
          truths'[o] = truths[o] /\ touched'[o] = touched[o] /\ eased'[o] = eased[o]
  BY DEF ViewStart, TypeOK
<1>5. ASSUME NEW o \in Thread, Viewing(o)', NEW k \in Key PROVE Knows(o, k, call[o])'
  <2>1. CASE o = t
    <3>1. Truth(k, v)' \in truths'[t][k]
      BY <1>1, <1>3 DEF Truth, AudienceOf, database
    <3> QED
      BY <2>1, <3>1, <1>2 DEF Knows
  <2>2. CASE o # t
    <3>1. Knows(o, k, call[o])
      BY <2>2, <1>2, <1>5 DEF Known, Viewing
    <3> QED
      BY <2>2, <3>1, <1>1, <1>2, <1>4 DEF Knows, Truth, AudienceOf, database
  <2> QED
    BY <2>1, <2>2
<1> QED
  BY <1>5 DEF Known

LEMMA ViewSettingsKnown ==
    ASSUME IInv, NEW t \in Thread, ViewSettings(t)
    PROVE  Known'
<1> USE DEF IInv
<1> DEFINE r == [call[t] EXCEPT !.at = "shared", !.audience = settings]
<1>1. call[t] \in View /\ Viewing(t) /\ call[t] # None
  BY CallKinds DEF ViewSettings, At, Viewing
<1>2. /\ r.viewer = call[t].viewer /\ r.answer = call[t].answer /\ r.at = "shared"
      /\ r.audience = settings
  BY <1>1 DEF View
<1>3. ASSUME NEW k \in Key PROVE Knows(t, k, r)
  <2>1. Knows(t, k, call[t])
    BY <1>1 DEF Known
  <2>2. r.audience[k] = AudienceOf(k)
    BY <1>2 DEF ViewSettings, AudienceOf
  <2>3. Truth(k, r.viewer) \in truths[t][k]
        /\ Truth(k, r.viewer) = Reply(r.audience[k], r.viewer \in related, exception[k][r.viewer])
    BY <2>1, <2>2, <1>2 DEF Knows, Truth
  <2>4. r.answer[k] # None =>
          /\ r.answer[k] \in truths[t][k] \/ \E i, j \in touched[t][k] : i # j
          /\ r.answer[k] = "shown" => "shown" \in truths[t][k] \/ k \in eased[t]
    BY <2>1, <1>2 DEF Knows
  <2> HIDE DEF r
  <2> QED
    BY <2>2, <2>3, <2>4, <1>2 DEF Knows
<1>4. call' = [call EXCEPT ![t] = r] /\ UNCHANGED <<database, history>>
  BY DEF ViewSettings
<1> HIDE DEF r
<1> QED
  BY <1>3, <1>4, MovesKnown DEF AudienceOf, database

LEMMA ViewSharedKnown ==
    ASSUME IInv, NEW t \in Thread, ViewShared(t)
    PROVE  Known'
<1> USE DEF IInv
<1> DEFINE r == [call[t] EXCEPT !.at = "exception", !.shared = related \intersect {call[t].viewer}]
<1>1. call[t] \in View /\ Viewing(t) /\ call[t].at = "shared"
  BY CallKinds DEF ViewShared, At, Viewing
<1>2. /\ r.viewer = call[t].viewer /\ r.answer = call[t].answer /\ r.at = "exception"
      /\ r.audience = call[t].audience /\ (r.viewer \in r.shared <=> r.viewer \in related)
  BY <1>1 DEF View
<1>3. ASSUME NEW k \in Key PROVE Knows(t, k, r)
  <2>1. Knows(t, k, call[t])
    BY <1>1 DEF Known
  <2>2. Truth(k, r.viewer) \in truths[t][k]
        /\ Truth(k, r.viewer) = Reply(AudienceOf(k), r.viewer \in r.shared, exception[k][r.viewer])
    BY <2>1, <1>2 DEF Knows, Truth, Reply, Allows
  <2> HIDE DEF r
  <2> QED
    BY <2>1, <2>2, <1>1, <1>2 DEF Knows
<1>4. call' = [call EXCEPT ![t] = r] /\ UNCHANGED <<database, history>>
  BY DEF ViewShared
<1> HIDE DEF r
<1> QED
  BY <1>3, <1>4, MovesKnown DEF AudienceOf, database

\* With at most one input touched, two of the readings are current, and the
\* answer is the one that the third has kept true.
LEMMA AnswerKnown ==
    ASSUME IInv, NEW t \in Thread, At(t, "exception")
    PROVE  LET k == call[t].key
               v == call[t].viewer
               a == Reply(call[t].audience[k], v \in call[t].shared, exception[k][v]) IN
           /\ a \in truths[t][k] \/ \E i, j \in touched[t][k] : i # j
           /\ a = "shown" => "shown" \in truths[t][k] \/ k \in eased[t]
<1> USE DEF IInv
<1> DEFINE k == call[t].key
           v == call[t].viewer
           a == Reply(call[t].audience[k], v \in call[t].shared, exception[k][v])
           mixed == Reply(call[t].audience[k], v \in related, exception[k][v])
           T == truths[t][k]
           U == touched[t][k]
<1>1. call[t] \in View /\ Viewing(t) /\ call[t].at = "exception" /\ k \in Key
  BY CallKinds DEF At, View
<1>2. Knows(t, k, call[t])
  BY <1>1 DEF Known
<1>3. /\ call[t].audience[k] = AudienceOf(k) \/ "audience" \in U
      /\ mixed \in T \/ "related" \in U \/ "exception" \in U
      /\ mixed = "shown" => "shown" \in T \/ k \in eased[t]
      /\ v \in call[t].shared => v \in related
      /\ (v \in call[t].shared <=> v \in related) \/ "related" \in U
      /\ \/ Reply(AudienceOf(k), v \in call[t].shared, exception[k][v]) \in T
         \/ "audience" \in U \/ "exception" \in U
      /\ Truth(k, v) \in T
  BY <1>1, <1>2 DEF Knows
<1>4. ASSUME ~\E i, j \in U : i # j PROVE a \in T
  <2>1. CASE call[t].audience[k] = AudienceOf(k) /\ (v \in call[t].shared <=> v \in related)
    BY <2>1, <1>3 DEF Truth, Reply, Allows
  <2>2. CASE "audience" \in U
    <3>1. "related" \notin U /\ "exception" \notin U
      BY <1>4, <2>2
    <3>2. a = mixed /\ mixed \in T
      BY <3>1, <1>3 DEF Reply, Allows
    <3> QED
      BY <3>2
  <2>3. CASE "related" \in U
    <3>1. "audience" \notin U /\ "exception" \notin U
      BY <1>4, <2>3
    <3>2. a = Reply(AudienceOf(k), v \in call[t].shared, exception[k][v])
      BY <3>1, <1>3
    <3> QED
      BY <3>1, <3>2, <1>3
  <2> QED
    BY <2>1, <2>2, <2>3, <1>3
<1>5. ASSUME a = "shown" PROVE "shown" \in T \/ k \in eased[t]
  <2>1. mixed = "shown"
    BY <1>3, <1>5 DEF Reply, Allows
  <2> QED
    BY <2>1, <1>3
<1> QED
  BY <1>4, <1>5

LEMMA ViewExceptionKnown ==
    ASSUME IInv, NEW t \in Thread, ViewException(t)
    PROVE  Known'
<1> USE DEF IInv
<1> DEFINE k == call[t].key
           v == call[t].viewer
           a == Reply(call[t].audience[k], v \in call[t].shared, exception[k][v])
           r == [call[t] EXCEPT !.answer[k] = a,
                                !.at = IF k = "phone_visibility" THEN "shared" ELSE "answer",
                                !.key = IF k = "phone_visibility" THEN "last_seen_visibility" ELSE k]
<1>1. call[t] \in View /\ Viewing(t) /\ call[t].at = "exception" /\ k \in Key
  BY CallKinds DEF ViewException, At, View
<1>2. call' = [call EXCEPT ![t] = r] /\ UNCHANGED <<database, history>>
  BY DEF ViewException
<1>3. /\ a \in truths[t][k] \/ \E i, j \in touched[t][k] : i # j
      /\ a = "shown" => "shown" \in truths[t][k] \/ k \in eased[t]
  BY AnswerKnown DEF ViewException
<1> HIDE DEF a
<1>4. /\ r.viewer = v /\ r.audience = call[t].audience /\ r.at \in {"shared", "answer"}
      /\ r.answer[k] = a /\ \A j \in Key : j # k => r.answer[j] = call[t].answer[j]
  BY <1>1 DEF View
<1> HIDE DEF r
<1>5. ASSUME NEW j \in Key PROVE Knows(t, j, r)
  <2>1. Knows(t, j, call[t])
    BY <1>1 DEF Known
  <2>2. CASE j = k
    BY <2>1, <2>2, <1>1, <1>3, <1>4 DEF Knows
  <2>3. CASE j # k
    BY <2>1, <2>3, <1>1, <1>4 DEF Knows
  <2> QED
    BY <2>2, <2>3
<1> QED
  BY <1>2, <1>5, MovesKnown DEF AudienceOf, database

LEMMA SafeStep == IInv /\ [Next]_vars => IInv'
<1> SUFFICES ASSUME IInv, [Next]_vars PROVE IInv'
  OBVIOUS
<1> USE DEF IInv
<1>1. TypeOK' /\ RowThere'
  BY TypeStep, RowStep
<1>2. ASSUME NEW t \in Thread, NEW r, call' = [call EXCEPT ![t] = r], UNCHANGED <<database, history>>,
             r = None \/ r.op \notin {"profile", "find"}
      PROVE  Known'
  BY <1>2, MovesKnown DEF AudienceOf, database
<1>3. ASSUME NEW t \in Thread, Free(t), UNCHANGED <<database, history>> PROVE Known'
  BY <1>2, <1>3 DEF Free
<1>4. ASSUME NEW t \in Thread, NEW place \in {"insert", "settings"},
             call' = [call EXCEPT ![t].at = place], At(t, "settings") \/ At(t, "insert") \/ \E p : Patching(t, p),
             UNCHANGED <<related, exception, history>>, \A k \in Key : AudienceOf(k)' = AudienceOf(k)
      PROVE  Known'
  <2> DEFINE r == [call[t] EXCEPT !.at = place]
  <2>1. CASE \E p : Patching(t, p)
    <3>1. r.op = "patch"
      BY <2>1, CallKinds DEF Patch
    <3> QED
      BY <1>4, <3>1, MovesKnown
  <2>2. CASE At(t, "settings") \/ At(t, "insert")
    <3>1. call[t] \in View /\ Viewing(t)
      BY <2>2, CallKinds DEF At
    <3>2. r.viewer = call[t].viewer /\ r.answer = call[t].answer /\ r.at = place
      BY <3>1 DEF View
    <3>3. \A k \in Key : Knows(t, k, call[t])
      BY <3>1 DEF Known
    <3> HIDE DEF r
    <3>4. \A k \in Key : Knows(t, k, r)
      BY <1>4, <3>2, <3>3 DEF Knows
    <3>5. call' = [call EXCEPT ![t] = r]
      BY <1>4 DEF r
    <3> QED
      BY <1>4, <3>4, <3>5, MovesKnown
  <2> QED
    BY <1>4, <2>1, <2>2
<1>5. ASSUME NEW t \in Thread, Missing(t) PROVE Known'
  BY <1>4, <1>5 DEF Missing, database, AudienceOf
<1>6. ASSUME NEW t \in Thread, Insert(t) PROVE Known'
  <2>1. \A k \in Key : AudienceOf(k)' = AudienceOf(k)
    BY <1>6 DEF Insert, AudienceOf, Default
  <2> QED
    BY <1>4, <1>6, <2>1 DEF Insert
<1>7. ASSUME NEW t \in Thread, InsertFails(t) \/ ViewAnswer(t) \/ UpsertEnds(t) PROVE Known'
  BY <1>3, <1>7 DEF InsertFails, ViewAnswer, UpsertEnds
<1>8. ASSUME NEW t \in Thread, NEW fields \in Payload, PatchStart(t, fields) PROVE Known'
  BY <1>2, <1>8 DEF PatchStart
<1>9. ASSUME NEW t \in Thread, PatchRead(t) PROVE Known'
  <2> DEFINE r == [call[t] EXCEPT !.at = "commit",
                     !.fields = [k \in Key |-> IF @[k] = settings[k] THEN None ELSE @[k]]]
  <2>1. r.op = "patch" /\ call' = [call EXCEPT ![t] = r]
    BY <1>9, CallKinds DEF PatchRead, Patch
  <2> QED
    BY <1>2, <1>9, <2>1 DEF PatchRead
<1>10. ASSUME NEW t \in Thread, NEW k \in Key, NEW v \in Viewer,
              RemoveRead(t, k, v) \/ \E mode \in Mode : UpsertRead(t, k, v, mode)
       PROVE  Known'
  BY <1>2, <1>10 DEF RemoveRead, UpsertRead
<1>11. ASSUME NEW t \in Thread, PatchCommit(t) PROVE Known'
  <2>1. CASE UNCHANGED history /\ settings' = settings
    BY <1>3, <1>11, <2>1 DEF PatchCommit, database
  <2>2. CASE Change
    BY <1>1, <1>11, <2>2, ChangeKnown DEF PatchCommit
  <2> QED
    BY <1>11, <2>1, <2>2 DEF PatchCommit
<1>12. ASSUME NEW t \in Thread, UpsertCommit(t) \/ RemoveCommit(t) PROVE Known'
  <2>1. CASE UNCHANGED history /\ exception' = exception
    BY <1>3, <1>12, <2>1 DEF UpsertCommit, RemoveCommit, database
  <2>2. CASE Change
    BY <1>1, <1>12, <2>2, ChangeKnown DEF UpsertCommit, RemoveCommit
  <2> QED
    BY <1>12, <2>1, <2>2 DEF UpsertCommit, RemoveCommit
<1>13. ASSUME NEW v \in Viewer, Meet(v) PROVE Known'
  BY <1>1, <1>13, ChangeKnown DEF Meet
<1>14. CASE UNCHANGED vars
  <2>1. UNCHANGED <<settings, related, exception, call, truths, touched, eased>>
    BY <1>14 DEF vars, database, history
  <2>2. ASSUME NEW t \in Thread, Viewing(t)', NEW k \in Key PROVE Knows(t, k, call[t])'
    <3>1. Knows(t, k, call[t])
      BY <2>1, <2>2 DEF Known, Viewing
    <3> QED
      BY <2>1, <3>1 DEF Knows, Truth, AudienceOf
  <2> QED
    BY <1>1, <2>2 DEF Known
<1> QED
  BY <1>1, <1>5, <1>6, <1>7, <1>8, <1>9, <1>10, <1>11, <1>12, <1>13, <1>14,
     ViewStartKnown, ViewSettingsKnown, ViewSharedKnown, ViewExceptionKnown DEF Next

-----------------------------------------------------------------------------

\* TypeOK: the rows and the requests under way are always of their kinds.
THEOREM TypeCorrect == Spec => []TypeOK
<1>1. IInv => TypeOK
  BY DEF IInv
<1> QED
  BY <1>1, InitOK, SafeStep, PTL DEF Spec

\* AnswerWasTrue: what serialize_user_public and can_find_by_phone answer was
\* true at some moment of the request unless two of their inputs changed.
THEOREM AnswerSafe == Spec => []AnswerWasTrue
<1>1. IInv => AnswerWasTrue
  BY DEF IInv, Known, Knows, AnswerWasTrue, Answered
<1> QED
  BY <1>1, InitOK, SafeStep, PTL DEF Spec

\* TighteningNeverShows: changes that only tighten a setting cannot make a
\* request show what was never visible, however many it meets.
THEOREM TighteningSafe == Spec => []TighteningNeverShows
<1>1. IInv => TighteningNeverShows
  BY DEF IInv, Known, Knows, TighteningNeverShows, Answered
<1> QED
  BY <1>1, InitOK, SafeStep, PTL DEF Spec
=============================================================================
