-------------------------------- MODULE Media --------------------------------
(***************************************************************************)
(* Uploads of one user to one chat: the files below media_root, the rows   *)
(* of media_files and the requests of upload_media, some of which repeat   *)
(* an upload under its client_upload_id.  The handler runs on the event    *)
(* loop and only waits while it reads the body, so what comes before and   *)
(* after that is one step each.                                            *)
(*                                                                         *)
(* Files and rows are named after the request that made them.  Nothing in  *)
(* the program deletes a row; that a file disappears behind its back is    *)
(* external, but the handler looks for it.  Names that Chats has too carry *)
(* a prefix, since ChatsProofs is about both modules.                      *)
(***************************************************************************)
EXTENDS FiniteSets

CONSTANTS
    Request,    \* requests, each of which is made once
    UploadId,   \* values of client_upload_id
    Nothing     \* no client_upload_id, no answer

VARIABLES
    files,      \* the uploads whose file is there
    thumbs,     \* the uploads whose thumbnail is there
    rows,       \* media_files
    thumbed,    \* the rows with a thumbnail_storage_name
    at,         \* where each request is
    upload,     \* its client_upload_id
    answer,     \* the row it was answered with
    lost,       \* the uploads whose file or thumbnail disappeared
    left        \* the requests that ended in the middle: the process died, or
                \* analyze_media or the commit raised what nobody catches

disk == <<files, thumbs>>
table == <<rows, thumbed>>
mediaVars == <<disk, table, at, upload, answer, lost, left>>

MediaTypeOK ==
    /\ files \subseteq Request /\ thumbs \subseteq Request
    /\ rows \subseteq Request /\ thumbed \subseteq rows
    /\ at \in [Request -> {"new", "streaming", "done"}]
    /\ upload \in [Request -> UploadId \union {Nothing}]
    /\ answer \in [Request -> rows \union {Nothing}]
    /\ lost \subseteq Request /\ left \subseteq Request

MediaInit ==
    /\ files = {} /\ thumbs = {} /\ rows = {} /\ thumbed = {}
    /\ at = [r \in Request |-> "new"]
    /\ upload = [r \in Request |-> Nothing] /\ answer = [r \in Request |-> Nothing]
    /\ lost = {} /\ left = {}

\* The rows with this client_upload_id; NULL is not equal to anything.
Existing(u) == IF u = Nothing THEN {} ELSE {m \in rows : upload[m] = u}

Ends(r) == at' = [at EXCEPT ![r] = "done"]

Answers(r, m) ==
    /\ Ends(r)
    /\ answer' = [answer EXCEPT ![r] = m]

\* A repeated upload whose file is still there is answered at once.
Repeat(r, u) ==
    /\ at[r] = "new"
    /\ upload' = [upload EXCEPT ![r] = u]
    /\ \E m \in Existing(u) \intersect files : Answers(r, m)
    /\ UNCHANGED <<disk, table, lost, left>>

\* Otherwise the target is opened.
Open(r, u) ==
    /\ at[r] = "new" /\ Existing(u) \intersect files = {}
    /\ upload' = [upload EXCEPT ![r] = u]
    /\ files' = files \union {r}
    /\ at' = [at EXCEPT ![r] = "streaming"]
    /\ UNCHANGED <<thumbs, table, answer, lost, left>>

\* The body is empty or too large, or reading or writing it fails.
Refuse(r) ==
    /\ at[r] = "streaming"
    /\ files' = files \ {r}
    /\ Ends(r)
    /\ UNCHANGED <<thumbs, table, upload, answer, lost, left>>

\* The row is committed, with the thumbnail that was made.
Commit(r, thumb) ==
    /\ at[r] = "streaming" /\ Existing(upload[r]) = {}
    /\ rows' = rows \union {r}
    /\ thumbs' = thumbs \union thumb /\ thumbed' = thumbed \union thumb
    /\ Answers(r, r)
    /\ UNCHANGED <<files, upload, lost, left>>

\* Mutant of Conflict: the answer names the row that was rolled back.
ConflictAnswersOwn(r) ==
    /\ at[r] = "streaming" /\ Existing(upload[r]) # {}
    /\ files' = files \ {r}
    /\ Answers(r, r)
    /\ UNCHANGED <<thumbs, table, upload, lost, left>>

\* Mutant of Conflict: the thumbnail stays.
ConflictLeavesThumb(r) ==
    /\ at[r] = "streaming"
    /\ files' = files \ {r} /\ thumbs' = thumbs \union {r}
    /\ \E m \in Existing(upload[r]) : Answers(r, m)
    /\ UNCHANGED <<table, upload, lost, left>>

\* Mutant of Conflict: the upload is stored under no client_upload_id.
ConflictKeepsBoth(r) ==
    /\ at[r] = "streaming" /\ Existing(upload[r]) # {}
    /\ rows' = rows \union {r}
    /\ Answers(r, r)
    /\ UNCHANGED <<disk, thumbed, upload, lost, left>>

\* Another request has committed a row with this client_upload_id, or its file had
\* been lost: the new file and thumbnail are unlinked and the old row is answered.
Conflict(r) ==
    /\ at[r] = "streaming"
    /\ files' = files \ {r}
    /\ \E m \in Existing(upload[r]) : Answers(r, m)
    /\ UNCHANGED <<thumbs, table, upload, lost, left>>

\* analyze_media or the commit raises something else: the files stay.
Raises(r, thumb) ==
    /\ at[r] = "streaming"
    /\ thumbs' = thumbs \union thumb
    /\ left' = left \union {r}
    /\ Ends(r)
    /\ UNCHANGED <<files, table, upload, answer, lost>>

\* The process dies, possibly between the file and the commit of its row.
Crash ==
    /\ \E r \in Request : at[r] = "streaming"
    /\ left' = left \union {r \in Request : at[r] = "streaming"}
    /\ at' = [r \in Request |-> IF at[r] = "streaming" THEN "done" ELSE at[r]]
    /\ UNCHANGED <<disk, table, upload, answer, lost>>

\* A file or a thumbnail disappears (external).
Lose(m) ==
    /\ m \in rows /\ m \notin lost
    /\ \/ files' = files \ {m} /\ UNCHANGED thumbs
       \/ thumbs' = thumbs \ {m} /\ UNCHANGED files
    /\ lost' = lost \union {m}
    /\ UNCHANGED <<table, at, upload, answer, left>>

MediaNext ==
    \/ Crash
    \/ \E r \in Request :
       \/ Refuse(r) \/ Conflict(r) \/ Lose(r)
       \/ \E u \in UploadId \union {Nothing} : Repeat(r, u) \/ Open(r, u)
       \/ \E thumb \in SUBSET {r} : Commit(r, thumb) \/ Raises(r, thumb)

MediaSpec == MediaInit /\ [][MediaNext]_mediaVars

-----------------------------------------------------------------------------
(* Properties.                                                             *)

\* Every row has its file and its thumbnail unless they were lost, and on disk is
\* nothing but what belongs to a row, to a request under way, or to one that was
\* torn off, however repeated uploads overlap.
FilesMatchRows ==
    LET streaming == {r \in Request : at[r] = "streaming"} IN
    /\ rows \subseteq files \union lost /\ thumbed \subseteq thumbs \union lost
    /\ files \subseteq rows \union streaming \union left
    /\ thumbs \subseteq thumbed \union left

\* All requests with one client_upload_id are answered with one row, so a client
\* that repeats an upload never attaches it twice.
OneUploadPerId ==
    \A r, q \in Request :
        answer[r] # Nothing /\ answer[q] # Nothing /\ upload[r] = upload[q] /\ upload[r] # Nothing =>
            answer[r] = answer[q]
=============================================================================
