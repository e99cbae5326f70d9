----------------------------- MODULE Artifacts -----------------------------
(* The objects in storage and the rows that point at them: the upload of an   *)
(* audio file (routes/audio.py), its transcription (jobs/transcribe.py) and   *)
(* the deletion of its episode (services/deletion.py, routes/episodes.py).    *)
(* An object is its content: the bytes of a recording, or the transcript made *)
(* of those bytes; a checksum is the bytes it was computed from.  Every key   *)
(* names one episode, so an audio file is its own key.                        *)
EXTENDS Naturals, FiniteSets

CONSTANTS
  Episodes,
  Deletable,          \* bound: the episodes that somebody deletes
  Audios,             \* audio files that clients upload
  Bytes,              \* contents of recordings
  Damaged,            \* what arrives when an upload was corrupted
  Runs,               \* executions of transcribe jobs; a redelivery is one more
  MaxRows,            \* bound on the transcript rows ever written
  Resends,            \* whether clients use an upload target again
  Keeping,            \* whether storage keeps a checksum: {TRUE}, or BOOLEAN
  None

Contents == Bytes \cup {Damaged}
TranscriptKeys == Episodes \X Contents
Keys == Audios \cup TranscriptKeys

ASSUME ArtifactsAssumption ==
  /\ Deletable \subseteq Episodes
  /\ MaxRows \in Nat /\ Resends \in BOOLEAN /\ Keeping \subseteq BOOLEAN
  /\ Damaged \notin Bytes
  /\ None \notin Episodes \cup Audios \cup Contents \cup Keys
  /\ Audios \cap TranscriptKeys = {}

VARIABLES
  episodes,    \* the episodes with a row
  audio,       \* the audio_files rows
  rows,        \* the transcripts rows, numbered by created_at
  count,       \* how many were ever written
  jobs,        \* audio files with a transcribe job that is not dead
  done,        \* those whose job succeeded
  stored,      \* the object at a key
  up,          \* the client of an audio file
  run,         \* the executions
  del,         \* the request that deletes an episode
  overlapped,  \* history: audio files two executions worked on at once
  crossed,     \* history: artifacts a deletion took from under a cache hit
  unchecked    \* history: the bytes clients declared of recordings that are others

tables == <<episodes, audio, rows, count, jobs, done>>
history == <<overlapped, crossed, unchecked>>
vars == <<tables, stored, up, run, del, history>>

AudioRows ==
  [of : Episodes, status : {"pending", "ready"}, checksum : Bytes \cup {None}]
ASSUME NoRowAssumption == None \notin AudioRows

Clients ==
  [at : {"new", "asking", "signed", "sent", "submitting", "over"},
   of : Episodes \cup {None}, file : Bytes \cup {None}]
Executions ==
  [at : {"idle", "fetching", "fetched", "saved", "committing", "finishing"},
   audio : Audios \cup {None}, of : Episodes \cup {None},
   checksum : Contents \cup {None}, bytes : Contents \cup {None},
   key : TranscriptKeys \cup {None}]
Rows ==
  [n : 1..MaxRows, audio : Audios, of : Episodes, key : TranscriptKeys,
   checksum : Contents]

Idle == [at |-> "idle", audio |-> None, of |-> None, checksum |-> None,
         bytes |-> None, key |-> None]
NoDeletion == [at |-> "none", keys |-> {}]

TypeOK ==
  /\ episodes \in SUBSET Episodes
  /\ audio \in [Audios -> AudioRows \cup {None}]
  /\ rows \in SUBSET Rows /\ count \in 0..MaxRows
  /\ jobs \in SUBSET Audios /\ done \in SUBSET jobs
  /\ stored \in [Keys -> Contents \cup {None}]
  /\ up \in [Audios -> Clients]
  /\ run \in [Runs -> Executions]
  /\ del \in [Episodes -> [at : {"none", "collected", "removing"},
                           keys : SUBSET Keys]]
  /\ overlapped \in SUBSET Audios
  /\ crossed \in SUBSET Keys /\ unchecked \in SUBSET Bytes

Init ==
  /\ episodes = Episodes
  /\ audio = [a \in Audios |-> None]
  /\ rows = {} /\ count = 0
  /\ jobs = {} /\ done = {}
  /\ stored = [k \in Keys |-> None]
  /\ up = [a \in Audios |-> [at |-> "new", of |-> None, file |-> None]]
  /\ run = [x \in Runs |-> Idle]
  /\ del = [e \in Episodes |-> NoDeletion]
  /\ overlapped = {} /\ crossed = {} /\ unchecked = {}

-----------------------------------------------------------------------------
(* The client of an audio file and the two requests it makes.                 *)

Move(a, from, to) == up[a].at = from /\ up' = [up EXCEPT ![a].at = to]

\* create_upload_target finds the episode.
AskTarget(a, e, b) ==
  /\ up[a].at = "new" /\ e \in episodes
  /\ up' = [up EXCEPT ![a] = [at |-> "asking", of |-> e, file |-> b]]
  /\ UNCHANGED <<tables, stored, run, del, history>>

\* Mutant of CommitTarget: the row is added, and never committed.
AddTarget(a) ==
  /\ Move(a, "asking", "signed")
  /\ UNCHANGED <<tables, stored, run, del, history>>

\* The pending row is committed before the client can send a byte.  Nothing
\* ties it to an episode deleted meanwhile: there are no foreign keys.
CommitTarget(a) ==
  /\ Move(a, "asking", "signed")
  /\ audio' = [audio EXCEPT ![a] = [of |-> up[a].of, status |-> "pending",
                                    checksum |-> None]]
  /\ UNCHANGED <<episodes, rows, count, jobs, done, stored, run, del, history>>

\* Past the check of complete_upload, or being transcribed since.
Accepted(a) == (audio[a] # None /\ audio[a].status = "ready") \/ \E x \in Runs : run[x].audio = a

\* The bytes go straight to storage, which asks nothing of the database: the
\* target takes them again, other bytes too, whatever became of the upload.
Put(a, content) ==
  /\ content \in {up[a].file, Damaged}
  /\ \/ Move(a, "signed", "sent")
     \/ Resends /\ up[a].at \notin {"new", "asking", "signed"} /\ UNCHANGED up
  /\ stored' = [stored EXCEPT ![a] = content]
  /\ unchecked' = IF content # up[a].file /\ Accepted(a)
                  THEN unchecked \cup {up[a].file} ELSE unchecked
  /\ UNCHANGED <<tables, run, del, overlapped, crossed>>

\* Mutant of Verified: the object only has to be there.
VerifiedBySize(a, kept) == stored[a] # None

\* complete_upload asks storage; 409 when the object is missing, or when storage
\* kept a checksum and it differs from what the client declares.
Verified(a, kept) == stored[a] # None /\ (kept => stored[a] = up[a].file)

\* 404 when the row is gone.  The row of an upload that is not the first to
\* complete is left as it is; its checksum is what the client declares, which
\* is that of storage when storage kept one.  Asking storage and reading the row
\* are one step: storage loses an object only after the row is gone, and what is
\* put in between could as well be put afterwards.
Complete(a, kept) ==
  /\ Move(a, "sent", IF Verified(a, kept) /\ audio[a] # None THEN "submitting" ELSE "over")
  /\ IF Verified(a, kept) /\ audio[a] # None /\ audio[a].status = "pending"
     THEN /\ audio' = [audio EXCEPT ![a].status = "ready", ![a].checksum = up[a].file]
          /\ unchecked' = IF kept \/ stored[a] = up[a].file THEN unchecked
                          ELSE unchecked \cup {up[a].file}
     ELSE UNCHANGED <<audio, unchecked>>
  /\ UNCHANGED <<episodes, rows, count, jobs, done, stored, run, del, overlapped, crossed>>

\* submit_job: one job for an audio file, whatever happened to the row meanwhile.
Submit(a) ==
  /\ Move(a, "submitting", "over")
  /\ jobs' = jobs \cup {a}
  /\ UNCHANGED <<episodes, audio, rows, count, done, stored, run, del, history>>

\* A final mix queues nothing.  A request that dies between its transactions
\* leaves the same, and its client asks again.  (One that asks again although
\* its job was queued finds the job: Submission.)
QueueNothing(a) ==
  /\ Move(a, "submitting", "over")
  /\ UNCHANGED <<tables, stored, run, del, history>>

AskAgain(a) ==
  /\ Move(a, "over", "sent") /\ a \notin jobs
  /\ UNCHANGED <<tables, stored, run, del, history>>

-----------------------------------------------------------------------------
(* An execution of transcribe_audio, and the outcome the worker records.      *)

TranscriptKey(e, checksum) == <<e, checksum>>

\* The last transcript of the same bytes: a hit of the content-addressed cache.
Cached(r, checksum) ==
  /\ r.checksum = checksum
  /\ \A s \in rows : s.checksum = checksum => s.n <= r.n

\* Mutant of Repeats: a cache hit is always persisted.
RepeatsNothing(a, cached) == FALSE

\* The handler's own earlier transcript needs no row: its job is a repeat.
Repeats(a, cached) == cached.audio = a

Ready(a) == audio[a] # None /\ audio[a].status = "ready"

Starts(x, a, label, key) ==
  run' = [run EXCEPT ![x] = [at |-> label, audio |-> a, of |-> audio[a].of,
                             checksum |-> audio[a].checksum, bytes |-> None, key |-> key]]

\* GUARD 1, then the audio file, then GUARD 2.  An audio file that is not ready
\* is a PermanentFailure: its row was deleted before the job was submitted.
Begin(x, a) ==
  /\ run[x].at = "idle" /\ a \in jobs \ done
  /\ overlapped' = IF \E y \in Runs : run[y].audio = a
                   THEN overlapped \cup {a} ELSE overlapped
  /\ \/ ~Ready(a) /\ jobs' = jobs \ {a} /\ UNCHANGED run
     \/ /\ Ready(a) /\ UNCHANGED jobs
        /\ \A r \in rows : r.checksum # audio[a].checksum
        /\ Starts(x, a, "fetching", None)
     \/ /\ Ready(a) /\ UNCHANGED jobs
        /\ \E r \in rows :
             /\ Cached(r, audio[a].checksum)
             /\ IF Repeats(a, r) THEN Starts(x, a, "finishing", None)
                ELSE Starts(x, a, "committing", r.key)
  /\ UNCHANGED <<episodes, audio, rows, count, done, stored, up, del, crossed, unchecked>>

\* download_to_path; an object that is gone is an error the job retries.
Fetch(x) ==
  /\ run[x].at = "fetching"
  /\ LET bytes == stored[run[x].audio] IN
     run' = IF bytes = None THEN [run EXCEPT ![x] = Idle]
            ELSE [run EXCEPT ![x].at = "fetched", ![x].bytes = bytes]
  /\ UNCHANGED <<tables, stored, up, del, history>>

\* A PermanentFailure: the job is dead, unless it succeeded meanwhile.
Buried(a) == jobs \ ({a} \ done)

\* AudioDecodeError, TranscriptTooShort.
Undecodable(x) ==
  /\ run[x].at = "fetched"
  /\ jobs' = Buried(run[x].audio)
  /\ run' = [run EXCEPT ![x] = Idle]
  /\ UNCHANGED <<episodes, audio, rows, count, done, stored, up, del, history>>

\* The artifact is written before the row that points at it.
Save(x) ==
  /\ run[x].at = "fetched"
  /\ LET key == TranscriptKey(run[x].of, run[x].checksum) IN
     /\ stored' = [stored EXCEPT ![key] = run[x].bytes]
     /\ run' = [run EXCEPT ![x].at = "saved", ![x].key = key,
                              ![x].bytes = None]
  /\ UNCHANGED <<tables, up, del, history>>

Pointed(key) == \E r \in rows : r.key = key

\* The second session finds the audio file, or a PermanentFailure.
PersistRead(x) ==
  /\ run[x].at = "saved"
  /\ IF audio[run[x].audio] # None
     THEN /\ run' = [run EXCEPT ![x].at = "committing"]
          /\ UNCHANGED jobs
     ELSE /\ run' = [run EXCEPT ![x] = Idle]
          /\ jobs' = Buried(run[x].audio)
  /\ UNCHANGED <<episodes, audio, rows, count, done, stored, up, del, history>>

\* _persist.  No row ties the transcript to its audio file or its episode: the
\* insert succeeds whatever was deleted since they were read.
Commit(x) ==
  /\ run[x].at = "committing" /\ count < MaxRows
  /\ count' = count + 1
  /\ rows' = rows \cup {[n |-> count + 1, audio |-> run[x].audio, of |-> run[x].of,
                         key |-> run[x].key, checksum |-> run[x].checksum]}
  /\ run' = [run EXCEPT ![x].at = "finishing"]
  /\ crossed' = IF stored[run[x].key] = None \/ \E e \in Episodes : run[x].key \in del[e].keys
                THEN crossed \cup {run[x].key} ELSE crossed
  /\ UNCHANGED <<episodes, audio, jobs, done, stored, up, del, overlapped, unchecked>>

\* The worker marks the job succeeded.
Finish(x) ==
  /\ run[x].at = "finishing"
  /\ done' = done \cup ({run[x].audio} \cap jobs)
  /\ run' = [run EXCEPT ![x] = Idle]
  /\ UNCHANGED <<episodes, audio, rows, count, jobs, stored, up, del, history>>

\* The worker is killed, or a call fails and the job is retried.
Die(x) ==
  /\ run[x].at # "idle"
  /\ run' = [run EXCEPT ![x] = Idle]
  /\ UNCHANGED <<tables, stored, up, del, history>>

-----------------------------------------------------------------------------
(* The deletion of an episode: remove_episode over delete_episode.            *)

\* Mutant of Shared: the rows of other episodes do not count.
SharedNever(r) == FALSE

Shared(r) == \E s \in rows : s.key = r.key /\ s.of # r.of

AudioOf(e) == {a \in Audios : audio[a] # None /\ audio[a].of = e}
RowsOf(e) == {r \in rows : r.of = e}

\* The keys that will have no row left.
Collect(e) ==
  /\ del[e].at = "none" /\ e \in episodes \cap Deletable
  /\ del' = [del EXCEPT ![e] =
       [at |-> "collected",
        keys |-> AudioOf(e) \cup {r.key : r \in {s \in RowsOf(e) : ~Shared(s)}}]]
  /\ UNCHANGED <<tables, stored, up, run, history>>

\* The rows of the episode go in one transaction, those that came after the
\* keys were collected with them.
DeleteRows(e) ==
  /\ del[e].at = "collected"
  /\ episodes' = episodes \ {e}
  /\ jobs' = jobs \ AudioOf(e)
  /\ done' = done \ AudioOf(e)
  /\ rows' = rows \ RowsOf(e)
  /\ audio' = [a \in Audios |-> IF a \in AudioOf(e) THEN None ELSE audio[a]]
  /\ del' = [del EXCEPT ![e].at = "removing"]
  /\ UNCHANGED <<count, stored, up, run, history>>

\* The transaction fails: nothing was deleted.
Rollback(e) ==
  /\ del[e].at = "collected"
  /\ del' = [del EXCEPT ![e] = NoDeletion]
  /\ UNCHANGED <<tables, stored, up, run, history>>

\* The objects one by one; one that cannot be deleted, or whose request died,
\* stays.
Remove(e, k) ==
  /\ del[e].at = "removing" /\ k \in del[e].keys
  /\ stored' = [stored EXCEPT ![k] = None]
  /\ del' = [del EXCEPT ![e].keys = @ \ {k}]
  /\ UNCHANGED <<tables, up, run, history>>

RemoveFails(e, k) ==
  /\ del[e].at = "removing" /\ k \in del[e].keys
  /\ del' = [del EXCEPT ![e].keys = @ \ {k}]
  /\ UNCHANGED <<tables, stored, up, run, history>>

-----------------------------------------------------------------------------

Upload(a) ==
  \/ \E e \in Episodes, b \in Bytes : AskTarget(a, e, b)
  \/ CommitTarget(a)
  \/ \E content \in Contents : Put(a, content)
  \/ \E kept \in Keeping : Complete(a, kept)
  \/ Submit(a) \/ QueueNothing(a) \/ AskAgain(a)

Execution(x) ==
  \/ \E a \in Audios : Begin(x, a)
  \/ Fetch(x) \/ Undecodable(x) \/ Save(x) \/ PersistRead(x) \/ Commit(x)
  \/ Finish(x) \/ Die(x)

Deletion(e) ==
  \/ Collect(e) \/ DeleteRows(e) \/ Rollback(e)
  \/ \E k \in Keys : Remove(e, k) \/ RemoveFails(e, k)

Next ==
  \/ \E a \in Audios : Upload(a)
  \/ \E x \in Runs : Execution(x)
  \/ \E e \in Episodes : Deletion(e)

Spec == Init /\ [][Next]_vars

-----------------------------------------------------------------------------

\* A row points at an object that is there, "a deleted object under a live row
\* is a broken episode" (deletion.py): the ready audio files of the episodes
\* that exist, and their transcripts, unless a deletion took the artifact from
\* under the cache hit that made the row.
RowsHaveObjects ==
  /\ \A a \in Audios : audio[a] # None /\ audio[a].status = "ready" /\ audio[a].of \in episodes
       => stored[a] # None
  /\ \A r \in rows : r.of \in episodes => stored[r.key] # None \/ r.key \in crossed

\* A transcript that is read is that of the bytes its client uploaded, though
\* the artifact was made for another audio file, by another execution, and
\* storage may have received other bytes: unless a recording of those bytes was
\* accepted without a checksum of storage, or replaced once it was accepted.
ContentIsTrue ==
  \A r \in rows : r.checksum \notin unchecked /\ stored[r.key] # None
    => stored[r.key] = up[r.audio].file

\* What was uploaded to an episode that exists has its row, however uploads and
\* deletions cross: "an object with no row is a byte we pay for forever and
\* cannot find" (routes/audio.py).
UploadsAreFound ==
  \A a \in Audios : stored[a] # None /\ up[a].of \in episodes => audio[a] # None

\* A job executed again finds its own transcript and adds no row after it,
\* unless the two executions overlapped.
RetryAddsNothing ==
  \A r, s \in rows : r.audio = s.audio /\ s.n = r.n + 1 => r.audio \in overlapped

HasRow(k) == (k \in Audios /\ audio[k] # None) \/ Pointed(k)

\* Refuted (artifact_races.cfg): delete_episode "returns the storage keys now
\* orphaned" (deletion.py), those whose last row it deletes.
OrphansAreReturned ==
  [][\A e \in Episodes, k \in Keys :
       del[e].at = "collected" /\ del'[e].at = "removing" /\ stored[k] # None
         /\ HasRow(k) /\ ~HasRow(k)' => k \in del[e].keys]_vars

\* Refuted (artifact_races.cfg): what is read is what was uploaded, whatever storage
\* was asked to check.
TranscriptsAreOfUploads ==
  \A r \in rows : stored[r.key] # None => stored[r.key] = up[r.audio].file

\* Refuted (artifact_races.cfg): the objects of live rows are there, cache hit
\* or not.
LiveRowsHaveObjects == \A r \in rows : r.of \in episodes => stored[r.key] # None

\* Refuted (artifact_races.cfg): an audio file whose executions never
\* overlapped has one transcript row.
OneRowPerAudio ==
  \A r, s \in rows : r.audio = s.audio /\ r # s => r.audio \in overlapped

=============================================================================
