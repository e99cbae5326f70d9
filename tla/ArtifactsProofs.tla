-------------------------- MODULE ArtifactsProofs ---------------------------
(* Artifacts: types; that a transcript is that of the bytes its client        *)
(* uploaded, if those were checked; that no deletion takes an object from     *)
(* under a live row, but for an artifact that a cache hit was about to point  *)
(* at; that a repeated job adds no row; that an upload has its row.           *)
EXTENDS Artifacts, TLAPS

Late == {"sent", "submitting", "over"}

\* A client past its first request knows what it uploads and where; its row is
\* of that episode, and what is ready is what it uploaded, if that was checked.
ClientsOK ==
  \A a \in Audios :
    /\ up[a].at # "new" => up[a].of \in Episodes /\ up[a].file \in Bytes
    /\ audio[a] # None => up[a].at \notin {"new", "asking"} /\ audio[a].of = up[a].of
    /\ audio[a] # None /\ audio[a].status = "ready" =>
         /\ up[a].at \in Late
         /\ audio[a].checksum = up[a].file
         /\ up[a].file \notin unchecked => stored[a] \in {None, up[a].file}

\* An execution works on what a client uploaded, its audio file deleted or not.
RunsOK ==
  \A x \in Runs : run[x].at # "idle" =>
    /\ run[x].audio \in Audios /\ run[x].of \in Episodes
    /\ up[run[x].audio].at \in Late
    /\ run[x].checksum = up[run[x].audio].file
    /\ run[x].at = "fetching" /\ run[x].checksum \notin unchecked =>
         stored[run[x].audio] \in {None, run[x].checksum}
    /\ run[x].at = "fetched" =>
         /\ run[x].bytes \in Contents
         /\ run[x].checksum \notin unchecked => run[x].bytes = run[x].checksum
    /\ run[x].at \in {"saved", "committing"} =>
         run[x].key \in TranscriptKeys /\ run[x].key[2] = run[x].checksum

RowsOK ==
  \A r \in rows :
    /\ up[r.audio].at \in Late
    /\ r.checksum = up[r.audio].file
    /\ r.key[2] = r.checksum

\* The name of an artifact says what it is the transcript of, if that was checked.
StoreOK == \A k \in TranscriptKeys : k[2] \notin unchecked => stored[k] \in {None, k[2]}

IInv == TypeOK /\ ClientsOK /\ RunsOK /\ RowsOK /\ StoreOK

USE ArtifactsAssumption DEF ArtifactsAssumption, Late

LEMMA InitHolds == Init => IInv
  BY DEF Init, IInv, TypeOK, ClientsOK, RunsOK, RowsOK, StoreOK, Idle, NoDeletion,
         Executions, Clients, TranscriptKeys, Keys

LEMMA AskTargetHolds ==
  ASSUME IInv, NEW a \in Audios, NEW e \in Episodes, NEW b \in Bytes, AskTarget(a, e, b) PROVE IInv'
<1> USE DEF IInv, tables, history, Idle
<1>1. TypeOK'
  BY DEF TypeOK, AskTarget, Clients, AudioRows, Executions, Rows, Keys
<1>2. ClientsOK'
  BY DEF ClientsOK, AskTarget
<1>3. RunsOK'
  BY DEF RunsOK, AskTarget
<1>4. RowsOK'
  BY DEF RowsOK, AskTarget
<1>5. StoreOK'
  BY DEF StoreOK, AskTarget
<1> QED BY <1>1, <1>2, <1>3, <1>4, <1>5

LEMMA CommitTargetHolds ==
  ASSUME IInv, NEW a \in Audios, CommitTarget(a) PROVE IInv'
<1> USE DEF IInv, tables, history, Idle, Move
<1>1. TypeOK'
  <2>1. up' \in [Audios -> Clients] /\ up[a].of \in Episodes
    BY DEF TypeOK, ClientsOK, CommitTarget, Clients
  <2>2. audio' \in [Audios -> AudioRows \cup {None}]
    BY <2>1 DEF TypeOK, CommitTarget, AudioRows
  <2> QED BY <2>1, <2>2 DEF TypeOK, CommitTarget
<1>2. ClientsOK'
  BY DEF TypeOK, ClientsOK, CommitTarget
<1>3. RunsOK'
  BY DEF RunsOK, CommitTarget
<1>4. RowsOK'
  BY DEF RowsOK, CommitTarget
<1>5. StoreOK'
  BY DEF StoreOK, CommitTarget
<1> QED BY <1>1, <1>2, <1>3, <1>4, <1>5

\* What is put is at the key of its client, whose bytes it is, unless they are
\* counted as unchecked, or nobody has accepted them.
LEMMA PutFacts ==
  ASSUME TypeOK, NEW a \in Audios, NEW content \in Contents, Put(a, content)
  PROVE  /\ UNCHANGED <<episodes, audio, rows, count, jobs, done, run, del, overlapped, crossed>>
         /\ stored' = [stored EXCEPT ![a] = content]
         /\ \A b \in Audios : /\ up'[b].of = up[b].of /\ up'[b].file = up[b].file
                              /\ \/ up'[b].at = up[b].at
                                 \/ up[b].at = "signed" /\ up'[b].at = "sent"
         /\ \A k \in Keys : k # a => stored'[k] = stored[k]
         /\ stored'[a] = content
         /\ unchecked \subseteq unchecked'
         /\ content = up[a].file \/ up[a].file \in unchecked' \/ ~Accepted(a)
         /\ up[a].at \notin {"new", "asking"}
<1>1. a \in Keys /\ up \in [Audios -> Clients] /\ stored \in [Keys -> Contents \cup {None}]
  BY DEF TypeOK, Keys
<1>2. \A b \in Audios : /\ up'[b].of = up[b].of /\ up'[b].file = up[b].file
                        /\ \/ up'[b].at = up[b].at
                           \/ up[b].at = "signed" /\ up'[b].at = "sent"
  <2>1. CASE UNCHANGED up
    BY <2>1
  <2>2. CASE Move(a, "signed", "sent")
    BY <1>1, <2>2 DEF Move, Clients
  <2> QED BY <2>1, <2>2 DEF Put
<1>3. content = up[a].file \/ up[a].file \in unchecked' \/ ~Accepted(a)
  BY DEF Put
<1>4. unchecked \subseteq unchecked'
  BY DEF Put
<1>5. up[a].at \notin {"new", "asking"}
  BY DEF Put, Move
<1> QED BY <1>1, <1>2, <1>3, <1>4, <1>5 DEF Put, tables

LEMMA PutHolds ==
  ASSUME IInv, NEW a \in Audios, NEW content \in Contents, Put(a, content) PROVE IInv'
<1> USE DEF IInv
<1>1. TypeOK'
  <2>1. up' \in [Audios -> Clients]
    <3>1. up \in [Audios -> Clients]
      BY DEF TypeOK
    <3>2. CASE UNCHANGED up
      BY <3>1, <3>2
    <3>3. CASE up' = [up EXCEPT ![a].at = "sent"]
      BY <3>1, <3>3 DEF Clients
    <3> QED BY <3>2, <3>3 DEF Put, Move
  <2>2. up[a].at # "new"
    BY DEF Put, Move
  <2>3. unchecked' \in SUBSET Bytes
    BY <2>2 DEF TypeOK, ClientsOK, Put
  <2> QED BY <2>1, <2>3, PutFacts DEF TypeOK, Keys
<1>2. ClientsOK'
  <2> SUFFICES ASSUME NEW b \in Audios PROVE ClientsOK!(b)'
    BY DEF ClientsOK
  <2>1. CASE b # a
    BY <2>1, PutFacts DEF ClientsOK, Keys
  <2>2. CASE b = a
    <3>1. audio[a] # None /\ audio[a].status = "ready" =>
            up[a].file \in unchecked' \/ stored'[a] = up[a].file
      BY PutFacts DEF Accepted
    <3> QED BY <2>2, <3>1, PutFacts DEF ClientsOK
  <2> QED BY <2>1, <2>2
<1>3. RunsOK'
  <2> SUFFICES ASSUME NEW y \in Runs, run'[y].at # "idle" PROVE RunsOK!(y)'
    BY DEF RunsOK
  <2>1. run' = run /\ run[y].audio \in Audios /\ RunsOK!(y)
    BY PutFacts DEF RunsOK
  <2>2. CASE run[y].audio # a
    BY <2>1, <2>2, PutFacts DEF Keys
  <2>3. CASE run[y].audio = a
    <3>1. up[a].file \in unchecked' \/ stored'[a] = up[a].file
      BY <2>3, PutFacts DEF Accepted
    <3> QED BY <2>1, <2>3, <3>1, PutFacts
  <2> QED BY <2>2, <2>3
<1>4. RowsOK'
  BY PutFacts DEF RowsOK, TypeOK, Rows
<1>5. StoreOK'
  BY PutFacts DEF StoreOK, Keys
<1> QED BY <1>1, <1>2, <1>3, <1>4, <1>5

LEMMA CompleteHolds ==
  ASSUME IInv, NEW a \in Audios, NEW kept \in Keeping, Complete(a, kept) PROVE IInv'
<1> USE DEF IInv, tables, history, Idle, Move
<1>1. TypeOK'
  <2>1. up' \in [Audios -> Clients]
    BY DEF TypeOK, Complete, Clients
  <2>2. audio' \in [Audios -> AudioRows \cup {None}]
    <3>1. CASE UNCHANGED audio
      BY <3>1 DEF TypeOK
    <3>2. CASE /\ Verified(a, kept) /\ audio[a] # None
               /\ audio' = [audio EXCEPT ![a].status = "ready",
                                         ![a].checksum = up[a].file]
      <4>1. audio[a] \in AudioRows /\ up[a].file \in Bytes
        BY <3>2 DEF TypeOK, ClientsOK, Complete
      <4>2. [audio[a] EXCEPT !.status = "ready", !.checksum = up[a].file] \in AudioRows
        BY <4>1 DEF AudioRows
      <4> QED BY <3>2, <4>2 DEF TypeOK
    <3> QED BY <3>1, <3>2 DEF Complete
  <2>3. unchecked' \in SUBSET Bytes
    BY DEF TypeOK, ClientsOK, Complete
  <2> QED BY <2>1, <2>2, <2>3 DEF TypeOK, Complete
<1>2. ClientsOK'
  BY DEF TypeOK, ClientsOK, Complete, Verified, Clients, AudioRows, Keys, TranscriptKeys
<1>3. RunsOK'
  BY DEF RunsOK, Complete
<1>4. RowsOK'
  BY DEF RowsOK, Complete
<1>5. StoreOK'
  BY DEF StoreOK, Complete
<1> QED BY <1>1, <1>2, <1>3, <1>4, <1>5

\* Of the clients these change only one, which has sent.
LEMMA SubmitFacts ==
  ASSUME TypeOK, NEW a \in Audios, Submit(a) \/ QueueNothing(a) \/ AskAgain(a)
  PROVE  /\ up[a].at \in {"submitting", "over"} /\ up'[a].at \in {"over", "sent"}
         /\ \A b \in Audios : /\ up'[b].of = up[b].of /\ up'[b].file = up[b].file
                              /\ b # a => up'[b].at = up[b].at
         /\ UNCHANGED <<episodes, audio, stored, run, rows, count, done, del, history>>
<1>1. up[a] \in Clients /\ up \in [Audios -> Clients]
  BY DEF TypeOK
<1>2. PICK to \in {"over", "sent"} : up' = [up EXCEPT ![a].at = to]
  BY DEF Submit, QueueNothing, AskAgain, Move
<1>3. up[a].at \in {"submitting", "over"}
  BY DEF Submit, QueueNothing, AskAgain, Move
<1>4. UNCHANGED <<episodes, audio, stored, run, rows, count, done, del, history>>
  BY DEF Submit, QueueNothing, AskAgain, tables
<1> QED BY <1>1, <1>2, <1>3, <1>4 DEF Clients

LEMMA SubmitHolds ==
  ASSUME IInv, NEW a \in Audios, Submit(a) \/ QueueNothing(a) \/ AskAgain(a) PROVE IInv'
<1> USE DEF IInv, tables, history, Idle, Move
<1>1. /\ up[a].at \in {"submitting", "over"} /\ up'[a].at \in {"over", "sent"}
      /\ \A b \in Audios : /\ up'[b].of = up[b].of /\ up'[b].file = up[b].file
                           /\ b # a => up'[b].at = up[b].at
  BY SubmitFacts
<1>2. UNCHANGED <<episodes, audio, stored, run, rows, count, done, del, overlapped, crossed, unchecked>>
  BY SubmitFacts
<1>3. TypeOK'
  <2>1. up' \in [Audios -> Clients]
    <3>1. PICK to \in {"over", "sent"} : up' = [up EXCEPT ![a].at = to]
      BY DEF Submit, QueueNothing, AskAgain
    <3>2. up[a] \in Clients /\ up \in [Audios -> Clients]
      BY DEF TypeOK
    <3>3. [up[a] EXCEPT !.at = to] \in Clients
      BY <3>2 DEF Clients
    <3> HIDE DEF IInv
    <3> QED BY <3>1, <3>2, <3>3
  <2>2. jobs' \in SUBSET Audios /\ done' \in SUBSET jobs'
    BY DEF TypeOK, Submit, QueueNothing, AskAgain
  <2> QED BY <1>2, <2>1, <2>2 DEF TypeOK
<1>4. ClientsOK'
  BY <1>1, <1>2 DEF ClientsOK
<1>5. \A b \in Audios : up[b].at \in Late => up'[b].at \in Late
  BY <1>1
<1>6. RunsOK'
  BY <1>1, <1>2, <1>5 DEF RunsOK
<1>7. RowsOK'
  BY <1>1, <1>2, <1>5 DEF TypeOK, RowsOK, Rows
<1>8. StoreOK'
  BY <1>2 DEF StoreOK
<1> QED BY <1>3, <1>4, <1>6, <1>7, <1>8

\* An execution that begins works on what its client uploaded.
LEMMA StartsHolds ==
  ASSUME IInv, NEW x \in Runs, NEW a \in Audios, NEW label, NEW key,
         Ready(a), Starts(x, a, label, key), UNCHANGED <<audio, stored, up, unchecked>>,
         label \in {"fetching", "finishing", "committing"},
         key \in TranscriptKeys \cup {None},
         label = "committing" =>
           key \in TranscriptKeys /\ key[2] = audio[a].checksum
  PROVE  run' \in [Runs -> Executions] /\ RunsOK'
<1> DEFINE this == [at |-> label, audio |-> a, of |-> audio[a].of,
                    checksum |-> audio[a].checksum, bytes |-> None, key |-> key]
<1>1. /\ audio[a].of \in Episodes /\ audio[a].checksum \in Contents
      /\ up[a].at \in Late /\ audio[a].checksum = up[a].file
      /\ up[a].file \notin unchecked => stored[a] \in {None, up[a].file}
  BY DEF IInv, ClientsOK, Ready, Contents
<1>2. this \in Executions
  BY <1>1 DEF Executions
<1>3. run' = [run EXCEPT ![x] = this] /\ run \in [Runs -> Executions]
  BY DEF Starts, IInv, TypeOK
<1>4. RunsOK'
  <2> SUFFICES ASSUME NEW y \in Runs, run'[y].at # "idle"
               PROVE  RunsOK!(y)'
    BY DEF RunsOK
  <2>1. CASE y = x
    BY <1>1, <1>3, <2>1
  <2>2. CASE y # x
    BY <1>3, <2>2 DEF IInv, RunsOK
  <2> QED BY <2>1, <2>2
<1> QED BY <1>2, <1>3, <1>4

LEMMA BeginHolds ==
  ASSUME IInv, NEW x \in Runs, NEW a \in Audios, Begin(x, a) PROVE IInv'
<1>1. UNCHANGED <<episodes, audio, rows, count, done, stored, up, del, crossed, unchecked>>
  BY DEF Begin
<1>2. run' \in [Runs -> Executions] /\ RunsOK'
  <2>1. CASE UNCHANGED run
    BY <1>1, <2>1 DEF IInv, TypeOK, RunsOK
  <2>2. CASE Ready(a) /\ Starts(x, a, "fetching", None)
    BY <1>1, <2>2, StartsHolds
  <2>3. ASSUME NEW r \in rows, Cached(r, audio[a].checksum), Ready(a),
               Starts(x, a, "finishing", None) \/ Starts(x, a, "committing", r.key)
        PROVE  run' \in [Runs -> Executions] /\ RunsOK'
    <3>1. r.key \in TranscriptKeys /\ r.key[2] = audio[a].checksum
      BY <2>3 DEF IInv, TypeOK, Rows, RowsOK, Cached
    <3> QED BY <1>1, <2>3, <3>1, StartsHolds
  <2> QED BY <2>1, <2>2, <2>3 DEF Begin
<1>3. jobs' \in SUBSET Audios /\ done' \in SUBSET jobs'
      /\ overlapped' \in SUBSET Audios
  BY <1>1 DEF Begin, IInv, TypeOK
<1> QED BY <1>1, <1>2, <1>3 DEF IInv, TypeOK, ClientsOK, RowsOK, StoreOK

LEMMA FetchHolds ==
  ASSUME IInv, NEW x \in Runs, Fetch(x) PROVE IInv'
<1> USE DEF IInv, tables, history, Idle
<1>1. TypeOK'
  <2>1. run[x] \in Executions /\ stored[run[x].audio] \in Contents \cup {None}
    BY DEF TypeOK, RunsOK, Fetch, Keys
  <2>2. \/ run' = [run EXCEPT ![x] = Idle]
        \/ run' = [run EXCEPT ![x].at = "fetched", ![x].bytes = stored[run[x].audio]]
    BY DEF Fetch
  <2>3. Idle \in Executions
    BY DEF Executions
  <2>4. [run[x] EXCEPT !.at = "fetched", !.bytes = stored[run[x].audio]] \in Executions
    BY <2>1 DEF Executions
  <2>5. run' \in [Runs -> Executions]
    BY <2>2, <2>3, <2>4 DEF TypeOK
  <2> QED BY <2>5 DEF TypeOK, Fetch
<1>2. ClientsOK'
  BY DEF ClientsOK, Fetch
<1>3. RunsOK'
  <2>1. run[x] \in Executions /\ stored[run[x].audio] \in Contents \cup {None}
    BY DEF TypeOK, RunsOK, Fetch, Keys
  <2>2. \A y \in Runs : y # x => run'[y] = run[y]
    BY DEF TypeOK, Fetch
  <2>3. \/ run'[x] = Idle
        \/ /\ stored[run[x].audio] # None
           /\ run'[x] = [run[x] EXCEPT !.at = "fetched", !.bytes = stored[run[x].audio]]
    BY DEF TypeOK, Fetch
  <2> SUFFICES ASSUME NEW y \in Runs, run'[y].at # "idle" PROVE RunsOK!(y)'
    BY DEF RunsOK
  <2>4. UNCHANGED <<stored, up, unchecked>> /\ run[x].at = "fetching"
    BY DEF Fetch
  <2>5. CASE y = x
    <3>1. /\ run'[x].at = "fetched" /\ run'[x].bytes = stored[run[x].audio]
          /\ run'[x].bytes \in Contents
          /\ run'[x].audio = run[x].audio /\ run'[x].of = run[x].of
          /\ run'[x].checksum = run[x].checksum
      <4>1. /\ stored[run[x].audio] \in Contents
            /\ run'[x] = [run[x] EXCEPT !.at = "fetched", !.bytes = stored[run[x].audio]]
        BY <2>1, <2>3, <2>5
      <4> QED BY <2>1, <4>1 DEF Executions
    <3>2. RunsOK!(x)
      BY <2>4 DEF RunsOK
    <3> QED BY <2>4, <2>5, <3>1, <3>2
  <2>6. CASE y # x
    BY <2>2, <2>4, <2>6 DEF RunsOK
  <2> QED BY <2>5, <2>6
<1>4. RowsOK'
  BY DEF RowsOK, Fetch
<1>5. StoreOK'
  BY DEF StoreOK, Fetch
<1> QED BY <1>1, <1>2, <1>3, <1>4, <1>5

LEMMA UndecodableHolds ==
  ASSUME IInv, NEW x \in Runs, Undecodable(x) PROVE IInv'
<1> USE DEF IInv, tables, history, Idle
<1>1. TypeOK'
  BY DEF TypeOK, Undecodable, Buried, Clients, AudioRows, Executions, Rows, Keys
<1>2. ClientsOK'
  BY DEF ClientsOK, Undecodable
<1>3. RunsOK'
  BY DEF RunsOK, Undecodable
<1>4. RowsOK'
  BY DEF RowsOK, Undecodable
<1>5. StoreOK'
  BY DEF StoreOK, Undecodable
<1> QED BY <1>1, <1>2, <1>3, <1>4, <1>5

LEMMA SaveHolds ==
  ASSUME IInv, NEW x \in Runs, Save(x) PROVE IInv'
<1> USE DEF IInv, tables, history, Idle
<1> DEFINE key == TranscriptKey(run[x].of, run[x].checksum)
<1>0. /\ key \in TranscriptKeys /\ key[2] = run[x].checksum
      /\ run[x].checksum \notin unchecked => run[x].bytes = run[x].checksum
      /\ run[x].bytes \in Contents
      /\ run[x].at = "fetched" /\ run[x] \in Executions
      /\ run[x].audio \in Audios /\ run[x].of \in Episodes
      /\ up[run[x].audio].at \in Late
      /\ run[x].checksum = up[run[x].audio].file
  <2>1. /\ run[x].at = "fetched" /\ run[x].bytes \in Contents
        /\ run[x].checksum \notin unchecked => run[x].bytes = run[x].checksum
        /\ run[x].audio \in Audios /\ run[x].of \in Episodes
        /\ up[run[x].audio].at \in Late
        /\ run[x].checksum = up[run[x].audio].file
    BY DEF RunsOK, Save
  <2>2. run[x] \in Executions
    BY DEF TypeOK
  <2>3. run[x].checksum \in Contents
    BY <2>1 DEF ClientsOK, Contents
  <2> QED BY <2>1, <2>2, <2>3 DEF TranscriptKey, TranscriptKeys
<1>1. TypeOK'
  <2>1. stored' \in [Keys -> Contents \cup {None}]
    BY <1>0 DEF TypeOK, Save, Keys
  <2>2. [run[x] EXCEPT !.at = "saved", !.key = key, !.bytes = None] \in Executions
    BY <1>0 DEF TypeOK, Executions
  <2>3. run' \in [Runs -> Executions]
    BY <2>2 DEF TypeOK, Save
  <2> QED BY <2>1, <2>3 DEF TypeOK, Save
<1>2. ClientsOK'
  <2>1. \A b \in Audios : stored'[b] = stored[b]
    BY <1>0 DEF TypeOK, Save, Keys
  <2> QED BY <2>1 DEF ClientsOK, Save
<1>3. RunsOK'
  <2>1. \A b \in Audios : stored'[b] = stored[b]
    BY <1>0 DEF TypeOK, Save, Keys
  <2>2. \A y \in Runs \ {x} : run'[y] = run[y]
    BY DEF TypeOK, Save
  <2>3. /\ run'[x].at = "saved" /\ run'[x].key = key
        /\ run'[x].audio = run[x].audio /\ run'[x].of = run[x].of
        /\ run'[x].checksum = run[x].checksum
    BY <1>0 DEF TypeOK, Save, Executions
  <2>4. UNCHANGED <<up, unchecked>>
    BY DEF Save
  <2> HIDE DEF key
  <2> SUFFICES ASSUME NEW y \in Runs, run'[y].at # "idle"
               PROVE  RunsOK!(y)'
    BY DEF RunsOK
  <2>5. CASE y = x
    BY <1>0, <2>3, <2>4, <2>5
  <2>6. CASE y # x
    BY <2>1, <2>2, <2>4, <2>6 DEF RunsOK
  <2> QED BY <2>5, <2>6
<1>4. RowsOK'
  BY DEF RowsOK, Save
<1>5. StoreOK'
  BY <1>0 DEF TypeOK, StoreOK, Save, Keys
<1> QED BY <1>1, <1>2, <1>3, <1>4, <1>5

LEMMA PersistReadHolds ==
  ASSUME IInv, NEW x \in Runs, PersistRead(x) PROVE IInv'
<1> USE DEF IInv, tables, history, Idle
<1>1. TypeOK'
  <2>1. run[x] \in Executions /\ Idle \in Executions
        /\ [run[x] EXCEPT !.at = "committing"] \in Executions
    BY DEF TypeOK, Executions
  <2>2. run' \in [Runs -> Executions]
    BY <2>1 DEF TypeOK, PersistRead
  <2>3. jobs' \in SUBSET Audios /\ done' \in SUBSET jobs'
    BY DEF TypeOK, PersistRead, Buried
  <2> QED BY <2>2, <2>3 DEF TypeOK, PersistRead
<1>2. ClientsOK'
  BY DEF ClientsOK, PersistRead
<1>3. RunsOK'
  <2>1. \A y \in Runs \ {x} : run'[y] = run[y]
    BY DEF TypeOK, PersistRead
  <2>2. \/ run'[x] = Idle
        \/ run'[x] = [run[x] EXCEPT !.at = "committing"]
    BY DEF TypeOK, PersistRead
  <2> QED BY <2>1, <2>2 DEF TypeOK, Executions, RunsOK, PersistRead
<1>4. RowsOK'
  BY DEF RowsOK, PersistRead
<1>5. StoreOK'
  BY DEF StoreOK, PersistRead
<1> QED BY <1>1, <1>2, <1>3, <1>4, <1>5

LEMMA CommitHolds ==
  ASSUME IInv, NEW x \in Runs, Commit(x) PROVE IInv'
<1> USE DEF IInv, tables, history, Idle
<1>1. TypeOK'
  <2>1. /\ run[x].audio \in Audios /\ run[x].of \in Episodes
        /\ run[x].key \in TranscriptKeys
    BY DEF RunsOK, Commit
  <2>2. run[x].checksum \in Contents
    BY <2>1 DEF RunsOK, ClientsOK, Commit, Contents
  <2>3. count \in Nat /\ count + 1 \in 1..MaxRows
    BY DEF TypeOK, Commit
  <2>4. [n |-> count + 1, audio |-> run[x].audio, of |-> run[x].of,
         key |-> run[x].key, checksum |-> run[x].checksum] \in Rows
    BY <2>1, <2>2, <2>3 DEF Rows
  <2>5. run' \in [Runs -> Executions]
    <3>1. run \in [Runs -> Executions] /\ run' = [run EXCEPT ![x].at = "finishing"]
      BY DEF TypeOK, Commit
    <3> QED BY <3>1 DEF Executions
  <2>6. run[x].key \in Keys
    BY <2>1 DEF Keys
  <2> QED BY <2>3, <2>4, <2>5, <2>6 DEF TypeOK, Commit
<1>2. ClientsOK'
  BY DEF ClientsOK, Commit
<1>3. RunsOK'
  BY DEF RunsOK, Commit
<1>4. RowsOK'
  BY DEF TypeOK, RowsOK, RunsOK, Commit
<1>5. StoreOK'
  BY DEF StoreOK, Commit
<1> QED BY <1>1, <1>2, <1>3, <1>4, <1>5

LEMMA FinishHolds ==
  ASSUME IInv, NEW x \in Runs, Finish(x) PROVE IInv'
<1> USE DEF IInv, tables, history, Idle
<1>1. TypeOK'
  BY DEF TypeOK, Finish, Executions
<1>2. ClientsOK'
  BY DEF ClientsOK, Finish
<1>3. RunsOK'
  BY DEF RunsOK, Finish
<1>4. RowsOK'
  BY DEF RowsOK, Finish
<1>5. StoreOK'
  BY DEF StoreOK, Finish
<1> QED BY <1>1, <1>2, <1>3, <1>4, <1>5

LEMMA DieHolds ==
  ASSUME IInv, NEW x \in Runs, Die(x) PROVE IInv'
<1> USE DEF IInv, tables, history, Idle
<1>1. TypeOK'
  BY DEF TypeOK, ClientsOK, RunsOK, Die, Clients, AudioRows, Executions, Rows, Keys
<1>2. ClientsOK'
  BY DEF ClientsOK, Die
<1>3. RunsOK'
  BY DEF RunsOK, Die
<1>4. RowsOK'
  BY DEF RowsOK, Die
<1>5. StoreOK'
  BY DEF StoreOK, Die
<1> QED BY <1>1, <1>2, <1>3, <1>4, <1>5

LEMMA CollectHolds ==
  ASSUME IInv, NEW e \in Episodes, Collect(e) PROVE IInv'
<1> USE DEF IInv, tables, history, Idle
<1>1. TypeOK'
  BY DEF TypeOK, Collect, AudioOf, RowsOf, Clients, AudioRows, Executions, Rows, Keys
<1>2. ClientsOK'
  BY DEF ClientsOK, Collect
<1>3. RunsOK'
  BY DEF RunsOK, Collect
<1>4. RowsOK'
  BY DEF RowsOK, Collect
<1>5. StoreOK'
  BY DEF StoreOK, Collect
<1> QED BY <1>1, <1>2, <1>3, <1>4, <1>5

LEMMA DeleteRowsHolds ==
  ASSUME IInv, NEW e \in Episodes, DeleteRows(e) PROVE IInv'
<1> USE DEF IInv, tables, history, Idle
<1>1. TypeOK'
  <2>1. rows' \in SUBSET Rows /\ audio' \in [Audios -> AudioRows \cup {None}]
    BY DEF TypeOK, DeleteRows
  <2>2. del' \in [Episodes -> [at : {"none", "collected", "removing"},
                               keys : SUBSET Keys]]
    BY DEF TypeOK, DeleteRows
  <2> QED BY <2>1, <2>2 DEF TypeOK, DeleteRows
<1>2. ClientsOK'
  BY DEF ClientsOK, DeleteRows
<1>3. RunsOK'
  BY DEF RunsOK, DeleteRows
<1>4. RowsOK'
  BY DEF RowsOK, DeleteRows
<1>5. StoreOK'
  BY DEF StoreOK, DeleteRows
<1> QED BY <1>1, <1>2, <1>3, <1>4, <1>5

LEMMA RollbackHolds ==
  ASSUME IInv, NEW e \in Episodes, Rollback(e) PROVE IInv'
<1> USE DEF IInv, tables, history, Idle
<1>1. TypeOK'
  BY DEF TypeOK, Rollback, NoDeletion
<1>2. ClientsOK'
  BY DEF ClientsOK, Rollback
<1>3. RunsOK'
  BY DEF RunsOK, Rollback
<1>4. RowsOK'
  BY DEF RowsOK, Rollback
<1>5. StoreOK'
  BY DEF StoreOK, Rollback
<1> QED BY <1>1, <1>2, <1>3, <1>4, <1>5

LEMMA RemoveHolds ==
  ASSUME IInv, NEW e \in Episodes, NEW k \in Keys, Remove(e, k) \/ RemoveFails(e, k) PROVE IInv'
<1> USE DEF IInv, tables, history, Idle
<1>1. TypeOK'
  <2>1. del' \in [Episodes -> [at : {"none", "collected", "removing"},
                               keys : SUBSET Keys]]
    BY DEF TypeOK, Remove, RemoveFails
  <2> QED BY <2>1 DEF TypeOK, Remove, RemoveFails
<1>2. ClientsOK'
  BY DEF TypeOK, ClientsOK, Remove, RemoveFails, Keys, TranscriptKeys
<1>3. RunsOK'
  BY DEF TypeOK, RunsOK, Remove, RemoveFails, Clients, AudioRows, Executions, Rows, Keys, TranscriptKeys
<1>4. RowsOK'
  BY DEF RowsOK, Remove, RemoveFails
<1>5. StoreOK'
  BY DEF TypeOK, StoreOK, Remove, RemoveFails, Keys, TranscriptKeys
<1> QED BY <1>1, <1>2, <1>3, <1>4, <1>5

LEMMA StepHolds == IInv /\ [Next]_vars => IInv'
<1> SUFFICES ASSUME IInv, [Next]_vars PROVE IInv'
  OBVIOUS
<1>1. ASSUME NEW a \in Audios, Upload(a) PROVE IInv'
  BY <1>1, AskTargetHolds, CommitTargetHolds, PutHolds, CompleteHolds, SubmitHolds DEF Upload
<1>2. ASSUME NEW x \in Runs, Execution(x) PROVE IInv'
  BY <1>2, BeginHolds, FetchHolds, UndecodableHolds, SaveHolds, PersistReadHolds,
     CommitHolds, FinishHolds, DieHolds DEF Execution
<1>3. ASSUME NEW e \in Episodes, Deletion(e) PROVE IInv'
  BY <1>3, CollectHolds, DeleteRowsHolds, RollbackHolds, RemoveHolds DEF Deletion
<1>4. CASE UNCHANGED vars
  BY <1>4 DEF IInv, TypeOK, ClientsOK, RunsOK, RowsOK, StoreOK, vars, tables, history
<1> QED BY <1>1, <1>2, <1>3, <1>4 DEF Next

LEMMA InvariantHolds == Spec => []IInv
  BY InitHolds, StepHolds, PTL DEF Spec

\* The states of the clients, the tables, the executions and the deletions are
\* of their types, whatever the numbers of episodes, recordings and executions.
THEOREM TypesHold == Spec => []TypeOK
<1>1. IInv => TypeOK
  BY DEF IInv
<1> QED BY <1>1, InvariantHolds, PTL

\* A transcript that is read is that of the bytes its client uploaded, unless a
\* recording of those bytes was taken on a client's word, or replaced once it
\* was accepted: what storage has a checksum of is compared before the audio
\* file is ready, and the checksum names the artifact.
THEOREM TranscriptsAreTrue == Spec => []ContentIsTrue
<1>1. IInv => ContentIsTrue
  BY DEF IInv, TypeOK, RowsOK, StoreOK, Rows, ContentIsTrue
<1> QED BY <1>1, InvariantHolds, PTL

-----------------------------------------------------------------------------
(* A deletion removes the objects of the episode it deleted, and no others.   *)

\* What a deletion will remove is its own: the recordings of its episode, and
\* artifacts that no row of another points at, unless it crossed a cache hit.
DeletionsOK ==
  \A e \in Episodes :
    /\ del[e].at = "removing" => e \notin episodes
    /\ \A a \in Audios : a \in del[e].keys =>
         up[a].at \notin {"new", "asking"} /\ up[a].of = e
    /\ \A r \in rows : r.key \in del[e].keys => r.of = e \/ r.key \in crossed

ObjectsOK == DeletionsOK /\ RowsHaveObjects

\* All the two facts speak of.
objects == <<episodes, audio, rows, stored, up, del, crossed>>

LEMMA ObjectsInit == Init => ObjectsOK
  BY DEF Init, ObjectsOK, DeletionsOK, RowsHaveObjects, NoDeletion

LEMMA ObjectsStutter == ObjectsOK /\ UNCHANGED objects => ObjectsOK'
  BY DEF ObjectsOK, DeletionsOK, RowsHaveObjects, objects

\* Deletions that have less to remove and rows that go disturb nothing.
LEMMA DeletionsKept ==
  ASSUME DeletionsOK, episodes' \subseteq episodes, rows' \subseteq rows, UNCHANGED crossed,
         \A a \in Audios : up[a].at \notin {"new", "asking"} =>
           up'[a].at \notin {"new", "asking"} /\ up'[a].of = up[a].of,
         \A f \in Episodes : /\ del'[f].keys \subseteq del[f].keys
                             /\ del'[f].at # del[f].at => f \notin episodes'
  PROVE  DeletionsOK'
<1> SUFFICES ASSUME NEW f \in Episodes PROVE DeletionsOK!(f)'
  BY DEF DeletionsOK
<1>1. del'[f].at = "removing" => f \notin episodes'
  BY DEF DeletionsOK
<1>2. ASSUME NEW a \in Audios, a \in del'[f].keys
      PROVE  up'[a].at \notin {"new", "asking"} /\ up'[a].of = f
  <2>1. up[a].at \notin {"new", "asking"} /\ up[a].of = f
    BY <1>2 DEF DeletionsOK
  <2> QED BY <2>1
<1>3. ASSUME NEW r \in rows', r.key \in del'[f].keys
      PROVE  r.of = f \/ r.key \in crossed'
  BY <1>3 DEF DeletionsOK
<1> QED BY <1>1, <1>2, <1>3

LEMMA UploadKeepsObjects ==
  ASSUME IInv, ObjectsOK, NEW a \in Audios, Upload(a) PROVE ObjectsOK'
<1> USE DEF tables, history, Move
<1>1. ASSUME NEW e \in Episodes, NEW b \in Bytes, AskTarget(a, e, b) PROVE ObjectsOK'
  BY <1>1 DEF ObjectsOK, DeletionsOK, RowsHaveObjects, AskTarget, IInv, TypeOK, Clients
<1>2. CASE CommitTarget(a)
  BY <1>2 DEF ObjectsOK, DeletionsOK, RowsHaveObjects, CommitTarget, IInv, TypeOK, Clients
<1>3. ASSUME NEW content \in Contents, Put(a, content) PROVE ObjectsOK'
  BY <1>3 DEF ObjectsOK, DeletionsOK, RowsHaveObjects, Put, IInv, TypeOK, Clients, Keys
<1>4. ASSUME NEW kept \in Keeping, Complete(a, kept) PROVE ObjectsOK'
  <2>1. \A b \in Audios : up[b].at \notin {"new", "asking"} =>
          up'[b].at \notin {"new", "asking"} /\ up'[b].of = up[b].of
    BY <1>4 DEF Complete, IInv, TypeOK, Clients
  <2>2. UNCHANGED <<episodes, rows, stored, del, crossed>>
    BY <1>4 DEF Complete
  <2>3. ASSUME NEW b \in Audios, audio'[b] # None, audio'[b].status = "ready",
               audio'[b].of \in episodes
        PROVE  stored[b] # None
    <3>1. CASE audio'[b] = audio[b]
      BY <2>3, <3>1 DEF ObjectsOK, RowsHaveObjects
    <3>2. CASE audio'[b] # audio[b]
      BY <1>4, <3>2 DEF Complete, Verified, IInv, TypeOK
    <3> QED BY <3>1, <3>2
  <2>4. DeletionsOK'
    BY <2>1, <2>2, DeletionsKept DEF ObjectsOK
  <2>5. RowsHaveObjects'
    BY <2>2, <2>3 DEF ObjectsOK, RowsHaveObjects
  <2> QED BY <2>4, <2>5 DEF ObjectsOK
<1>5. CASE Submit(a) \/ QueueNothing(a) \/ AskAgain(a)
  <2>1. \A b \in Audios : up[b].at \notin {"new", "asking"} =>
          up'[b].at \notin {"new", "asking"} /\ up'[b].of = up[b].of
    BY <1>5, SubmitFacts DEF IInv
  <2>2. UNCHANGED <<episodes, audio, rows, stored, del, crossed>>
    BY <1>5, SubmitFacts DEF IInv
  <2>3. DeletionsOK'
    BY <2>1, <2>2, DeletionsKept DEF ObjectsOK
  <2> QED BY <2>2, <2>3 DEF ObjectsOK, RowsHaveObjects
<1> QED BY <1>1, <1>2, <1>3, <1>4, <1>5 DEF Upload

LEMMA ExecutionKeepsObjects ==
  ASSUME IInv, ObjectsOK, NEW x \in Runs, Execution(x) PROVE ObjectsOK'
<1> USE DEF tables, history
<1>1. CASE \/ \E a \in Audios : Begin(x, a)
           \/ Fetch(x) \/ Undecodable(x) \/ PersistRead(x) \/ Finish(x) \/ Die(x)
  <2>1. UNCHANGED objects
    BY <1>1 DEF objects, Begin, Fetch, Undecodable, PersistRead, Finish, Die
  <2> QED BY <2>1, ObjectsStutter
<1>2. CASE Save(x)
  <2>1. run[x].bytes \in Contents
    BY <1>2 DEF Save, IInv, RunsOK, ClientsOK, Contents
  <2>2. \A k \in Keys : stored[k] # None => stored'[k] # None
    BY <1>2, <2>1 DEF Save, IInv, TypeOK
  <2> QED BY <1>2, <2>2 DEF ObjectsOK, DeletionsOK, RowsHaveObjects, Save, IInv, TypeOK, Rows, Keys
<1>3. CASE Commit(x)
  <2>1. crossed \subseteq crossed' /\ rows \subseteq rows'
    BY <1>3 DEF Commit
  <2>2. \A r \in rows' \ rows : r.key = run[x].key
    BY <1>3 DEF Commit
  <2>3. \/ run[x].key \in crossed'
        \/ stored[run[x].key] # None /\ \A e \in Episodes : run[x].key \notin del[e].keys
    BY <1>3 DEF Commit
  <2>4. DeletionsOK'
    BY <1>3, <2>1, <2>2, <2>3 DEF ObjectsOK, DeletionsOK, Commit
  <2>5. RowsHaveObjects'
    BY <1>3, <2>1, <2>2, <2>3 DEF ObjectsOK, RowsHaveObjects, Commit
  <2> QED BY <2>4, <2>5 DEF ObjectsOK
<1> QED BY <1>1, <1>2, <1>3 DEF Execution

LEMMA DeletionKeepsObjects ==
  ASSUME IInv, ObjectsOK, NEW e \in Episodes, Deletion(e) PROVE ObjectsOK'
<1> USE DEF tables, history
<1>1. CASE Collect(e)
  <2>1. \A a \in AudioOf(e) : up[a].at \notin {"new", "asking"} /\ up[a].of = e
    BY DEF AudioOf, IInv, ClientsOK
  <2>2. \A a \in Audios : a \in del'[e].keys => a \in AudioOf(e)
    BY <1>1 DEF Collect, RowsOf, IInv, TypeOK, Rows
  <2>3. \A r \in rows : r.key \in del'[e].keys => r.of = e
    BY <1>1 DEF Collect, RowsOf, AudioOf, Shared, IInv, TypeOK, Rows
  <2>4. DeletionsOK'
    BY <1>1, <2>1, <2>2, <2>3 DEF Collect, ObjectsOK, DeletionsOK, IInv, TypeOK
  <2> QED BY <1>1, <2>4 DEF Collect, ObjectsOK, RowsHaveObjects
<1>2. CASE DeleteRows(e)
  <2>1. /\ rows' \subseteq rows /\ episodes' = episodes \ {e}
        /\ \A a \in Audios : audio'[a] \in {None, audio[a]}
        /\ UNCHANGED <<stored, up, crossed>>
    BY <1>2 DEF DeleteRows
  <2>2. \A f \in Episodes : /\ del'[f].keys = del[f].keys
                            /\ f # e => del'[f].at = del[f].at
    BY <1>2 DEF DeleteRows, IInv, TypeOK
  <2>3. DeletionsOK'
    BY <2>1, <2>2, DeletionsKept DEF ObjectsOK
  <2>4. RowsHaveObjects'
    BY <2>1 DEF ObjectsOK, RowsHaveObjects
  <2> QED BY <2>3, <2>4 DEF ObjectsOK
<1>3. CASE Rollback(e)
  BY <1>3 DEF Rollback, NoDeletion, ObjectsOK, DeletionsOK, RowsHaveObjects, IInv, TypeOK
<1>4. ASSUME NEW k \in Keys, Remove(e, k) \/ RemoveFails(e, k) PROVE ObjectsOK'
  <2>1. /\ \A f \in Episodes : /\ del'[f].keys \subseteq del[f].keys
                              /\ del'[f].at = del[f].at
        /\ UNCHANGED <<episodes, audio, rows, up, crossed>>
    BY <1>4 DEF Remove, RemoveFails, IInv, TypeOK
  <2>2. \A l \in Keys : l # k => stored'[l] = stored[l]
    BY <1>4 DEF Remove, RemoveFails, IInv, TypeOK
  <2>3. e \notin episodes /\ k \in del[e].keys
    BY <1>4 DEF Remove, RemoveFails, ObjectsOK, DeletionsOK
  <2>4. \A a \in Audios : audio[a] # None /\ audio[a].of \in episodes => a # k
    BY <2>3 DEF ObjectsOK, DeletionsOK, IInv, ClientsOK
  <2>5. \A r \in rows : r.of \in episodes => r.key # k \/ r.key \in crossed
    BY <2>3 DEF ObjectsOK, DeletionsOK
  <2>6. DeletionsOK'
    BY <2>1, DeletionsKept DEF ObjectsOK
  <2>7. RowsHaveObjects'
    BY <2>1, <2>2, <2>4, <2>5 DEF ObjectsOK, RowsHaveObjects, IInv, TypeOK, Rows, Keys
  <2> QED BY <2>6, <2>7 DEF ObjectsOK
<1> QED BY <1>1, <1>2, <1>3, <1>4 DEF Deletion

\* No deletion takes an object from under a row of an episode that exists,
\* whatever is uploaded, transcribed or deleted meanwhile, but for an artifact
\* that a cache hit pointed at after the deletion had collected it.
THEOREM LiveRowsKeepTheirObjects == Spec => []RowsHaveObjects
<1>1. IInv /\ ObjectsOK /\ [Next]_vars => ObjectsOK'
  <2> SUFFICES ASSUME IInv, ObjectsOK, [Next]_vars PROVE ObjectsOK'
    OBVIOUS
  <2>1. CASE UNCHANGED vars
    BY <2>1, ObjectsStutter DEF vars, tables, history, objects
  <2> QED BY <2>1, UploadKeepsObjects, ExecutionKeepsObjects, DeletionKeepsObjects DEF Next
<1>2. ObjectsOK => RowsHaveObjects
  BY DEF ObjectsOK
<1> QED BY <1>1, <1>2, ObjectsInit, InvariantHolds, PTL DEF Spec

-----------------------------------------------------------------------------
(* A job executed again.                                                      *)

\* Rows are numbered, an audio file that executions never shared has one
\* execution, and the last row is not of the audio file it will add a row for.
RetriesOK ==
  /\ \A r \in rows : r.n <= count
  /\ \A r, s \in rows : r.n = s.n => r = s
  /\ \A x, y \in Runs : x # y /\ run[x].audio = run[y].audio /\ run[x].audio # None =>
       run[x].audio \in overlapped
  /\ \A x \in Runs :
       run[x].at \in {"fetching", "fetched", "saved", "committing"}
         /\ run[x].audio \notin overlapped =>
       \A r \in rows : r.audio = run[x].audio => r.n # count
  /\ RetryAddsNothing

\* Executions that end or go on and rows that go disturb nothing.
LEMMA RetriesKept ==
  ASSUME RetriesOK, rows' \subseteq rows, UNCHANGED <<count, overlapped>>,
         \A x \in Runs :
           /\ run'[x].audio \in {run[x].audio, None}
           /\ run'[x].at \in {"fetching", "fetched", "saved", "committing"} =>
                /\ run[x].at \in {"fetching", "fetched", "saved", "committing"}
                /\ run'[x].audio = run[x].audio
  PROVE  RetriesOK'
<1>1. RetryAddsNothing'
  BY DEF RetriesOK, RetryAddsNothing
<1>2. \A x, y \in Runs : x # y /\ run'[x].audio = run'[y].audio /\ run'[x].audio # None =>
        run'[x].audio \in overlapped'
  BY DEF RetriesOK
<1>3. \A x \in Runs :
        run'[x].at \in {"fetching", "fetched", "saved", "committing"}
          /\ run'[x].audio \notin overlapped' =>
        \A r \in rows' : r.audio = run'[x].audio => r.n # count'
  BY DEF RetriesOK
<1>4. (\A r \in rows' : r.n <= count') /\ (\A r, s \in rows' : r.n = s.n => r = s)
  BY DEF RetriesOK
<1> QED BY <1>1, <1>2, <1>3, <1>4 DEF RetriesOK

LEMMA BeginAddsNothing ==
  ASSUME IInv, RetriesOK, NEW x \in Runs, NEW a \in Audios, Begin(x, a) PROVE RetriesOK'
<1>1. UNCHANGED <<rows, count>> /\ overlapped \subseteq overlapped'
  BY DEF Begin
<1>2. \A y \in Runs : run[y].audio = a => a \in overlapped'
  BY DEF Begin
<1>3. \A y \in Runs : y # x => run'[y] = run[y]
  BY DEF Begin, Starts, IInv, TypeOK
<1>4. run' = run \/ run'[x].audio = a
  BY DEF Begin, Starts, IInv, TypeOK
<1>5. ASSUME Ready(a), NEW r \in rows, r.audio = a PROVE r.checksum = audio[a].checksum
  BY <1>5 DEF Ready, IInv, ClientsOK, RowsOK
<1>6. ASSUME run' # run, run'[x].at \in {"fetching", "fetched", "saved", "committing"},
             NEW r \in rows, r.audio = a
      PROVE  r.n # count
  <2>1. CASE \A s \in rows : s.checksum # audio[a].checksum
    BY <1>5, <1>6, <2>1 DEF Begin
  <2>2. CASE \E s \in rows : s.checksum = audio[a].checksum
    <3>1. Ready(a)
      BY <1>6 DEF Begin
    <3>2. PICK s \in rows :
            Cached(s, audio[a].checksum)
              /\ IF Repeats(a, s) THEN Starts(x, a, "finishing", None)
                 ELSE Starts(x, a, "committing", s.key)
      BY <1>6, <2>2 DEF Begin
    <3>3. ~Repeats(a, s)
      BY <1>6, <3>2 DEF Starts, IInv, TypeOK
    <3>4. s.audio # a /\ r.n <= s.n
      BY <1>5, <1>6, <3>1, <3>2, <3>3 DEF Repeats, Cached
    <3>5. r.n \in Nat /\ s.n \in Nat /\ count \in Nat /\ s.n <= count
      BY DEF RetriesOK, IInv, TypeOK, Rows
    <3> QED BY <1>6, <3>4, <3>5 DEF RetriesOK
  <2> QED BY <2>1, <2>2
<1>7. \A y, z \in Runs : y # z /\ run'[y].audio = run'[z].audio /\ run'[y].audio # None =>
        run'[y].audio \in overlapped'
  BY <1>1, <1>2, <1>3, <1>4 DEF RetriesOK
<1>8. \A y \in Runs :
        run'[y].at \in {"fetching", "fetched", "saved", "committing"}
          /\ run'[y].audio \notin overlapped' =>
        \A r \in rows' : r.audio = run'[y].audio => r.n # count'
  BY <1>1, <1>3, <1>4, <1>6 DEF RetriesOK
<1>9. RetryAddsNothing'
  BY <1>1 DEF RetriesOK, RetryAddsNothing
<1> QED BY <1>1, <1>7, <1>8, <1>9 DEF RetriesOK

LEMMA CommitAddsNothing ==
  ASSUME IInv, RetriesOK, NEW x \in Runs, Commit(x) PROVE RetriesOK'
<1> DEFINE row == [n |-> count + 1, audio |-> run[x].audio, of |-> run[x].of,
                   key |-> run[x].key, checksum |-> run[x].checksum]
<1>1. rows' = rows \cup {row} /\ count' = count + 1 /\ UNCHANGED overlapped
      /\ run[x].at = "committing"
  BY DEF Commit
<1>2. row.n = count + 1 /\ row.audio = run[x].audio
  OBVIOUS
<1> HIDE DEF row
<1>3. count \in Nat /\ \A r \in rows : r.n \in Nat /\ r.n <= count
  BY DEF RetriesOK, IInv, TypeOK, Rows
<1>4. \A y \in Runs : /\ run'[y].audio = run[y].audio
                      /\ run'[y].at = IF y = x THEN "finishing" ELSE run[y].at
  BY DEF Commit, IInv, TypeOK
<1>5. (\A r \in rows' : r.n <= count') /\ (\A r, s \in rows' : r.n = s.n => r = s)
  BY <1>1, <1>2, <1>3 DEF RetriesOK
<1>6. run[x].audio # None
  BY <1>1 DEF IInv, RunsOK
<1>7. ASSUME NEW y \in Runs, run'[y].audio \notin overlapped',
             run'[y].at \in {"fetching", "fetched", "saved", "committing"},
             NEW r \in rows', r.audio = run'[y].audio
      PROVE  r.n # count'
  <2>1. y # x /\ run[y].audio # run[x].audio
    BY <1>1, <1>4, <1>6, <1>7 DEF RetriesOK
  <2>2. r \in rows
    BY <1>1, <1>2, <1>4, <1>7, <2>1
  <2> QED BY <1>1, <1>3, <2>2
<1>8. RetryAddsNothing'
  <2> SUFFICES ASSUME NEW r \in rows', NEW s \in rows', r.audio = s.audio, s.n = r.n + 1
               PROVE  r.audio \in overlapped
    BY <1>1 DEF RetryAddsNothing
  <2>1. r \in rows
    BY <1>1, <1>2, <1>3
  <2>2. CASE s \in rows
    BY <2>1, <2>2 DEF RetriesOK, RetryAddsNothing
  <2>3. CASE s = row
    BY <1>1, <1>2, <1>3, <2>1, <2>3 DEF RetriesOK
  <2> QED BY <1>1, <2>2, <2>3
<1>9. \A y, z \in Runs : y # z /\ run'[y].audio = run'[z].audio /\ run'[y].audio # None =>
        run'[y].audio \in overlapped'
  BY <1>1, <1>4 DEF RetriesOK
<1> QED BY <1>5, <1>7, <1>8, <1>9 DEF RetriesOK

\* A job executed again adds no row right after its own, unless its executions
\* overlapped: what it hits in the cache is its own row or that of another
\* audio file, which came later.
THEOREM RepeatsAddNothing == Spec => []RetryAddsNothing
<1>1. Init => RetriesOK
  BY DEF Init, RetriesOK, RetryAddsNothing, Idle
<1>2. IInv /\ RetriesOK /\ [Next]_vars => RetriesOK'
  <2> SUFFICES ASSUME IInv, RetriesOK, [Next]_vars PROVE RetriesOK'
    OBVIOUS
  <2> USE DEF tables, history
  <2>1. ASSUME NEW x \in Runs, Execution(x) PROVE RetriesOK'
    <3>1. CASE Fetch(x) \/ Undecodable(x) \/ Save(x) \/ PersistRead(x) \/ Finish(x) \/ Die(x)
      <4>1. rows' = rows /\ UNCHANGED <<count, overlapped>>
        BY <3>1 DEF Fetch, Undecodable, Save, PersistRead, Finish, Die
      <4>2. \A y \in Runs : y # x => run'[y] = run[y]
        BY <3>1 DEF Fetch, Undecodable, Save, PersistRead, Finish, Die, IInv, TypeOK
      <4>3. /\ run'[x].audio \in {run[x].audio, None}
            /\ run'[x].at \in {"fetching", "fetched", "saved", "committing"} =>
                 /\ run[x].at \in {"fetching", "fetched", "saved", "committing"}
                 /\ run'[x].audio = run[x].audio
        <5>1. CASE run' = [run EXCEPT ![x] = Idle]
          BY <5>1 DEF Idle, IInv, TypeOK
        <5>2. CASE Fetch(x) /\ run' # [run EXCEPT ![x] = Idle]
          BY <5>2 DEF Fetch, IInv, TypeOK
        <5>3. CASE Save(x)
          BY <5>3 DEF Save, IInv, TypeOK
        <5>4. CASE PersistRead(x) /\ run' # [run EXCEPT ![x] = Idle]
          <6>1. run[x].at = "saved" /\ run' = [run EXCEPT ![x].at = "committing"]
            BY <5>4 DEF PersistRead
          <6> QED BY <6>1 DEF IInv, TypeOK
        <5> QED BY <3>1, <5>1, <5>2, <5>3, <5>4 DEF Undecodable, Finish, Die
      <4> QED BY <4>1, <4>2, <4>3, RetriesKept
    <3> QED BY <2>1, <3>1, BeginAddsNothing, CommitAddsNothing DEF Execution
  <2>2. CASE rows' \subseteq rows /\ UNCHANGED <<count, run, overlapped>>
    BY <2>2, RetriesKept
  <2>3. ASSUME NEW a \in Audios, Upload(a)
        PROVE  rows' \subseteq rows /\ UNCHANGED <<count, run, overlapped>>
    BY <2>3 DEF Upload, AskTarget, CommitTarget, Put, Complete, Submit, QueueNothing, AskAgain
  <2>4. ASSUME NEW e \in Episodes, Deletion(e)
        PROVE  rows' \subseteq rows /\ UNCHANGED <<count, run, overlapped>>
    BY <2>4 DEF Deletion, Collect, DeleteRows, Rollback, Remove, RemoveFails
  <2>5. CASE UNCHANGED vars
    BY <2>2, <2>5 DEF vars
  <2> QED BY <2>1, <2>2, <2>3, <2>4, <2>5 DEF Next
<1>3. RetriesOK => RetryAddsNothing
  BY DEF RetriesOK
<1> QED BY <1>1, <1>2, <1>3, InvariantHolds, PTL DEF Spec

-----------------------------------------------------------------------------
(* Objects without a row.                                                     *)

\* A client that can send has a row, as long as its episode exists, and nothing
\* is stored for one that cannot.
RowsFirst ==
  \A a \in Audios :
    /\ up[a].at \in {"new", "asking"} => stored[a] = None
    /\ up[a].at \notin {"new", "asking"} /\ up[a].of \in episodes => audio[a] # None

LEMMA ReadyIsRow ==
  ASSUME IInv, NEW a \in Audios, audio[a] # None, up[a].at # "new"
  PROVE  [audio[a] EXCEPT !.status = "ready", !.checksum = up[a].file] # None
<1>1. audio[a] \in AudioRows /\ up[a].file \in Bytes
  BY DEF IInv, TypeOK, ClientsOK
<1>2. [audio[a] EXCEPT !.status = "ready", !.checksum = up[a].file] \in AudioRows
  BY <1>1 DEF AudioRows
<1> QED BY <1>2, NoRowAssumption

LEMMA SavesNoUpload ==
  ASSUME IInv, NEW x \in Runs, Save(x) PROVE \A a \in Audios : stored'[a] = stored[a]
<1>1. TranscriptKey(run[x].of, run[x].checksum) \in TranscriptKeys
  BY DEF Save, IInv, RunsOK, ClientsOK, Contents, TranscriptKey, TranscriptKeys
<1> QED BY <1>1 DEF Save, IInv, TypeOK, Keys

\* What was uploaded to an episode that exists has its row, however uploads and
\* deletions cross.
THEOREM UploadsHaveRows == Spec => []UploadsAreFound
<1>1. Init => RowsFirst
  BY DEF Init, RowsFirst, Keys
<1>2. IInv /\ RowsFirst /\ [Next]_vars => RowsFirst'
  <2> SUFFICES ASSUME IInv, RowsFirst, [Next]_vars PROVE RowsFirst'
    OBVIOUS
  <2> USE DEF tables, history, Move
  <2>1. ASSUME NEW a \in Audios, Upload(a) PROVE RowsFirst'
    <3>1. ASSUME NEW e \in Episodes, NEW b \in Bytes, AskTarget(a, e, b) PROVE RowsFirst'
      BY <3>1 DEF RowsFirst, AskTarget, IInv, TypeOK
    <3>2. CASE CommitTarget(a)
      <4>1. audio' = [audio EXCEPT ![a] = [of |-> up[a].of, status |-> "pending",
                                           checksum |-> None]]
            /\ up[a].of \in Episodes
        BY <3>2 DEF CommitTarget, IInv, ClientsOK
      <4>2. audio'[a] \in AudioRows
        BY <4>1 DEF AudioRows, IInv, TypeOK
      <4>3. audio'[a] # None
        BY <4>2, NoRowAssumption
      <4> QED BY <3>2, <4>1, <4>3 DEF RowsFirst, CommitTarget, IInv, TypeOK, Clients
    <3>3. ASSUME NEW content \in Contents, Put(a, content) PROVE RowsFirst'
      BY <3>3 DEF RowsFirst, Put, IInv, TypeOK, Clients, Keys
    <3>4. ASSUME NEW kept \in Keeping, Complete(a, kept) PROVE RowsFirst'
      <4>1. \A b \in Audios : audio[b] # None => audio'[b] # None
        <5>1. CASE UNCHANGED audio
          BY <5>1
        <5>2. CASE audio' = [audio EXCEPT ![a].status = "ready", ![a].checksum = up[a].file]
          <6>1. up[a].at # "new"
            BY <3>4 DEF Complete
          <6>2. audio' = [audio EXCEPT ![a] = [audio[a] EXCEPT !.status = "ready",
                                                              !.checksum = up[a].file]]
            BY <5>2
          <6> QED BY <6>1, <6>2, ReadyIsRow DEF IInv, TypeOK
        <5> QED BY <3>4, <5>1, <5>2 DEF Complete
      <4> QED BY <3>4, <4>1 DEF RowsFirst, Complete, IInv, TypeOK, Clients
    <3>5. CASE Submit(a) \/ QueueNothing(a) \/ AskAgain(a)
      BY <3>5, SubmitFacts DEF RowsFirst, IInv
    <3> QED BY <2>1, <3>1, <3>2, <3>3, <3>4, <3>5 DEF Upload
  <2>2. ASSUME NEW x \in Runs, Execution(x) PROVE RowsFirst'
    <3>1. UNCHANGED <<episodes, audio, up>>
      BY <2>2 DEF Execution, Begin, Fetch, Undecodable, Save, PersistRead, Commit, Finish, Die
    <3>2. \A a \in Audios : stored'[a] = stored[a]
      <4>1. CASE Save(x)
        BY <4>1, SavesNoUpload
      <4> QED
        BY <2>2, <4>1 DEF Execution, Begin, Fetch, Undecodable, PersistRead, Commit, Finish, Die
    <3> QED BY <3>1, <3>2 DEF RowsFirst
  <2>3. ASSUME NEW e \in Episodes, Deletion(e) PROVE RowsFirst'
    <3>1. CASE DeleteRows(e)
      BY <3>1 DEF DeleteRows, AudioOf, RowsFirst, IInv, ClientsOK
    <3>2. ASSUME NEW k \in Keys, Remove(e, k) \/ RemoveFails(e, k) PROVE RowsFirst'
      BY <3>2 DEF Remove, RemoveFails, RowsFirst, IInv, TypeOK, Keys
    <3> QED BY <2>3, <3>1, <3>2 DEF Deletion, Collect, Rollback, RowsFirst
  <2>4. CASE UNCHANGED vars
    BY <2>4 DEF vars, RowsFirst
  <2> QED BY <2>1, <2>2, <2>3, <2>4 DEF Next
<1>3. RowsFirst => UploadsAreFound
  BY DEF RowsFirst, UploadsAreFound
<1> QED BY <1>1, <1>2, <1>3, InvariantHolds, PTL DEF Spec

=============================================================================
