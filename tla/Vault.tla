------------------------------- MODULE Vault -------------------------------
(***************************************************************************)
(* One file of the vault: its row in governed_files with the encrypted     *)
(* data key, and its object in the bucket.  (routers/secure_files.py,      *)
(* services/s3_vault.py, core/dek_cache.py and core/dek_utils.py of the    *)
(* auth-gateway, and scripts/drm_backfill.py.)                             *)
(*                                                                         *)
(* A key stands for a data key and for the encrypted form of it alike: the *)
(* key service turns one into the other.  The file may be an old one that  *)
(* the backfill has to encrypt in place, or one about to be uploaded.      *)
(***************************************************************************)
EXTENDS Naturals

CONSTANTS
  VtWorker, \* runs of the backfill script
  VtReader, \* requests for the file's content
  MaxDeks   \* bound: data keys made

ASSUME VaultAssumption == MaxDeks \in Nat

NoDek == 0
Dek == 1..MaxDeks

VARIABLES
  vrow,    \* the row; "aged": untouched for STALE_THRESHOLD_MINUTES
  object,  \* what the bucket has under the row's key
  upload,  \* the request that uploads the file
  worker,  \* what each run of the script is at with this row
  cache,   \* data keys kept in memory, by what they are looked up with
  reader,  \* requests for the content; "failed": the last one could not decrypt
  vLog     \* history: keys made; whether a row was reset under a worker that goes on

vtVars == <<vrow, object, upload, worker, cache, reader, vLog>>

EncState == {"plain", "encrypting", "encrypted"}
VtIdle == [pc |-> "idle", key |-> NoDek]

VtInit ==
  /\ \/ /\ vrow = [there |-> TRUE, dek |-> NoDek, state |-> "plain", aged |-> TRUE]
        /\ object = [there |-> TRUE, key |-> NoDek]
        /\ upload = "done"
     \/ /\ vrow = [there |-> FALSE, dek |-> NoDek, state |-> "encrypted", aged |-> FALSE]
        /\ object = [there |-> FALSE, key |-> NoDek]
        /\ upload = "received"
  /\ worker = [w \in VtWorker |-> VtIdle]
  /\ cache = {}
  /\ reader = [h \in VtReader |-> [pc |-> "idle", dek |-> NoDek, failed |-> FALSE]]
  /\ vLog = [keys |-> 0, raced |-> FALSE]

NewDek == vLog.keys + 1
MakeKey == NewDek \in Dek /\ vLog' = [vLog EXCEPT !.keys = NewDek]

-----------------------------------------------------------------------------
(* Uploading *)

\* The key is made, and committed with the row.
UploadRow ==
  /\ upload = "received" /\ MakeKey
  /\ vrow' = [there |-> TRUE, dek |-> NewDek, state |-> "encrypted", aged |-> FALSE]
  /\ upload' = "stored"
  /\ UNCHANGED <<object, worker, cache, reader>>

\* Then the encrypted file is put into the bucket.
UploadObject ==
  /\ upload = "stored"
  /\ object' = [there |-> TRUE, key |-> vrow.dek]
  /\ upload' = "done"
  /\ UNCHANGED <<vrow, worker, cache, reader, vLog>>

\* The upload fails or its replica dies, in any of its steps.
UploadFails ==
  /\ upload \in {"received", "stored"}
  /\ upload' = "done"
  /\ UNCHANGED <<vrow, object, worker, cache, reader, vLog>>

-----------------------------------------------------------------------------
(* The backfill *)

\* A row is claimed under a lock that other runs skip.
Claim(w) ==
  /\ worker[w].pc = "idle"
  /\ vrow.there /\ vrow.state = "plain"
  /\ vrow' = [vrow EXCEPT !.state = "encrypting", !.aged = FALSE]
  /\ worker' = [worker EXCEPT ![w].pc = "claimed"]
  /\ UNCHANGED <<object, upload, cache, reader, vLog>>

\* The object is read; one that is encrypted already is left for a manual review.
Download(w) ==
  /\ worker[w].pc = "claimed"
  /\ IF object.there /\ object.key = NoDek
       THEN MakeKey /\ worker' = [worker EXCEPT ![w] = [pc |-> "read", key |-> NewDek]]
       ELSE worker' = [worker EXCEPT ![w] = VtIdle] /\ UNCHANGED vLog
  /\ UNCHANGED <<vrow, object, upload, cache, reader>>

\* Mutant of SaveKey: the key is written only when the object has been.
SaveKeyLate(w) ==
  /\ worker[w].pc = "read"
  /\ worker' = [worker EXCEPT ![w].pc = "saved"]
  /\ UNCHANGED <<vrow, object, upload, cache, reader, vLog>>

\* The key goes to the row before the object changes.
SaveKey(w) ==
  /\ worker[w].pc = "read"
  /\ vrow' = [vrow EXCEPT !.dek = worker[w].key, !.aged = FALSE]
  /\ worker' = [worker EXCEPT ![w].pc = "saved"]
  /\ UNCHANGED <<object, upload, cache, reader, vLog>>

Overwrite(w) ==
  /\ worker[w].pc = "saved"
  /\ object' = [object EXCEPT !.key = worker[w].key]
  /\ worker' = [worker EXCEPT ![w].pc = "put"]
  /\ UNCHANGED <<vrow, upload, cache, reader, vLog>>

MarkEncrypted(w) ==
  /\ worker[w].pc = "put"
  /\ vrow' = [vrow EXCEPT !.state = "encrypted", !.aged = FALSE]
  /\ worker' = [worker EXCEPT ![w] = VtIdle]
  /\ UNCHANGED <<object, upload, cache, reader, vLog>>

\* A call fails or the script is killed: the row stays "encrypting".  (The model of the table
\* has a state for failures, which nothing sets.)
WorkerFails(w) ==
  /\ worker[w].pc # "idle"
  /\ worker' = [worker EXCEPT ![w] = VtIdle]
  /\ UNCHANGED <<vrow, object, upload, cache, reader, vLog>>

\* Ten minutes pass without a write to the row.  A worker that waits for the rest of its batch,
\* or for a large object, does not write.
RowAges ==
  /\ vrow.there /\ ~vrow.aged
  /\ vrow' = [vrow EXCEPT !.aged = TRUE]
  /\ UNCHANGED <<object, upload, worker, cache, reader, vLog>>

\* The operator resets the rows that look abandoned.
ResetStale ==
  /\ vrow.there /\ vrow.state = "encrypting" /\ vrow.aged
  /\ vrow' = [vrow EXCEPT !.state = "plain", !.aged = FALSE]
  /\ vLog' = [vLog EXCEPT !.raced = @ \/ \E w \in VtWorker : worker[w].pc # "idle"]
  /\ UNCHANGED <<object, upload, worker, cache, reader>>

-----------------------------------------------------------------------------
(* Reading *)

\* A request of the viewer, or of the Document Server with the viewer's token, reads the row.
ReadRow(h) ==
  /\ reader[h].pc = "idle" /\ vrow.there
  /\ reader' = [reader EXCEPT ![h] = [pc |-> "row", dek |-> vrow.dek, failed |-> FALSE]]
  /\ UNCHANGED <<vrow, object, upload, worker, cache, vLog>>

\* The data key that the memory, or else the key service, has for an encrypted key.  Keys are
\* remembered under the file and the encrypted key.
Cached(dek) == dek

\* The object is fetched: it may not be there, may be plain, or is decrypted with the key.
ReadObject(h) ==
  LET dek == reader[h].dek
      decrypts == dek # NoDek /\ Cached(dek) = object.key
  IN
  /\ reader[h].pc = "row"
  /\ reader' = [reader EXCEPT ![h] = [pc |-> "idle", dek |-> dek,
                  failed |-> object.there /\ object.key # NoDek /\ ~decrypts]]
  /\ cache' = IF object.there /\ object.key # NoDek /\ dek # NoDek
              THEN cache \cup {Cached(dek)} ELSE cache
  /\ UNCHANGED <<vrow, object, upload, worker, vLog>>

\* Keys leave the memory after five minutes.
CacheExpires ==
  /\ cache # {} /\ cache' = {}
  /\ UNCHANGED <<vrow, object, upload, worker, reader, vLog>>

VtNext ==
  \/ UploadRow \/ UploadObject \/ UploadFails
  \/ \E w \in VtWorker :
       \/ Claim(w) \/ Download(w) \/ SaveKey(w) \/ Overwrite(w) \/ MarkEncrypted(w)
       \/ WorkerFails(w)
  \/ RowAges \/ ResetStale
  \/ \E h \in VtReader : ReadRow(h) \/ ReadObject(h)
  \/ CacheExpires

VtSpec == VtInit /\ [][VtNext]_vtVars

-----------------------------------------------------------------------------
(* Properties *)

\* The type invariant.
VtTypeOK ==
  /\ vrow \in [there : BOOLEAN, dek : 0..MaxDeks, state : EncState, aged : BOOLEAN]
  /\ object \in [there : BOOLEAN, key : 0..MaxDeks]
  /\ upload \in {"received", "stored", "done"}
  /\ worker \in [VtWorker -> [pc : {"idle", "claimed", "read", "saved", "put"},
                              key : 0..MaxDeks]]
  /\ cache \subseteq Dek
  /\ reader \in [VtReader -> [pc : {"idle", "row"}, dek : 0..MaxDeks, failed : BOOLEAN]]
  /\ vLog \in [keys : 0..MaxDeks, raced : BOOLEAN]

\* The file can be read back in every state, whatever fails or dies in the middle of an upload
\* or of the backfill: an encrypted object has its key in the row.  Unless a row is reset while
\* its worker goes on: two keys are then on their way, and the object may keep the one that
\* the row has lost.
Readable == object.there /\ object.key # NoDek /\ ~vLog.raced => vrow.dek = object.key

\* The bucket has no object without a row: a failed upload leaves a row without an object.
ObjectHasRow == object.there => vrow.there

\* A row marked as encrypted has no plain object, also when two runs worked on it.
MarkedIsEncrypted == vrow.there /\ vrow.state = "encrypted" /\ object.there => object.key # NoDek

\* A request that cannot decrypt the object had read the row before the backfill put a new key
\* there: asked again, it succeeds.  The keys in memory never decide the outcome.
ReadFailuresPass ==
  \A h \in VtReader : reader[h].failed /\ ~vLog.raced => reader[h].dek # vrow.dek

\* Whatever fails or dies in an upload or in the backfill, row and object keep the keys and
\* marks by which the file can be read, and a reader that fails succeeds when asked again.
FileStaysReadable == Readable /\ ObjectHasRow /\ MarkedIsEncrypted /\ ReadFailuresPass
=============================================================================
