------------------------------- MODULE Backup -------------------------------
(***************************************************************************)
(* relic-api backup and relic-api restore (cmd/relic-api/backup.go): the   *)
(* bundle is put together while the server goes on storing and deleting    *)
(* traces, and restored into another database and bucket.  A run is its    *)
(* storage key.  The dump is one snapshot of the database; the keys are    *)
(* listed, and the objects read, later.                                    *)
(***************************************************************************)
EXTENDS Naturals, FiniteSets

CONSTANTS
  Keys,        \* the runs
  MaxRestores  \* bound: how often the operator tries to restore

ASSUME BackupAssumption == MaxRestores \in Nat

VARIABLES
  rows, objs,  \* the source: runs with a row, runs with an object
  busy,        \* per run: idle, or in the middle of an upload or a delete
  bk,          \* the backup command: where it is, or how it exited
  include,     \* --include-blobs, cleared when there is nothing to include
  dump,        \* the rows in the dump
  short,       \* the dump misses its end
  listed,      \* blobs.txt
  todo,        \* keys the loop has still to copy
  file,        \* OUT.tar.gz: none, open, whole, cut short, or without a dump
  blobs,       \* the objects in it
  unsettled,   \* history: runs without an object when the dump was taken, or stored
               \* or deleted while the backup ran
  warned,      \* a failure was logged and passed over
  rs,          \* the restore command
  used,        \* what the target database held before: nothing, something beside the
               \* names of the dump, or something that clashes with them
  began,       \* what the restore found there of the dump
  targetDb,    \* what is there of it: nothing, a part, all of it
  restored,    \* the rows loaded into it
  bucket,      \* the objects pushed to the target bucket
  push,        \* objects the restore has still to push
  tries        \* restores begun

source == <<rows, objs, busy>>
bundle == <<include, dump, short, listed, todo, file, blobs>>
target == <<used, targetDb, restored, bucket>>
backupVars == <<source, bk, bundle, unsettled, warned, rs, began, target, push, tries>>

BackupTypeOK ==
  /\ rows \subseteq Keys /\ objs \subseteq Keys
  /\ busy \in [Keys -> {"idle", "upload", "delete"}]
  /\ bk \in {"start", "list", "write", "copy", "ok", "failed"}
  /\ include \in BOOLEAN /\ short \in BOOLEAN /\ warned \in BOOLEAN
  /\ dump \subseteq Keys /\ listed \subseteq Keys /\ todo \subseteq Keys
  /\ file \in {"none", "open", "whole", "cut", "nodump"}
  /\ blobs \subseteq Keys /\ unsettled \subseteq Keys
  /\ rs \in {"idle", "psql", "blobs", "ok", "failed"}
  /\ used \in {"no", "beside", "clashing"}
  /\ began \in {"none", "part", "full"} /\ targetDb \in {"none", "part", "full"}
  /\ restored \subseteq Keys /\ bucket \subseteq Keys /\ push \subseteq Keys
  /\ tries \in 0 .. MaxRestores

(* The source has whole runs; the target is a new database or one in use. *)
BackupInit ==
  /\ rows \in SUBSET Keys /\ objs = rows /\ busy = [k \in Keys |-> "idle"]
  /\ bk = "start" /\ include \in BOOLEAN
  /\ dump = {} /\ short = FALSE /\ listed = {} /\ todo = {}
  /\ file = "none" /\ blobs = {} /\ unsettled = {} /\ warned = FALSE
  /\ rs = "idle" /\ used \in {"no", "beside", "clashing"}
  /\ targetDb = "none" /\ began = "none"
  /\ restored = {} /\ bucket = {} /\ push = {} /\ tries = 0

(***************************************************************************)
(* The server meanwhile: an upload inserts its row and then puts the       *)
(* object, or tries to take the row back; a delete and the retention sweep *)
(* delete the row and then the object, which may stay behind.              *)
(***************************************************************************)
BackupRuns == bk \in {"list", "write", "copy"}
Touch(k) ==
  /\ unsettled' = IF BackupRuns THEN unsettled \cup {k} ELSE unsettled
  /\ UNCHANGED <<bk, bundle, warned, rs, began, target, push, tries>>

UploadRow(k) ==
  /\ busy[k] = "idle" /\ k \notin rows /\ bk \notin {"ok", "failed"}
  /\ rows' = rows \cup {k} /\ busy' = [busy EXCEPT ![k] = "upload"]
  /\ Touch(k) /\ UNCHANGED objs

UploadObject(k) ==
  /\ busy[k] = "upload"
  /\ \/ objs' = objs \cup {k} /\ UNCHANGED rows
     \/ rows' \in {rows, rows \ {k}} /\ UNCHANGED objs
  /\ busy' = [busy EXCEPT ![k] = "idle"]
  /\ Touch(k)

DeleteRow(k) ==
  /\ busy[k] = "idle" /\ k \in rows /\ bk \notin {"ok", "failed"}
  /\ rows' = rows \ {k} /\ busy' = [busy EXCEPT ![k] = "delete"]
  /\ Touch(k) /\ UNCHANGED objs

DeleteObject(k) ==
  /\ busy[k] = "delete"
  /\ objs' \in {objs, objs \ {k}} /\ busy' = [busy EXCEPT ![k] = "idle"]
  /\ Touch(k) /\ UNCHANGED rows

(***************************************************************************)
(* runBackup.                                                              *)
(***************************************************************************)
(* pg_dump; the error of closing its gzip stream is ignored. *)
PgDump ==
  /\ bk = "start"
  /\ dump' = rows /\ short' \in BOOLEAN
  /\ unsettled' = {k \in Keys : busy[k] # "idle" \/ k \notin objs}
  /\ bk' = "list"
  /\ UNCHANGED <<source, include, listed, todo, file, blobs, warned, rs, began, target, push, tries>>

(* Mutant of ListKeys: the first page only. *)
ListFirstPage ==
  /\ bk = "list"
  /\ listed' \in SUBSET objs
  /\ include' = (include /\ listed' # {})
  /\ warned' = (warned \/ (include /\ listed' = {}))
  /\ bk' = "write"
  /\ UNCHANGED <<source, dump, short, todo, file, blobs, unsettled, rs, began, target, push, tries>>

(* A failed listing, or an empty one, is a warning. *)
ListKeys ==
  /\ bk = "list"
  /\ \/ listed' = objs /\ warned' = (warned \/ (include /\ objs = {}))
     \/ listed' = {} /\ warned' = TRUE
  /\ include' = (include /\ listed' # {})
  /\ bk' = "write"
  /\ UNCHANGED <<source, dump, short, todo, file, blobs, unsettled, rs, began, target, push, tries>>

(* writeBackupBundle: os.Create, the manifest, the dump and blobs.txt; an  *)
(* error in between leaves a file without a dump, or one that is cut short.*)
WriteHead ==
  /\ bk = "write"
  /\ \/ /\ file' = "open" /\ todo' = (IF include THEN listed ELSE {})
        /\ bk' = "copy"
     \/ /\ file' \in {"nodump", "cut"} /\ bk' = "failed" /\ UNCHANGED todo
  /\ UNCHANGED <<source, include, dump, short, listed, blobs, unsettled, warned, rs, began, target, push,
                 tries>>

(* An object that cannot be read is skipped with a warning. *)
CopyBlob(k) ==
  /\ bk = "copy" /\ k \in todo
  /\ todo' = todo \ {k}
  /\ \/ k \in objs /\ blobs' = blobs \cup {k} /\ UNCHANGED warned
     \/ warned' = TRUE /\ UNCHANGED blobs
  /\ UNCHANGED <<source, bk, include, dump, short, listed, file, unsettled, rs, began, target, push, tries>>

(* The errors of the deferred Close calls, that write the end of the file, *)
(* are ignored.                                                            *)
BackupDone ==
  /\ bk = "copy" /\ todo = {}
  /\ bk' = "ok" /\ file' \in {"whole", "cut"}
  /\ UNCHANGED <<source, include, dump, short, listed, todo, blobs, unsettled, warned, rs, began, target,
                 push, tries>>

(* It exits with an error, or is killed. *)
BackupDies ==
  /\ bk \in {"start", "list", "write", "copy"}
  /\ bk' = "failed" /\ file' = IF file = "open" THEN "cut" ELSE file
  /\ UNCHANGED <<source, include, dump, short, listed, todo, blobs, unsettled, warned, rs, began, target,
                 push, tries>>

(***************************************************************************)
(* runRestore.                                                             *)
(***************************************************************************)
(* extractBundle: a file that is cut short is an error, and so is opening  *)
(* a dump that is not there.                                               *)
ExtractBundle ==
  /\ bk \in {"ok", "failed"} /\ file # "none"
  /\ rs \in {"idle", "ok", "failed"} /\ tries < MaxRestores
  /\ tries' = tries + 1 /\ began' = targetDb
  /\ rs' = IF file = "whole" THEN "psql" ELSE "failed"
  /\ UNCHANGED <<source, bk, bundle, unsettled, warned, target, push>>

(* psql executes the dump: it creates the tables and loads them.  Nobody   *)
(* looks whether the database is empty: only a name that is taken stops it.*)
Psql ==
  /\ rs = "psql" /\ targetDb = "none" /\ used # "clashing" /\ ~short
  /\ targetDb' = "full" /\ restored' = dump
  /\ rs' = "blobs" /\ push' = blobs
  /\ UNCHANGED <<source, bk, bundle, unsettled, warned, used, began, bucket, tries>>

(* Mutant of PsqlFails: without ON_ERROR_STOP psql goes on and exits 0. *)
PsqlGoesOn ==
  /\ rs = "psql"
  /\ rs' = "blobs" /\ push' = blobs
  /\ UNCHANGED <<source, bk, bundle, unsettled, warned, began, target, tries>>

(* ON_ERROR_STOP at a name that is taken or at the broken end of the dump, *)
(* a lost connection or the deadline: what was executed before stays.      *)
PsqlFails ==
  /\ rs = "psql"
  /\ rs' = "failed"
  /\ \/ UNCHANGED <<targetDb, restored>>
     \/ targetDb = "none" /\ targetDb' = "part" /\ restored' \in {{}, dump}
  /\ UNCHANGED <<source, bk, bundle, unsettled, warned, used, began, bucket, push, tries>>

(* A blob that cannot be pushed is a warning; without S3_BUCKET there is a *)
(* message instead, and none is pushed.                                    *)
PushBlob(k) ==
  /\ rs = "blobs" /\ k \in push
  /\ push' = push \ {k}
  /\ \/ bucket' = bucket \cup {k} /\ UNCHANGED warned
     \/ warned' = TRUE /\ UNCHANGED bucket
  /\ UNCHANGED <<source, bk, bundle, unsettled, rs, began, used, targetDb, restored, tries>>

RestoreDone ==
  /\ rs = "blobs" /\ push = {}
  /\ rs' = "ok"
  /\ UNCHANGED <<source, bk, bundle, unsettled, warned, began, target, push, tries>>

RestoreDies ==
  /\ rs = "blobs"
  /\ rs' = "failed"
  /\ UNCHANGED <<source, bk, bundle, unsettled, warned, began, target, push, tries>>

BackupNext ==
  \/ \E k \in Keys : UploadRow(k) \/ UploadObject(k) \/ DeleteRow(k) \/ DeleteObject(k)
  \/ PgDump \/ ListKeys \/ WriteHead \/ BackupDone \/ BackupDies
  \/ \E k \in Keys : CopyBlob(k) \/ PushBlob(k)
  \/ ExtractBundle \/ Psql \/ PsqlFails \/ RestoreDone \/ RestoreDies

BackupSpec == BackupInit /\ [][BackupNext]_backupVars

(***************************************************************************)
(* Properties.                                                             *)
(***************************************************************************)
(* A restore that says it completed found nothing of the dump in the       *)
(* target, and left all of it: exactly the rows of the dump are in its     *)
(* tables, beside whatever the database held under other names.  No object *)
(* reaches the bucket before the tables are whole, and a bundle cut short  *)
(* at any point of the backup, which may have exited 0, changes nothing.   *)
(* So a restore that stopped half way cannot be repeated, and one into the *)
(* database the bundle came from never completes.                          *)
RestoreExact ==
  /\ rs = "ok" => /\ began = "none" /\ used # "clashing"
                  /\ targetDb = "full" /\ restored = dump /\ ~short
  /\ bucket # {} => targetDb = "full"
  /\ file # "whole" => targetDb = "none" /\ bucket = {}

(* What a hot backup is worth: when a backup with --include-blobs and its  *)
(* restore completed and neither warned, every run of the dump that had    *)
(* its object and that nobody stored or deleted meanwhile has it again,    *)
(* although the dump, the list of keys and each copy were taken at         *)
(* different times.                                                        *)
RestoredRunsServed == rs = "ok" /\ include /\ ~warned => dump \ unsettled \subseteq bucket

(***************************************************************************)
(* The inductive invariant of the proofs.                                  *)
(***************************************************************************)
(* Where the commands are against what the file and the target hold. *)
StagesOK ==
  /\ file = "whole" => bk = "ok"
  /\ file = "open" => bk = "copy"
  /\ bk = "ok" => todo = {}
  /\ rs # "idle" => bk \in {"ok", "failed"}
  /\ rs \in {"psql", "blobs", "ok"} => file = "whole"
  /\ rs = "psql" => began = targetDb
  /\ rs \in {"blobs", "ok"} => /\ began = "none" /\ used # "clashing"
                              /\ targetDb = "full" /\ restored = dump /\ ~short
  /\ rs = "ok" => push = {}

(* Where the objects of the settled runs of the dump are. *)
Settled == dump \ unsettled
SettledKept ==
  /\ BackupRuns => Settled \subseteq objs
  /\ include /\ ~warned =>
       /\ bk = "write" => Settled \subseteq listed
       /\ bk \in {"copy", "ok"} => Settled \subseteq todo \cup blobs
       /\ rs \in {"blobs", "ok"} => Settled \subseteq push \cup bucket

BackupIndInv == BackupTypeOK /\ StagesOK /\ SettledKept /\ RestoreExact
=============================================================================
