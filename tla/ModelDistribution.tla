-------------------------- MODULE ModelDistribution --------------------------
(* src/src/inference/distribution.rs: peers hand each other model files in    *)
(* chunks.  The module follows one model id: its download state, the partial  *)
(* and the final path, and the files behind them (a rename moves a path, not  *)
(* a file; File::create truncates the file a path already names).  A hash is  *)
(* the data it is taken of, and a caller makes one call at a time of the      *)
(* distributor; calls overlap because nothing holds a lock from a check to    *)
(* the write it allows.                                                       *)
EXTENDS Integers

CONSTANTS
  Caller, Chunk, Data, DiskFile,
  Empty,     \* what a chunk holds before anything is written to it
  Absent     \* no file, no state

ASSUME DistributionAssumption ==
  /\ Empty \notin Data /\ Absent \notin DiskFile
  /\ Absent \notin [Chunk -> Data \cup {Empty}]

VARIABLES
  available_models,  \* the metadata of the model this node shares, or Absent
  pending_downloads, \* the DownloadState of the model, or Absent
  partial,           \* the file behind partial/<id>.partial, or Absent
  final,             \* the file behind <filename>.gguf, or Absent
  disk,              \* what each file holds, chunk by chunk
  callAt,            \* where each call is
  callMetadata,      \* the metadata it was made for, Absent between calls
  overlapped         \* history: start_download wrote while another call ran

distVars == <<available_models, pending_downloads, partial, final, disk, callAt, callMetadata,
              overlapped>>

callVars == <<callAt, callMetadata>>

Metadata == [Chunk -> Data]
Contents == [Chunk -> Data \cup {Empty}]
Blank == [c \in Chunk |-> Empty]
Begun == {"checkPending", "create", "insert"}
Ending == {"verify", "rename", "publish"}

DistTypeOK ==
  /\ available_models \in Contents \cup {Absent}
  /\ pending_downloads \in [metadata: Metadata, received_chunks: SUBSET Chunk] \cup {Absent}
  /\ partial \in DiskFile \cup {Absent} /\ final \in DiskFile \cup {Absent}
  /\ disk \in [DiskFile -> Contents]
  /\ callAt \in [Caller -> {"idle"} \cup Begun \cup Ending]
  /\ callMetadata \in [Caller -> Metadata \cup {Absent}]
  /\ overlapped \in BOOLEAN

DistInit ==
  /\ available_models = Absent /\ pending_downloads = Absent
  /\ partial = Absent /\ final = Absent
  /\ disk = [f \in DiskFile |-> Blank]
  /\ callAt = [t \in Caller |-> "idle"] /\ callMetadata = [t \in Caller |-> Absent]
  /\ overlapped = FALSE

has_model == available_models # Absent
is_complete(state) == state.received_chunks = Chunk
BeginCall(t, at, metadata) ==
  callAt' = [callAt EXCEPT ![t] = at] /\ callMetadata' = [callMetadata EXCEPT ![t] = metadata]
CallMovesTo(t, at) == callAt' = [callAt EXCEPT ![t] = at] /\ UNCHANGED callMetadata
EndOfCall(t) == BeginCall(t, "idle", Absent)

\* start_download: the two checks, each under a read lock that is dropped.
StartDownload(t, metadata) ==
  /\ callAt[t] = "idle" /\ ~has_model
  /\ BeginCall(t, "checkPending", metadata)
  /\ UNCHANGED <<available_models, pending_downloads, partial, final, disk, overlapped>>

CheckPending(t) ==
  /\ callAt[t] = "checkPending"
  /\ IF pending_downloads # Absent THEN EndOfCall(t) ELSE CallMovesTo(t, "create")
  /\ UNCHANGED <<available_models, pending_downloads, partial, final, disk, overlapped>>

\* Mutant: the download is written in place, under the final name.
CreateInPlace(t) ==
  /\ callAt[t] = "create"
  /\ \E f \in DiskFile :
       /\ partial = Absent => f # final
       /\ partial # Absent => f = partial
       /\ partial' = f /\ final' = f
       /\ disk' = [disk EXCEPT ![f] = Blank]
  /\ overlapped' = (overlapped \/ has_model \/ pending_downloads # Absent
                      \/ \E u \in Caller \ {t} : callAt[u] # "idle")
  /\ CallMovesTo(t, "insert")
  /\ UNCHANGED <<available_models, pending_downloads>>

\* File::create and set_len: the file the path names is emptied, or a new one made.
CreatePartial(t) ==
  /\ callAt[t] = "create"
  /\ \E f \in DiskFile :
       /\ IF partial = Absent THEN f # final ELSE f = partial
       /\ partial' = f
       /\ disk' = [disk EXCEPT ![f] = Blank]
  /\ overlapped' = (overlapped \/ has_model \/ pending_downloads # Absent
                      \/ \E u \in Caller \ {t} : callAt[u] # "idle")
  /\ CallMovesTo(t, "insert")
  /\ UNCHANGED <<available_models, pending_downloads, final>>

InsertDownload(t) ==
  /\ callAt[t] = "insert"
  /\ pending_downloads' = [metadata |-> callMetadata[t], received_chunks |-> {}]
  /\ EndOfCall(t)
  /\ UNCHANGED <<available_models, partial, final, disk, overlapped>>

verify_chunk(metadata, index, data) == metadata[index] = data
\* Mutant: the chunk is marked as received whatever it hashes to.
write_chunk_unverified(index, data) ==
  /\ pending_downloads # Absent /\ partial # Absent
  /\ disk' = IF verify_chunk(pending_downloads.metadata, index, data)
             THEN [disk EXCEPT ![partial][index] = data] ELSE disk
  /\ pending_downloads' = [pending_downloads EXCEPT !.received_chunks = @ \cup {index}]
  /\ UNCHANGED <<available_models, partial, final, callVars, overlapped>>

\* write_chunk holds the write lock from the look-up to mark_received.
write_chunk(index, data) ==
  /\ pending_downloads # Absent /\ partial # Absent
  /\ verify_chunk(pending_downloads.metadata, index, data)
  /\ disk' = [disk EXCEPT ![partial][index] = data]
  /\ pending_downloads' = [pending_downloads EXCEPT !.received_chunks = @ \cup {index}]
  /\ UNCHANGED <<available_models, partial, final, callVars, overlapped>>

\* complete_download takes the state out first: an early call loses it.
TakeDownload(t) ==
  /\ callAt[t] = "idle" /\ pending_downloads # Absent
  /\ pending_downloads' = Absent
  /\ IF is_complete(pending_downloads) THEN BeginCall(t, "verify", pending_downloads.metadata)
     ELSE UNCHANGED callVars
  /\ UNCHANGED <<available_models, partial, final, disk, overlapped>>

\* The file's hash; a wrong file is removed, an unreadable one left.
VerifyFile(t) ==
  /\ callAt[t] = "verify"
  /\ IF partial # Absent /\ disk[partial] = callMetadata[t]
     THEN CallMovesTo(t, "rename") /\ UNCHANGED partial
     ELSE EndOfCall(t) /\ partial' = Absent
  /\ UNCHANGED <<available_models, pending_downloads, final, disk, overlapped>>

RenamePartial(t) ==
  /\ callAt[t] = "rename"
  /\ IF partial = Absent THEN EndOfCall(t) /\ UNCHANGED <<partial, final>>
     ELSE CallMovesTo(t, "publish") /\ final' = partial /\ partial' = Absent
  /\ UNCHANGED <<available_models, pending_downloads, disk, overlapped>>

PublishModel(t) ==
  /\ callAt[t] = "publish"
  /\ available_models' = callMetadata[t]
  /\ EndOfCall(t)
  /\ UNCHANGED <<pending_downloads, partial, final, disk, overlapped>>

\* cancel_download keeps the lock while it removes the partial file.
cancel_download ==
  /\ pending_downloads # Absent
  /\ pending_downloads' = Absent /\ partial' = Absent
  /\ UNCHANGED <<available_models, final, disk, callVars, overlapped>>

\* scan_available_models indexes what is on disk: from_file takes the hashes
\* of whatever the file holds, so it cannot tell a damaged file.
from_file == IF final = Absent THEN Absent ELSE disk[final]
scan_available_models ==
  /\ available_models' = from_file
  /\ UNCHANGED <<pending_downloads, partial, final, disk, callVars, overlapped>>

\* The process dies: calls and pending downloads are gone, the files stay, and
\* the next process scans them.
Restart ==
  /\ pending_downloads' = Absent
  /\ callAt' = [t \in Caller |-> "idle"] /\ callMetadata' = [t \in Caller |-> Absent]
  /\ available_models' = from_file
  /\ UNCHANGED <<partial, final, disk, overlapped>>

CallStep(t) ==
  \/ \E metadata \in Metadata : StartDownload(t, metadata)
  \/ CheckPending(t) \/ CreatePartial(t) \/ InsertDownload(t)
  \/ TakeDownload(t) \/ VerifyFile(t) \/ RenamePartial(t) \/ PublishModel(t)

DistributionNext ==
  \/ \E t \in Caller : CallStep(t)
  \/ \E c \in Chunk, d \in Data : write_chunk(c, d)
  \/ cancel_download \/ scan_available_models \/ Restart

DistributionSpec == DistInit /\ [][DistributionNext]_distVars

-----------------------------------------------------------------------------
\* A chunk marked as received is in the partial file with the data its hash
\* promises, and a model offered to peers is on disk with exactly the contents
\* its metadata names -- through cancellations, early completions, restarts and
\* rescans, as long as no start_download created its file while another call
\* for the model was under way (the checks do not exclude that).
FilesMatchMetadata ==
  ~overlapped =>
    /\ pending_downloads # Absent =>
         /\ partial # Absent
         /\ \A c \in pending_downloads.received_chunks :
              disk[partial][c] = pending_downloads.metadata[c]
    /\ available_models # Absent => final # Absent /\ disk[final] = available_models

\* A model that reaches its final name is whole: no chunk of it is missing,
\* under the same condition.
InstalledIsWhole ==
  final # Absent /\ ~overlapped => \A c \in Chunk : disk[final][c] # Empty

\* What this node downloads and offers: the parts of the promise above.
FilesTrue == FilesMatchMetadata /\ InstalledIsWhole
=============================================================================
