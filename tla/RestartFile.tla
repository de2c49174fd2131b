----------------------------- MODULE RestartFile -----------------------------
(***************************************************************************)
(* The restart file (OutputManager, RestartWriter): records are appended   *)
(* to a buffered stream and flushed; a run that starts with -read_restart  *)
(* reads a file, opens the file it writes (which truncates it) and writes  *)
(* what it read again before it goes on.  A crash takes what is in memory  *)
(* and an arbitrary tail of what is not flushed, perhaps in the middle of  *)
(* a record.                                                               *)
(***************************************************************************)
EXTENDS Integers, FiniteSets, Sequences

CONSTANT
  MaxCrashes    \* bound: runs that end early

ASSUME RestartAssumption == MaxCrashes \in Nat

VARIABLES
  sameName,   \* the file that is read is also the one that is written
  disk,       \* the two files: header, complete records, a torn record
  current,    \* the file the next run reads
  writing,    \* the file the writer of this run has open
  stream,     \* what was written to the writer since the last flush
  cache,      \* data_pairs: the records this run knows
  phase,      \* of the program: down, read (restart file), open, run
  crashes,
  flushed,    \* history: every record a flush has completed
  overwritten \* history: a crash came between truncation and flush

restartVars ==
  <<sameName, disk, current, writing, stream, cache, phase, crashes, flushed,
    overwritten>>

Files == {1, 2}
Empty == [header |-> FALSE, recs |-> <<>>, torn |-> FALSE]
Records(f) == {disk[f].recs[i] : i \in DOMAIN disk[f].recs}

(* The first run reads nothing.                                            *)
RestartInit ==
  /\ sameName \in BOOLEAN
  /\ disk = [f \in Files |-> Empty]
  /\ current = 1 /\ writing = 1
  /\ stream = <<>> /\ cache = {}
  /\ phase = "down"
  /\ crashes = 0 /\ flushed = {} /\ overwritten = FALSE

------------------------------------------------------------------------------
WriteName == IF sameName THEN current ELSE 3 - current

(* The read loop of read_write_restart.  A torn record raises an exception *)
(* and the run aborts, unless -stop_restart ends the read before it; the   *)
(* count 0 means no -stop_restart.  A file without a header cannot be read *)
(* at all.  The user then starts without it: it holds nothing.             *)
Readable(f) == f.header /\ (f.torn => f.recs # <<>>)
MayStart == phase = "down" /\ crashes <= MaxCrashes
ReadRestart ==
  /\ MayStart /\ Readable(disk[current])
  /\ phase' = "read" /\ cache' = Records(current)
  /\ UNCHANGED <<sameName, disk, current, writing, stream, crashes, flushed,
                 overwritten>>
ReadAborts ==
  /\ MayStart /\ disk[current].torn
  /\ crashes' = crashes + 1
  /\ UNCHANGED <<sameName, disk, current, writing, stream, cache, phase,
                 flushed, overwritten>>
NoRestart ==
  /\ MayStart /\ ~Readable(disk[current])
  /\ phase' = "read" /\ cache' = {}
  /\ UNCHANGED <<sameName, disk, current, writing, stream, crashes, flushed,
                 overwritten>>

(* The RestartWriter opens its file, which truncates it; its header and    *)
(* the records that were read, in the order of their ids, go to the        *)
(* stream.  (Mutant: the records that were read are not written again.)    *)
AsSequenceNone(S) == <<>>

AsSequence(S) ==
  [i \in 1 .. Cardinality(S) |->
     CHOOSE r \in S : Cardinality({s \in S : s.id < r.id}) = i - 1]
OpenRestart ==
  /\ phase = "read"
  /\ writing' = WriteName
  /\ disk' = [disk EXCEPT ![WriteName] = Empty]
  /\ stream' = AsSequence(cache)
  /\ phase' = "open"
  /\ UNCHANGED <<sameName, current, cache, crashes, flushed, overwritten>>

(* The flush that ends read_write_restart; without records it is left out  *)
(* and the header stays in the stream.                                     *)
ToDisk(f, n) ==
  [header |-> TRUE, recs |-> f.recs \o SubSeq(stream, 1, n), torn |-> FALSE]
RestartOpened ==
  /\ phase = "open"
  /\ disk' = IF stream = <<>> THEN disk
             ELSE [disk EXCEPT ![writing] = ToDisk(@, Len(stream))]
  /\ stream' = <<>>
  /\ current' = writing
  /\ phase' = "run"
  /\ UNCHANGED <<sameName, writing, cache, crashes, flushed, overwritten>>

(* append_restart: the record goes to the stream, then the stream is       *)
(* flushed.                                                                *)
AppendRecord(r) ==
  /\ cache' = cache \cup {r}
  /\ stream' = Append(stream, r)
  /\ UNCHANGED <<sameName, disk, current, writing, phase, crashes, flushed,
                 overwritten>>
FlushRestart ==
  /\ phase = "run" /\ stream # <<>>
  /\ disk' = [disk EXCEPT ![writing] = ToDisk(@, Len(stream))]
  /\ flushed' = flushed \cup {stream[i] : i \in DOMAIN stream}
  /\ stream' = <<>>
  /\ UNCHANGED <<sameName, current, writing, cache, phase, crashes, overwritten>>

(* The process dies.  Any prefix of the stream may have reached the disk,  *)
(* and a part of the next record.                                          *)
Torn(f, n) == [ToDisk(f, n) EXCEPT !.torn = TRUE]
Dies ==
  /\ phase # "down" /\ crashes < MaxCrashes
  /\ phase' = "down" /\ cache' = {} /\ stream' = <<>>
  /\ crashes' = crashes + 1
  /\ overwritten' = (overwritten \/ (phase = "open" /\ writing = current))
  /\ IF stream = <<>>
       THEN UNCHANGED disk
       ELSE \E n \in 0 .. Len(stream), part \in BOOLEAN :
              /\ part => n < Len(stream)
              /\ disk' = [disk EXCEPT
                            ![writing] = IF part THEN Torn(@, n)
                                         ELSE IF n = 0 THEN @
                                         ELSE ToDisk(@, n)]
  /\ UNCHANGED <<sameName, current, writing, flushed>>

(* abort_handler exits: what was appended is complete on disk.             *)
Exits ==
  /\ phase' = "down" /\ cache' = {} /\ stream' = <<>>
  /\ crashes' = crashes + 1
  /\ disk' = IF stream = <<>> THEN disk
             ELSE [disk EXCEPT ![writing] = ToDisk(@, Len(stream))]
  /\ UNCHANGED <<sameName, current, writing, flushed, overwritten>>

------------------------------------------------------------------------------
(* Restarts can be chained: every record that a flush completed, in this   *)
(* run or in an earlier one, is in the readable part of the file the next  *)
(* run reads (or, while that file is written anew, in memory), whenever    *)
(* the runs in between were killed.  The one exception is a kill between   *)
(* the truncation of a file that is read and written and the flush after.  *)
KeepsRecords ==
  \/ overwritten
  \/ flushed \subseteq Records(current)
  \/ phase = "open" /\ writing = current /\ flushed \subseteq cache
=============================================================================
