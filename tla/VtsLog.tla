------------------------------- MODULE VtsLog -------------------------------
(***************************************************************************)
(* log_write.c: vts_log_write, through which the coordinates thread writes *)
(* lines and rotates the log, and log_write_req_result, through which the  *)
(* workers write results to a handle of their own on the same path.  A     *)
(* file is a number; logs/vts.log, .1 and .2 are names for files, and a    *)
(* rename leaves open handles with the file they have.  Sizes are counted  *)
(* in lines.                                                               *)
(***************************************************************************)
EXTENDS Integers, Sequences

CONSTANTS
  MAXB,    \* vts_log_set_maxbytes
  Left,    \* how many of the three files an earlier daemon left
  MaxReq   \* bound: calls of log_write_req_result

ASSUME LogAssumption == MAXB \in Nat /\ Left \in 0 .. 3 /\ MaxReq \in Nat

VARIABLES
  name,    \* the files LOG0, LOG1 and LOG2 stand for, or NoFile
  file,    \* each file: its lines, and the rotation it was made after
  fp, g_logf,      \* the two handles
  lpc,     \* control point in vts_log_write, or "crash"
  rot,     \* rotations begun
  said,    \* history: the lines written by vts_log_write
  results, \* history: the calls of log_write_req_result,
  muted    \* and those of them, the first ones, that found no log to write to

lvars == <<name, file, fp, g_logf, lpc, rot, said, results, muted>>

NoFile == 0
LOG0 == 0
LOG1 == 1
LOG2 == 2

\* The files of an earlier daemon, which rotated Left - 1 times, each with a line.
LogInit ==
  /\ file = [f \in 1 .. Left |-> [made |-> f - Left, text |-> <<<<"line", f - Left>>>>]]
  /\ name = [k \in {LOG0, LOG1, LOG2} |-> IF k < Left THEN Left - k ELSE NoFile]
  /\ said = [f \in 1 .. Left |-> [line |-> f - Left, at |-> f - Left]]
  /\ fp = NoFile /\ g_logf = NoFile
  /\ lpc = "idle"
  /\ rot = 0 /\ results = 0 /\ muted = 0

\* ensure_open and ensure_log_open: the handle's file, else fopen(LOG0, "a"):
\* the file of that name, made if there is none.  It may fail, and then the
\* handle stays NULL.
Target(h) ==
  IF h # NoFile THEN h ELSE IF name[LOG0] # NoFile THEN name[LOG0] ELSE Len(file) + 1
Files(h) ==
  IF Target(h) \in DOMAIN file THEN file ELSE Append(file, [made |-> rot, text |-> <<>>])
Names(h) == IF h # NoFile THEN name ELSE [name EXCEPT ![LOG0] = Target(h)]

\* fprintf and the flush at the end of the line.
WriteTo(h, entry) ==
  /\ file' = [Files(h) EXCEPT ![Target(h)].text = Append(@, entry)]
  /\ name' = Names(h)

\* vts_log_write up to fflush; the caller hands over the line.
LogLine(k) ==
  /\ lpc = "idle"
  /\ fp' = Target(fp)
  /\ WriteTo(fp, <<"line", k>>)
  /\ said' = Append(said, [line |-> k, at |-> rot])
  /\ lpc' = "stat"
  /\ UNCHANGED <<g_logf, rot, results, muted>>

\* ensure_open failed: vfprintf is given NULL, which ends the process.
LogCrash ==
  /\ lpc = "idle"
  /\ fp = NoFile
  /\ lpc' = "crash"
  /\ UNCHANGED <<name, file, fp, g_logf, rot, said, results, muted>>

\* Faulty: LOG1 is not moved on.
Older_Stays == <<LOG0, LOG1>>

\* The first of rotate's renames.
Older == <<LOG1, LOG2>>

\* rename: nothing happens if there is no file of the first name.
Rename(from, to) ==
  name' = IF name[from] = NoFile THEN name
          ELSE [name EXCEPT ![to] = name[from], ![from] = NoFile]

\* fstat; above MAXB the handle is closed and rotate begins.
LogStat ==
  /\ lpc = "stat"
  /\ IF Len(file[fp].text) > MAXB
     THEN lpc' = "rename" /\ fp' = NoFile /\ rot' = rot + 1 /\ Rename(Older[1], Older[2])
     ELSE lpc' = "idle" /\ UNCHANGED <<fp, rot, name>>
  /\ UNCHANGED <<file, g_logf, said, results, muted>>

LogRename ==
  /\ lpc = "rename"
  /\ Rename(LOG0, LOG1)
  /\ lpc' = "reopen"
  /\ UNCHANGED <<file, fp, g_logf, rot, said, results, muted>>

\* The second ensure_open; if it fails, the next call tries again.
LogReopen ==
  /\ lpc = "reopen"
  /\ \/ fp' = Target(fp) /\ file' = Files(fp) /\ name' = Names(fp)
     \/ UNCHANGED <<fp, file, name>>
  /\ lpc' = "idle"
  /\ UNCHANGED <<g_logf, rot, said, results, muted>>

\* Faulty: the file the name stands for now is written to.
log_write_req_result_Named ==
  /\ results < MaxReq
  /\ results' = results + 1
  /\ g_logf' = Target(NoFile)
  /\ WriteTo(NoFile, <<"result", results + 1>>)
  /\ UNCHANGED <<fp, lpc, rot, said, muted>>

\* log_write_req_result, under g_log_lock: the handle is opened once; as long
\* as that fails, nothing is written.
log_write_req_result ==
  /\ results < MaxReq
  /\ results' = results + 1
  /\ \/ g_logf' = Target(g_logf) /\ WriteTo(g_logf, <<"result", results + 1>>) /\ UNCHANGED muted
     \/ g_logf = NoFile /\ muted' = results + 1 /\ UNCHANGED <<g_logf, file, name>>
  /\ UNCHANGED <<fp, lpc, rot, said>>

Rotation == LogStat \/ LogRename \/ LogReopen

-----------------------------------------------------------------------------
\* What a reader of the files finds, oldest first.
Text(k) == IF name[k] = NoFile THEN <<>> ELSE file[name[k]].text
Found == Text(LOG2) \o Text(LOG1) \o Text(LOG0)
LinePlaces == {p \in DOMAIN Found : Found[p][1] = "line"}

(* README, NFR5: "support rotation (log -> log1 -> log2)": the three files, *)
(* read from the oldest, have all the lines written since the file that was *)
(* current two rotations ago was made, each once and in the order in which  *)
(* they were pushed, at any moment between the renames and whoever made the *)
(* current file.                                                            *)
LinesFound ==
  /\ \A o, p \in LinePlaces : o < p => Found[o][2] < Found[p][2]
  /\ {Found[p][2] : p \in LinePlaces}
       = {said[i].line : i \in {j \in DOMAIN said : said[j].at >= rot - 2}}

ResultPlaces(f) == {i \in DOMAIN file[f].text : file[f].text[i][1] = "result"}

(* README, FR7: "must generate logs for client actions".  The handle of     *)
(* log_write_req_result stays with the file it was first opened on: all     *)
(* results since then are there, each once and in order, and in no other    *)
(* file.  That file is called vts.log up to the next rotation, then .1,     *)
(* then .2, and then nothing: a result written after it was rotated never   *)
(* gets into vts.log, where check_log_rotation.sh looks for it.             *)
ResultsPlaced ==
  /\ \A f \in DOMAIN file :
       /\ {file[f].text[i][2] : i \in ResultPlaces(f)}
            = IF f = g_logf THEN muted + 1 .. results ELSE {}
       /\ \A i, j \in ResultPlaces(f) : i < j => file[f].text[i][2] < file[f].text[j][2]
  /\ g_logf # NoFile /\ lpc # "rename" =>
       \A k \in DOMAIN name : name[k] = g_logf <=> k = rot - file[g_logf].made

=============================================================================
