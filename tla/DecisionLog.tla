---------------------------- MODULE DecisionLog ----------------------------
(***************************************************************************)
(* The sidecar's log of decisions: lines appended to a file that is moved  *)
(* away when it is full, file.1 to file.2 and so on, the oldest deleted.   *)
(* Every call to the file system may fail, and none of the failures is     *)
(* reported: the line is lost, the files stay where they are, or the log   *)
(* is closed for good.                                                     *)
(***************************************************************************)
EXTENDS Integers, Sequences, SequencesExt

CONSTANTS
    MaxSize,      \* maxSizeBytes, in lines
    MaxFiles,     \* rotated files to keep
    MaxDecisions  \* bound: decisions

ASSUME DecisionLogAssumption ==
    MaxSize \in Nat \ {0} /\ MaxFiles \in Nat \ {0} /\ MaxDecisions \in Nat

VARIABLES
    files,      \* suffix 0..MaxFiles -> its lines; a missing file has none
    fdOpen,     \* the log has a file descriptor
    decisions,  \* how many decisions there were; a line is its number
    unwritten   \* history: those that were not written

logVars == <<files, fdOpen, decisions, unwritten>>

\* variant: a rotation that fails starts the file anew
EmptiedWhenStuck(moved, stuck) ==
    [i \in 0..MaxFiles |-> IF i = 0 /\ stuck THEN <<>> ELSE moved[i]]

KeptWhenStuck(moved, stuck) == moved

\* rotate, when its loop throws at the move to suffix failsAt (0: it does not,
\* MaxFiles + 1: the oldest file cannot be deleted): later moves are not made.
Rotated(current, failsAt) ==
    KeptWhenStuck([i \in 0..MaxFiles |-> IF i > failsAt THEN current[i - 1]
                                        ELSE IF i = failsAt THEN <<>>
                                        ELSE current[i]],
                  failsAt > 0)

MayFailAt(current, failsAt) ==
    /\ failsAt \in 1..MaxFiles => current[failsAt - 1] # <<>>
    /\ failsAt = MaxFiles + 1 => current[MaxFiles] # <<>>

\* write: without a descriptor nothing is written, and the call may fail
WriteFails ==
    /\ decisions' = decisions + 1
    /\ unwritten' = unwritten \cup {decisions'}
    /\ UNCHANGED <<files, fdOpen>>

Appended == [files EXCEPT ![0] = Append(@, decisions + 1)]

Write ==
    /\ fdOpen
    /\ decisions' = decisions + 1
    /\ Len(Appended[0]) < MaxSize
    /\ files' = Appended
    /\ UNCHANGED <<fdOpen, unwritten>>

\* open: for appending, whatever is in the file, or not at all
Opens == fdOpen' \in BOOLEAN

\* The file is full: close, rotate, and open again, which may fail as well.
WriteAndRotate(failsAt) ==
    /\ fdOpen
    /\ decisions' = decisions + 1
    /\ Len(Appended[0]) >= MaxSize
    /\ MayFailAt(Appended, failsAt)
    /\ files' = Rotated(Appended, failsAt)
    /\ Opens
    /\ UNCHANGED unwritten

LogDecision ==
    /\ decisions < MaxDecisions
    /\ \/ Write \/ WriteFails
       \/ \E failsAt \in 0..(MaxFiles + 1) : WriteAndRotate(failsAt)

\* The sidecar starts anew on the files as they are; a crash in a rotation leaves
\* what a rotation that throws leaves.
LogRestarts ==
    /\ Opens
    /\ UNCHANGED <<files, decisions, unwritten>>

LogInit ==
    /\ files = [i \in 0..MaxFiles |-> <<>>]
    /\ fdOpen \in BOOLEAN
    /\ decisions = 0 /\ unwritten = {}

-----------------------------------------------------------------------------
(* Properties *)

\* Read from the oldest file, which has the highest suffix, to the current one the
\* lines ascend, and of what came after a line only what is missing is not there.
Contiguous(lines, last, missing) ==
    \A i \in DOMAIN lines : \A k \in DOMAIN lines[i] :
        /\ \A j \in DOMAIN lines : \A m \in DOMAIN lines[j] :
              (i > j \/ (i = j /\ k < m)) => lines[i][k] < lines[j][m]
        /\ \A n \in lines[i][k]..last :
              n \in missing \/ \E j \in DOMAIN lines : n \in Range(lines[j])

\* Whatever moves fail halfway and however often the sidecar is restarted: read
\* from the oldest file to the current one the log is in order, nothing is in it
\* twice, and what is missing after its first line could not be written.
LogIsContiguous == Contiguous(files, decisions, unwritten)
=============================================================================
