-------------------------- MODULE AtomicPersistence --------------------------
(***************************************************************************)
(* atomicWriteJson and atomicReadJson of shared/atomic-persistence.ts (and *)
(* atomicWrite of runtime-queue/persistence.ts, the same steps): a file is *)
(* replaced by writing a temporary file, copying the present file to a     *)
(* backup and renaming.  One action per system call, so that the process   *)
(* may die, or the call fail, between any two.  rename is atomic; a write  *)
(* or a copy that does not end leaves torn content, which does not parse.  *)
(***************************************************************************)
EXTENDS Naturals

CONSTANTS
    Values,    \* contents a caller may write
    None,      \* what a read returns when nothing can be read
    Missing,   \* no such file
    Torn       \* a file whose content does not parse

ASSUME ContentsAssumption ==
    /\ None \notin Values /\ Missing \notin Values /\ Torn \notin Values
    /\ Missing # Torn

VARIABLES
    primary, temp, backup,  \* filepath, filepath.tmp, filepath.backup
    pc,                     \* the next system call of the write in progress
    want,                   \* its data
    acked                   \* last data for which success was returned

vars == <<primary, temp, backup, pc, want, acked>>

Contents == Values \cup {Missing, Torn}

\* atomicReadJson: the primary, else the backup.
Visible ==
    IF primary \in Values THEN primary
    ELSE IF backup \in Values THEN backup
    ELSE None

-----------------------------------------------------------------------------
Init ==
    /\ primary = Missing /\ temp = Missing /\ backup = Missing
    /\ pc = "idle"
    /\ want \in Values
    /\ acked = None

\* Mutant: the data is written to the file itself.
OpenTemp_InPlace(v) ==
    /\ pc = "idle"
    /\ want' = v
    /\ primary' = Torn
    /\ temp' = Torn
    /\ pc' = "writeTemp"
    /\ UNCHANGED <<backup, acked>>

\* writeFileSync(tempPath): opened and truncated ...
OpenTemp(v) ==
    /\ pc = "idle"
    /\ want' = v
    /\ temp' = Torn
    /\ pc' = "writeTemp"
    /\ UNCHANGED <<primary, backup, acked>>

\* ... and written; the backup step is for a file that exists.
WriteTemp ==
    /\ pc = "writeTemp"
    /\ temp' = want
    /\ pc' = IF primary = Missing THEN "rename" ELSE "openBackup"
    /\ UNCHANGED <<primary, backup, want, acked>>

\* copyFileSync(filepath, backupPath)
OpenBackup ==
    /\ pc = "openBackup"
    /\ backup' = Torn
    /\ pc' = "writeBackup"
    /\ UNCHANGED <<primary, temp, want, acked>>

WriteBackup ==
    /\ pc = "writeBackup"
    /\ backup' = primary
    /\ pc' = "rename"
    /\ UNCHANGED <<primary, temp, want, acked>>

\* Mutant: success is reported with the content the file had before.
Rename_AcksOld ==
    /\ pc = "rename"
    /\ primary' = temp
    /\ temp' = Missing
    /\ acked' = primary
    /\ pc' = "idle"
    /\ UNCHANGED <<backup, want>>

\* renameSync(tempPath, filepath) and the successful return
Rename ==
    /\ pc = "rename"
    /\ primary' = temp
    /\ temp' = Missing
    /\ acked' = want
    /\ pc' = "idle"
    /\ UNCHANGED <<backup, want>>

\* Mutant: the clean-up removes the file it failed to replace.
CallFails_RemovesPrimary ==
    /\ pc # "idle"
    /\ primary' = Missing
    /\ temp' = Missing
    /\ pc' = "idle"
    /\ UNCHANGED <<backup, want, acked>>

\* A system call fails: the temporary file is removed, if that succeeds, and
\* the caller is told.
CallFails ==
    /\ pc # "idle"
    /\ temp' \in {Missing, temp}
    /\ pc' = "idle"
    /\ UNCHANGED <<primary, backup, want, acked>>

\* The process dies in the middle of a write and a new one starts.
Crash ==
    /\ pc # "idle"
    /\ pc' = "idle"
    /\ UNCHANGED <<primary, temp, backup, want, acked>>

Next ==
    \/ \E v \in Values : OpenTemp(v)
    \/ WriteTemp
    \/ OpenBackup
    \/ WriteBackup
    \/ Rename
    \/ CallFails
    \/ Crash

Spec == Init /\ [][Next]_vars

-----------------------------------------------------------------------------
(* Properties *)

\* Types.
TypeOK ==
    /\ primary \in Contents /\ temp \in Contents /\ backup \in Contents
    /\ pc \in {"idle", "writeTemp", "openBackup", "writeBackup", "rename"}
    /\ want \in Values
    /\ acked \in Values \cup {None}

Register == INSTANCE AtomicRegister WITH value <- Visible

\* Read and write of a file behave as one atomic register, over crashes and
\* failing calls at every step of a write.
ImplementsRegister == Register!Spec

\* Whatever step a write is in, what was last reported written is what is read:
\* no acknowledged write is lost and no unacknowledged one shows.
AckedIsRead == Visible = acked
=============================================================================
