----------------------- MODULE AtomicPersistenceProofs -----------------------
(***************************************************************************)
(* A file written by atomicWriteJson and read by atomicReadJson is an      *)
(* atomic register, for any set of contents and any number of failures.    *)
(***************************************************************************)
EXTENDS AtomicPersistence, TLAPS

\* The primary is never torn: only rename writes it, and what it renames is
\* a temporary file that was written to its end.
PrimaryInv ==
    /\ primary \in Values \cup {Missing}
    /\ primary = Missing => backup = Missing /\ acked = None
    /\ primary \in Values => acked = primary

\* What each point of a write has established.
PcInv ==
    /\ pc \in {"openBackup", "writeBackup", "rename"} => temp = want
    /\ pc \in {"openBackup", "writeBackup"} => primary \in Values

IInv == TypeOK /\ PrimaryInv /\ PcInv

\* The inductive invariant holds: by the initial state, and one step per
\* system call.
THEOREM Invariance == Spec => []IInv
<1> USE ContentsAssumption
<1> USE DEF IInv, TypeOK, PrimaryInv, PcInv, Contents
<1>1. Init => IInv
  BY DEF Init
<1>2. IInv /\ [Next]_vars => IInv'
  <2> SUFFICES ASSUME IInv, [Next]_vars PROVE IInv'
    OBVIOUS
  <2>1. ASSUME NEW v \in Values, OpenTemp(v) PROVE IInv'
    BY <2>1 DEF OpenTemp
  <2>2. CASE WriteTemp
    BY <2>2 DEF WriteTemp
  <2>3. CASE OpenBackup
    BY <2>3 DEF OpenBackup
  <2>4. CASE WriteBackup
    BY <2>4 DEF WriteBackup
  <2>5. CASE Rename
    BY <2>5 DEF Rename
  <2>6. CASE CallFails
    BY <2>6 DEF CallFails
  <2>7. CASE Crash
    BY <2>7 DEF Crash
  <2>8. CASE UNCHANGED vars
    BY <2>8 DEF vars
  <2> QED
    BY <2>1, <2>2, <2>3, <2>4, <2>5, <2>6, <2>7, <2>8 DEF Next
<1> QED
  BY <1>1, <1>2, PTL DEF Spec

\* Types, for every set of contents.
THEOREM TypeCorrect == Spec => []TypeOK
<1>1. IInv => TypeOK
  BY DEF IInv
<1> QED
  BY <1>1, Invariance, PTL

\* An untorn primary decides what is read.
LEMMA VisibleIsAcked == ASSUME IInv PROVE Visible = acked
BY ContentsAssumption DEF IInv, TypeOK, PrimaryInv, Visible, Contents

\* At every step of a write, a failure or a crash, a read returns the last
\* acknowledged data.
THEOREM AcknowledgedIsRead == Spec => []AckedIsRead
<1>1. IInv => AckedIsRead
  BY VisibleIsAcked DEF AckedIsRead
<1> QED
  BY <1>1, Invariance, PTL

\* The file protocol implements the atomic register: rename is the write, and
\* every other system call, failure and crash is a stuttering step.
THEOREM RegisterImplemented == Spec => ImplementsRegister
<1>1. Init => Register!Init
  BY ContentsAssumption DEF Init, Register!Init, Visible
<1>2. ASSUME IInv, IInv', [Next]_vars
      PROVE  [Register!Next]_(Register!vars)
  <2>1. Visible = acked /\ Visible' = acked'
    <3>1. Visible = acked
      BY <1>2, VisibleIsAcked
    <3>2. Visible' = acked'
      BY <1>2, ContentsAssumption DEF IInv, TypeOK, PrimaryInv, Visible, Contents
    <3> QED
      BY <3>1, <3>2
  <2>2. CASE Rename
    <3>1. want \in Values /\ acked' = want
      BY <1>2, <2>2 DEF IInv, TypeOK, Rename
    <3>2. Register!Write(want)
      BY <2>1, <3>1 DEF Register!Write
    <3> QED
      BY <3>1, <3>2 DEF Register!Next
  <2>3. CASE ~Rename
    <3>1. acked' = acked
      BY <1>2, <2>3 DEF Next, OpenTemp, WriteTemp, OpenBackup, WriteBackup,
                        CallFails, Crash, vars
    <3> QED
      BY <2>1, <3>1 DEF Register!vars
  <2> QED
    BY <2>2, <2>3
<1> QED
  BY <1>1, <1>2, Invariance, PTL DEF Spec, ImplementsRegister, Register!Spec
=============================================================================
