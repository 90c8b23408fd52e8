---------------------------- MODULE WaitQueueProofs ----------------------------
(***************************************************************************)
(* Proofs about WaitQueue for every set of readers and every number of     *)
(* reads: counted events are backed by reads, and the thread stops only on *)
(* the exit's word.                                                        *)
(***************************************************************************)
EXTENDS WaitQueue, TLAPS

(* The thread is past the wait only with something in the flag; the value  *)
(* 2 comes only from the exit, which no reader overlaps.                   *)
FlagSeen == wpc = "test" => wait_queue_flag # 0
ExitAlone ==
    /\ wait_queue_flag = 2 => xpc # "loaded"
    /\ xpc # "loaded" => \A r \in Readers : rpc[r] = "out"
    /\ wpc = "stopped" => xpc # "loaded"

Types ==
    /\ wait_queue_flag \in 0..2
    /\ read_count \in Nat
    /\ wpc \in {"enqueue", "check", "schedule", "test", "count", "clear", "stopped"}
    /\ woken \in BOOLEAN
    /\ rpc \in [Readers -> {"out", "wake"}]
    /\ reads \in 0..MaxReads
    /\ xpc \in {"loaded", "wake", "unloaded"}

WqInv == Types /\ FlagSeen /\ ExitAlone /\ CountsBacked

LEMMA WqInit == Init => WqInv
<1> SUFFICES ASSUME Init PROVE WqInv
  OBVIOUS
<1>1. Types
  <2>1. reads \in 0..MaxReads
    BY WaitQueueAssumption DEF Init, WaitQueueAssumption
  <2>2. rpc \in [Readers -> {"out", "wake"}]
    BY DEF Init
  <2>3. woken \in BOOLEAN
    BY Zenon DEF Init
  <2>4. /\ wait_queue_flag \in 0..2
        /\ read_count \in Nat
        /\ wpc \in {"enqueue", "check", "schedule", "test", "count", "clear", "stopped"}
        /\ xpc \in {"loaded", "wake", "unloaded"}
    BY DEF Init
  <2> QED BY <2>1, <2>2, <2>3, <2>4 DEF Types
<1>2. FlagSeen /\ ExitAlone
  BY DEF Init, FlagSeen, ExitAlone
<1>3. CountsBacked
  BY DEF Init, CountsBacked
<1> QED BY <1>1, <1>2, <1>3 DEF WqInv

LEMMA WqStep == WqInv /\ [Next]_vars => WqInv'
<1> SUFFICES ASSUME WqInv, [Next]_vars PROVE WqInv'
  OBVIOUS
<1> USE DEF WqInv
<1>1. CASE Thread
  <2>1. CASE ThreadEnqueues
    BY <2>1 DEF ThreadEnqueues, Types, FlagSeen, ExitAlone, CountsBacked
  <2>2. CASE ThreadChecks
    BY <2>2 DEF ThreadChecks, Types, FlagSeen, ExitAlone, CountsBacked
  <2>3. CASE ThreadResumes
    BY <2>3 DEF ThreadResumes, Types, FlagSeen, ExitAlone, CountsBacked
  <2>4. CASE ThreadTests
    BY <2>4 DEF ThreadTests, Types, FlagSeen, ExitAlone, CountsBacked
  <2>5. CASE ThreadCounts
    BY <2>5 DEF ThreadCounts, Types, FlagSeen, ExitAlone, CountsBacked
  <2>6. CASE ThreadClears
    BY <2>6 DEF ThreadClears, Types, FlagSeen, ExitAlone, CountsBacked
  <2> QED BY <1>1, <2>1, <2>2, <2>3, <2>4, <2>5, <2>6 DEF Thread
<1>2. ASSUME NEW r \in Readers, ReadSets(r) PROVE WqInv'
  <2>1. Types'
    BY <1>2, WaitQueueAssumption DEF ReadSets, Types, WaitQueueAssumption
  <2>2. FlagSeen' /\ ExitAlone'
    BY <1>2 DEF ReadSets, FlagSeen, ExitAlone
  <2>3. CountsBacked'
    BY <1>2 DEF ReadSets, Types, CountsBacked
  <2> QED BY <2>1, <2>2, <2>3
<1>3. ASSUME NEW r \in Readers, ReadWakes(r) PROVE WqInv'
  <2>1. Types'
    BY <1>3 DEF ReadWakes, WakeUp, Types
  <2>2. FlagSeen' /\ ExitAlone' /\ CountsBacked'
    BY <1>3 DEF ReadWakes, Types, FlagSeen, ExitAlone, CountsBacked
  <2> QED BY <2>1, <2>2
<1>4. CASE ExitSets
  BY <1>4 DEF ExitSets, Types, FlagSeen, ExitAlone, CountsBacked
<1>5. CASE ExitWakes
  <2>1. Types'
    BY <1>5 DEF ExitWakes, WakeUp, Types
  <2>2. FlagSeen' /\ ExitAlone' /\ CountsBacked'
    BY <1>5 DEF ExitWakes, Types, FlagSeen, ExitAlone, CountsBacked
  <2> QED BY <2>1, <2>2
<1>6. CASE UNCHANGED vars
  BY <1>6 DEF vars, Types, FlagSeen, ExitAlone, CountsBacked
<1> QED BY <1>1, <1>2, <1>3, <1>4, <1>5, <1>6 DEF Next

LEMMA WqInvariant == Spec => []WqInv
BY WqInit, WqStep, PTL DEF Spec

(* Every counted event is backed by a read of its own (++read_count in     *)
(* wait_function), however reads, thread and exit interleave.              *)
THEOREM CountsAreBacked == Spec => []CountsBacked
<1>1. WqInv => CountsBacked
  BY DEF WqInv
<1> QED BY <1>1, WqInvariant, PTL

(* WaitThread returns only after etx_driver_exit has spoken and with no    *)
(* reader inside etx_read.                                                 *)
THEOREM StopIsExit == Spec => []StopsOnlyOnExit
<1>1. WqInv => StopsOnlyOnExit
  BY DEF WqInv, ExitAlone, StopsOnlyOnExit
<1> QED BY <1>1, WqInvariant, PTL

(* Both: the thread does nothing that nobody asked for.                    *)
THEOREM NothingIsInvented == Spec => []NothingInvented
<1>1. CountsBacked /\ StopsOnlyOnExit <=> NothingInvented
  BY DEF NothingInvented
<1> QED BY <1>1, CountsAreBacked, StopIsExit, PTL

(* Type invariant; the bound on read_count follows from the counts.        *)
THEOREM WaitQueueType == Spec => []TypeOK
<1>1. WqInv => TypeOK
  BY WaitQueueAssumption DEF WqInv, Types, CountsBacked, TypeOK, WaitQueueAssumption
<1> QED BY <1>1, WqInvariant, PTL

-------------------------------------------------------------------------------
(* Implementation of the mailbox.  Each action of the driver is one of the *)
(* mailbox or a stutter; that the thread takes a full slot only needs      *)
(* FlagSeen.                                                               *)
LEMMA MailboxStep == WqInv /\ [Next]_vars => [mailbox!MailNext]_mailbox!mailVars
<1> SUFFICES ASSUME WqInv, [Next]_vars PROVE mailbox!MailNext \/ UNCHANGED mailbox!mailVars
  OBVIOUS
<1> USE DEF WqInv, mailbox!mailVars
<1>1. CASE Thread
  <2>1. CASE ThreadEnqueues
    BY <2>1 DEF ThreadEnqueues
  <2>2. CASE ThreadChecks
    BY <2>2 DEF ThreadChecks
  <2>3. CASE ThreadResumes
    BY <2>3 DEF ThreadResumes
  <2>4. CASE ThreadTests
    <3>1. mailbox!Take \/ UNCHANGED mailbox!mailVars
      BY <2>4 DEF ThreadTests, FlagSeen, mailbox!Take
    <3> QED BY <3>1 DEF mailbox!MailNext
  <2>5. CASE ThreadCounts
    BY <2>5 DEF ThreadCounts
  <2>6. CASE ThreadClears
    <3>1. mailbox!Finish
      BY <2>6 DEF ThreadClears, mailbox!Finish
    <3> QED BY <3>1 DEF mailbox!MailNext
  <2> QED BY <1>1, <2>1, <2>2, <2>3, <2>4, <2>5, <2>6 DEF Thread
<1>2. ASSUME NEW r \in Readers, ReadSets(r) PROVE mailbox!MailNext
  <2>1. mailbox!Post
    BY <1>2 DEF ReadSets, mailbox!Post
  <2> QED BY <2>1 DEF mailbox!MailNext
<1>3. ASSUME NEW r \in Readers, ReadWakes(r) PROVE UNCHANGED mailbox!mailVars
  BY <1>3 DEF ReadWakes
<1>4. CASE ExitSets
  <2>1. mailbox!Post
    BY <1>4 DEF ExitSets, mailbox!Post
  <2> QED BY <2>1 DEF mailbox!MailNext
<1>5. CASE ExitWakes
  BY <1>5 DEF ExitWakes
<1>6. CASE UNCHANGED vars
  BY <1>6 DEF vars
<1> QED BY <1>1, <1>2, <1>3, <1>4, <1>5, <1>6 DEF Next

(* The flag, written without a lock by readers, exit and thread, is a      *)
(* mailbox with one slot.                                                  *)
THEOREM FlagIsMailbox == Spec => MailboxKept
<1>1. Init => mailbox!MailInit
  BY DEF Init, mailbox!MailInit
<1> QED BY <1>1, MailboxStep, WqInvariant, PTL DEF Spec, MailboxKept, mailbox!MailSpec
===============================================================================
