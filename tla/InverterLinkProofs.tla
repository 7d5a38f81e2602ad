------------------------- MODULE InverterLinkProofs -------------------------
(* What holds of the link to the inverter for any number of ids and tries. *)
EXTENDS InverterLink, TLAPS

USE DEF Ids, Other, Age

\* The frame that is stored last has an id with a message.
TypeInv ==
    /\ LinkTypeOK
    /\ tpc = "bit" => frame.id \in Ids

LEMMA TypeInit == Init => TypeInv
<1> SUFFICES ASSUME Init PROVE TypeInv  OBVIOUS
<1> USE LinkAssumption DEF Init
<1>1. bitmap \in SUBSET Ids /\ messages \in [Ids -> Age]  OBVIOUS
<1>2. id \in Ids /\ tries \in 0..Retries  OBVIOUS
<1>3. frame \in [id : Ids \cup {Other}, data : Age]  OBVIOUS
<1> QED BY <1>1, <1>2, <1>3, Zenon DEF TypeInv, LinkTypeOK

LEMMA TypeThread == ASSUME TypeInv, Thread PROVE TypeInv'
<1> USE LinkAssumption DEF TypeInv, LinkTypeOK, At, session, mailbox, reader, history
<1>1. CASE TestClosed   BY <1>1 DEF TestClosed
<1>2. CASE TestOpen     BY <1>2 DEF TestOpen
<1>3. CASE Wake         BY <1>3 DEF Wake
<1>4. CASE ReadNothing  BY <1>4 DEF ReadNothing
<1>5. CASE ReadBegin    BY <1>5 DEF ReadBegin
<1>6. CASE ReadBlocks   BY <1>6 DEF ReadBlocks
<1>7. CASE Receive      BY <1>7 DEF Receive
<1>8. CASE ReceiveError BY <1>8 DEF ReceiveError
<1>9. CASE Ignore       BY <1>9 DEF Ignore
<1>10. CASE Store       BY <1>10 DEF Store
<1>11. CASE SetBit
  <2>1. bitmap' \in SUBSET Ids  BY <1>11 DEF SetBit
  <2> QED BY <1>11, <2>1 DEF SetBit
<1> QED BY <1>1, <1>2, <1>3, <1>4, <1>5, <1>6, <1>7, <1>8, <1>9, <1>10, <1>11
        DEF Thread

LEMMA TypeStart == ASSUME TypeInv, StartRead PROVE TypeInv'
<1> USE DEF TypeInv, LinkTypeOK, StartRead, Goto, session
<1>1. messages' \in [Ids -> Age]  BY DEF Aged
<1>2. frame' \in [id : Ids \cup {Other}, data : Age] /\ frame'.id = frame.id
  BY DEF Aged
<1> QED BY <1>1, <1>2

LEMMA NextIdType ==
  ASSUME TypeInv, NextId, mpc = "get"
  PROVE  mpc' \in {"get", "close"} /\ id' \in Ids /\ tries' \in 0..Retries /\ ok' \in BOOLEAN
<1>1. id \in Ids /\ tries \in 0..Retries /\ ok \in BOOLEAN  BY DEF TypeInv, LinkTypeOK
<1>2. CASE id < NWanted
  <2>1. mpc' = mpc /\ id' = id + 1 /\ tries' = Retries /\ ok' = ok
    BY <1>2 DEF NextId
  <2>2. id + 1 \in Ids /\ Retries \in 0..Retries
    BY <1>1, <1>2, LinkAssumption
  <2> QED BY <1>1, <2>1, <2>2
<1>3. CASE ~(id < NWanted)
  <2>1. mpc' = "close" /\ id' = id /\ tries' = tries /\ ok' = TRUE
    BY <1>3 DEF NextId
  <2> QED BY <1>1, <2>1
<1> QED BY <1>2, <1>3

LEMMA TypePass == ASSUME TypeInv, InPass PROVE TypeInv'
<1> USE LinkAssumption
    DEF TypeInv, LinkTypeOK, Goto, Return, session, mailbox, receiver, history
<1>1. CASE StartWrite \/ NoWrite BY <1>1 DEF StartWrite, NoWrite
<1>2. CASE OpenError             BY <1>2 DEF OpenError
<1>3. CASE OpenDescriptor        BY <1>3 DEF OpenDescriptor
<1>4. CASE MarkOpen              BY <1>4 DEF MarkOpen
<1>5. CASE GetMissing            BY <1>5 DEF GetMissing
<1>6. CASE GetValue
  <2>1. mpc = "get" /\ NextId /\ stale' \in BOOLEAN
        /\ UNCHANGED <<fd, open, bitmap, messages, tpc, frame, job, updated, noticed, muted>>
    BY <1>6, Zenon DEF GetValue
  <2> QED BY <2>1, NextIdType
<1>7. CASE GetFails
  <2>1. mpc' = "close" /\ ok' \in BOOLEAN
        /\ UNCHANGED <<fd, open, bitmap, messages, tpc, frame, job, id, tries, updated,
                       noticed, stale, muted>>
    BY <1>7, Zenon DEF GetFails
  <2> QED BY <2>1
<1>8. CASE GetFailsUnseen
  <2>1. mpc = "get" /\ NextId /\ stale' \in BOOLEAN
        /\ UNCHANGED <<fd, open, bitmap, messages, tpc, frame, job, updated, noticed, muted>>
    BY <1>8, Zenon DEF GetFailsUnseen
  <2> QED BY <2>1, NextIdType
<1>9. CASE Write                 BY <1>9 DEF Write
<1>10. CASE CloseDescriptor      BY <1>10 DEF CloseDescriptor
<1>11. CASE ClearOpen            BY <1>11 DEF ClearOpen
<1> QED BY <1>1, <1>2, <1>3, <1>4, <1>5, <1>6, <1>7, <1>8, <1>9, <1>10, <1>11
        DEF InPass

\* Every state of the link is well-typed, for any number of ids and tries.
THEOREM LinkTypeCorrect == Spec => [](TypeInv /\ LinkTypeOK)
<1>1. TypeInv /\ [Next]_vars => TypeInv'
  <2> SUFFICES ASSUME TypeInv, [Next]_vars PROVE TypeInv'  OBVIOUS
  <2>1. CASE UNCHANGED vars BY <2>1 DEF vars, TypeInv, LinkTypeOK
  <2> QED BY <2>1, TypeThread, TypeStart, TypePass DEF Next
<1>2. TypeInv => LinkTypeOK  BY DEF TypeInv
<1> QED BY <1>1, <1>2, TypeInit, PTL DEF Spec

-----------------------------------------------------------------------------

\* Where the session is open, and where it is not.
SessionInv ==
    /\ mpc \in {"idle", "packs", "open"} => ~fd /\ ~open
    /\ mpc \in {"get", "write", "close"} => open
    /\ mpc = "closed" => ~fd

LEMMA SessionStep == ASSUME LinkTypeOK, SessionInv, [Next]_vars PROVE SessionInv'
<1> USE DEF SessionInv, LinkTypeOK, Goto, Return
<1>1. CASE UNCHANGED vars  BY <1>1 DEF vars
<1>2. CASE Thread
  <2>1. UNCHANGED <<fd, open, mpc>>
    BY <1>2 DEF Thread, TestClosed, TestOpen, Wake, ReadNothing, ReadBegin,
                ReadBlocks, Receive, ReceiveError, Ignore, Store, SetBit,
                session, reader
  <2> QED BY <2>1
<1>3. CASE StartRead        BY <1>3 DEF StartRead, session
<1>4. CASE StartWrite \/ NoWrite
  BY <1>4 DEF StartWrite, NoWrite, session
<1>5. CASE OpenError        BY <1>5 DEF OpenError, session
<1>6. CASE OpenDescriptor   BY <1>6 DEF OpenDescriptor
<1>7. CASE MarkOpen         BY <1>7 DEF MarkOpen
<1>8. CASE GetMissing \/ GetValue \/ GetFails \/ GetFailsUnseen
  BY <1>8 DEF GetMissing, GetValue, GetFails, GetFailsUnseen, NextId, session
<1>9. CASE Write            BY <1>9 DEF Write, session
<1>10. CASE CloseDescriptor BY <1>10 DEF CloseDescriptor
<1>11. CASE ClearOpen       BY <1>11 DEF ClearOpen
<1> QED BY <1>1, <1>2, <1>3, <1>4, <1>5, <1>6, <1>7, <1>8, <1>9, <1>10, <1>11
        DEF Next, InPass

\* No pass leaves the inverter's session open, whichever call fails
\* (inverter_read, inverter_write, si_close).
THEOREM LinkClosed == Spec => []ClosedOutside
<1>1. Init => SessionInv  BY DEF Init, SessionInv
<1>2. SessionInv => ClosedOutside  BY DEF SessionInv, ClosedOutside
<1> QED BY <1>1, <1>2, SessionStep, LinkTypeCorrect, PTL DEF Spec

-----------------------------------------------------------------------------

\* A thread that has looked since the session was closed has left no bit and holds
\* no frame.  In a pass that began so, and unless can_read made up a frame, every bit
\* stands for a frame of this pass.
FreshInv ==
    /\ stale => muted
    /\ noticed /\ ~open => bitmap = {} /\ tpc \in {"test", "asleep"}
    /\ ~muted =>
         /\ \A i \in bitmap : messages[i] = "new"
         /\ tpc = "store" => frame.data = "new"
         /\ tpc = "bit" => messages[frame.id] = "new"

LEMMA FreshThread == ASSUME TypeInv, FreshInv, Thread PROVE FreshInv'
<1> USE DEF TypeInv, LinkTypeOK, FreshInv, At, session, mailbox, reader, history
<1>1. CASE TestClosed \/ ReadNothing   BY <1>1 DEF TestClosed, ReadNothing
<1>2. CASE TestOpen \/ Wake \/ ReadBegin \/ ReadBlocks
  <2>1. UNCHANGED <<bitmap, messages, frame, stale, muted>>
    BY <1>2 DEF TestOpen, Wake, ReadBegin, ReadBlocks
  <2>2. tpc' \notin {"store", "bit"} /\ UNCHANGED <<open, noticed>>
    BY <1>2 DEF TestOpen, Wake, ReadBegin, ReadBlocks
  <2>3. noticed /\ ~open => tpc' \in {"test", "asleep"}
    BY <1>2 DEF TestOpen, Wake, ReadBegin, ReadBlocks
  <2> QED BY <2>1, <2>2, <2>3
<1>3. CASE Receive      BY <1>3 DEF Receive
<1>4. CASE ReceiveError BY <1>4 DEF ReceiveError
<1>5. CASE Ignore       BY <1>5 DEF Ignore
<1>6. CASE Store
  <2>1. \A i \in Ids : messages'[i] = messages[i] \/ messages'[i] = frame.data
    BY <1>6 DEF Store
  <2>2. messages'[frame.id] = frame.data  BY <1>6 DEF Store
  <2> QED BY <1>6, <2>1, <2>2 DEF Store
<1>7. CASE SetBit       BY <1>7 DEF SetBit
<1> QED BY <1>1, <1>2, <1>3, <1>4, <1>5, <1>6, <1>7 DEF Thread

LEMMA FreshMain == ASSUME TypeInv, SessionInv, FreshInv, StartRead \/ InPass PROVE FreshInv'
<1> USE DEF FreshInv
<1>1. CASE StartRead
  <2>1. ~muted' => tpc \in {"test", "asleep"} /\ bitmap = {}
    BY <1>1 DEF StartRead, SessionInv, Goto, TypeInv, LinkTypeOK
  <2> QED BY <1>1, <2>1 DEF StartRead, session
<1>2. CASE GetValue
  BY <1>2 DEF GetValue, session, mailbox, receiver
<1>3. CASE InPass /\ ~GetValue
  <2>1. UNCHANGED <<mailbox, receiver, stale, muted>>
    BY <1>3 DEF InPass, StartWrite, NoWrite, OpenError, OpenDescriptor, MarkOpen,
                GetMissing, GetFails, GetFailsUnseen, Write, CloseDescriptor,
                ClearOpen, history
  <2>2. noticed' /\ ~open' => noticed /\ ~open
    BY <1>3 DEF InPass, StartWrite, NoWrite, OpenError, OpenDescriptor, MarkOpen,
                GetMissing, GetFails, GetFailsUnseen, Write, CloseDescriptor,
                ClearOpen, session, history
  <2> QED BY <2>1, <2>2 DEF mailbox, receiver
<1> QED BY <1>1, <1>2, <1>3

\* An inverter that is reported as UPDATED was heard in this pass, unless the thread
\* had not looked before the pass began, or a read failed (si_thread,
\* si_get_local_can_data).
THEOREM LinkHeard == Spec => []StaleOnlyIfMuted
<1>1. Init => FreshInv /\ SessionInv  BY DEF Init, FreshInv, SessionInv
<1>2. TypeInv /\ SessionInv /\ FreshInv /\ [Next]_vars => FreshInv'
  <2> SUFFICES ASSUME TypeInv, SessionInv, FreshInv, [Next]_vars PROVE FreshInv'  OBVIOUS
  <2>1. CASE UNCHANGED vars  BY <2>1 DEF vars, FreshInv
  <2> QED BY <2>1, FreshThread, FreshMain DEF Next
<1>3. FreshInv => StaleOnlyIfMuted  BY DEF FreshInv, StaleOnlyIfMuted
<1> QED BY <1>1, <1>2, <1>3, SessionStep, LinkTypeCorrect, PTL DEF Spec

=============================================================================
