--------------------------- MODULE BmsAnswersProofs ---------------------------
(***************************************************************************)
(* Which answers an update takes, for any bounds on the tries and on what  *)
(* is on the line; and where preh_read puts the cells, for any number of   *)
(* monitors, of their frames and of their cells.                           *)
(***************************************************************************)
EXTENDS BmsSessionProofs, SequenceTheorems, FiniteSetTheorems

-----------------------------------------------------------------------------
(* Induction up to a bound, from the well-foundedness of the order of the  *)
(* subsets of an interval.                                                 *)

LEMMA BoundedInduction ==
    ASSUME NEW n \in Nat, NEW T \in SUBSET (0..n),
           0 \in T, \A i \in 0..(n - 1) : i \in T => i + 1 \in T
    PROVE  T = 0..n
  <1>. SUFFICES ASSUME T # 0..n PROVE FALSE
    OBVIOUS
  <1>. DEFINE Left == {S \in SUBSET (0..n) : \E i \in (0..n) \ T : S = 0..i}
              Order == StrictSubsetOrdering(0..n)
  <1>1. IsWellFoundedOn(Order, SUBSET (0..n))
    <2>1. IsFiniteSet(0..n)
      BY FS_Interval
    <2>. QED
      BY <2>1, FS_FiniteSubsetsOfFinite, FS_StrictSubsetOrderingWellFounded
  <1>2. Left \subseteq SUBSET (0..n) /\ Left # {}
    <2>1. PICK i \in 0..n : i \notin T
      OBVIOUS
    <2>2. 0..i \subseteq 0..n
      BY <2>1
    <2>. QED
      BY <2>1, <2>2
  <1>3. PICK S \in Left : \A R \in Left : <<R, S>> \notin Order
    <2>. HIDE DEF Left, Order
    <2>. QED
      BY <1>1, <1>2, WFMin
  <1>4. PICK i \in (0..n) \ T : S = 0..i
    BY <1>3
  <1>5. i - 1 \in 0..n /\ i - 1 \notin T
    BY <1>4
  <1>6. 0..(i - 1) \in SUBSET (0..n)
    BY <1>4
  <1>7. 0..(i - 1) \in Left
    BY <1>5, <1>6
  <1>8. 0..(i - 1) \subseteq S /\ i \in S /\ i \notin 0..(i - 1)
    BY <1>4
  <1>9. <<0..(i - 1), S>> \in Order
    BY <1>3, <1>6, <1>8 DEF StrictSubsetOrdering
  <1>. QED
    BY <1>3, <1>7, <1>9

-----------------------------------------------------------------------------
(* What getdata of jk.c finds in a buffer.                                 *)

Buffer == Seq(Piece \cup {Void})

\* Where a frame with voltages begins that something follows.
FrameStarts(b) == {i \in 1..(Len(b) - 1) : b[i].part = 1 /\ b[i].to = Volts}

LEMMA VoltsFound == ASSUME NEW b \in Buffer PROVE VoltsAt(b) \in FrameStarts(b) \cup {0}
  <1>. DEFINE L == Len(b)
              Places == 1..(L + 2)
              Next2(f, i) == IF i >= L THEN 0
                             ELSE IF b[i].part # 1 THEN f[i + 1]
                             ELSE IF b[i].to = Volts THEN i ELSE f[i + 2]
              Good == FrameStarts(b) \cup {0}
              at == CHOOSE f : f = [i \in Places |-> Next2(f, i)]
  <1>1. L \in Nat
    BY DEF Buffer
  <1>2. VoltsAt(b) = at[1]
    BY DEF VoltsAt
  <1>3. \E f : f = [i \in Places |-> Next2(f, i)]
    <2>. DEFINE From(k) == {i \in Places : i >= L + 2 - k}
                T == {k \in 0..(L + 1) :
                        \E f \in [Places -> Good] : \A i \in From(k) : f[i] = Next2(f, i)}
    <2>1. 0 \in T
      <3>. DEFINE g == [i \in Places |-> 0]
      <3>1. g \in [Places -> Good] /\ 0 \in 0..(L + 1)
        BY <1>1
      <3>2. \A i \in From(0) : i >= L
        BY <1>1
      <3>3. \A i \in From(0) : g[i] = Next2(g, i)
        BY <3>2
      <3>. HIDE DEF g, From, Next2
      <3>. QED
        BY <3>1, <3>3
    <2>2. ASSUME NEW k \in 0..L, k \in T PROVE k + 1 \in T
      <3>1. PICK f \in [Places -> Good] : \A i \in From(k) : f[i] = Next2(f, i)
        BY <2>2
      <3>. DEFINE n == L + 2 - (k + 1)
                  g == [f EXCEPT ![n] = Next2(f, n)]
      <3>2. n \in Places /\ n <= L + 1
        BY <1>1
      <3>3. Next2(f, n) \in Good
        <4>1. CASE n >= L
          BY <4>1
        <4>2. CASE n < L
          <5>1. n + 1 \in Places /\ n + 2 \in Places /\ n \in 1..(L - 1)
            BY <1>1, <3>2, <4>2
          <5>2. f[n + 1] \in Good /\ f[n + 2] \in Good
            BY <3>1, <5>1
          <5>3. b[n].part = 1 /\ b[n].to = Volts => n \in Good
            BY <5>1 DEF FrameStarts
          <5>. QED
            BY <4>2, <5>2, <5>3
        <4>. QED
          BY <1>1, <3>2, <4>1, <4>2
      <3>4. g \in [Places -> Good]
        BY <3>1, <3>2, <3>3
      <3>5. ASSUME NEW i \in From(k + 1) PROVE g[i] = Next2(g, i)
        <4>1. i < L => i + 1 \in Places /\ i + 2 \in Places /\ i + 1 # n /\ i + 2 # n
          BY <1>1, <3>2
        <4>2. Next2(g, i) = Next2(f, i)
          BY <1>1, <3>1, <4>1
        <4>3. i # n => i \in From(k)
          BY <1>1
        <4>. QED
          BY <3>1, <3>2, <4>2, <4>3
      <3>6. k + 1 \in 0..(L + 1)
        BY <1>1
      <3>. HIDE DEF g, n, From, Next2
      <3>. QED
        BY <3>4, <3>5, <3>6
    <2>3. L + 1 \in T
      <3>1. T \in SUBSET (0..(L + 1)) /\ L + 1 \in Nat /\ (L + 1) - 1 = L
        BY <1>1
      <3>. HIDE DEF T
      <3>2. T = 0..(L + 1)
        BY <2>1, <2>2, <3>1, BoundedInduction
      <3>. QED
        BY <1>1, <3>2
    <2>4. PICK f \in [Places -> Good] : \A i \in From(L + 1) : f[i] = Next2(f, i)
      BY <2>3
    <2>5. From(L + 1) = Places
      BY <1>1
    <2>6. f = [i \in Places |-> f[i]]
      BY <2>4
    <2>. QED
      BY <2>4, <2>5, <2>6
  <1>4. at = [i \in Places |-> Next2(at, i)]
    BY <1>3
  <1>. HIDE DEF at
  <1>5. \A i \in Places : at[i] = Next2(at, i)
    BY <1>4
  <1>. DEFINE T == {k \in 0..(L + 1) : \A i \in Places : i >= L + 2 - k => at[i] \in Good}
  <1>6. 0 \in T
    BY <1>1, <1>5
  <1>7. ASSUME NEW k \in 0..L, k \in T PROVE k + 1 \in T
    <2>. SUFFICES ASSUME NEW i \in Places, i >= L + 2 - (k + 1) PROVE at[i] \in Good
      BY <1>1
    <2>1. CASE i >= L
      BY <1>5, <2>1
    <2>2. CASE i < L
      <3>1. i \in 1..(L - 1) /\ i + 1 \in Places /\ i + 2 \in Places
        BY <1>1, <2>2
      <3>2. at[i + 1] \in Good /\ at[i + 2] \in Good
        BY <1>1, <1>7, <3>1
      <3>3. b[i].part = 1 /\ b[i].to = Volts => i \in Good
        BY <3>1 DEF FrameStarts
      <3>. QED
        BY <1>5, <2>2, <3>2, <3>3
    <2>. QED
      BY <1>1, <2>1, <2>2
  <1>8. L + 1 \in T
    <2>1. T \in SUBSET (0..(L + 1)) /\ L + 1 \in Nat /\ (L + 1) - 1 = L
      BY <1>1
    <2>. HIDE DEF T
    <2>2. T = 0..(L + 1)
      BY <1>6, <1>7, <2>1, BoundedInduction
    <2>. QED
      BY <1>1, <2>2
  <1>. QED
    BY <1>1, <1>2, <1>8

LEMMA FrameOf ==
    ASSUME NEW b \in Buffer, VoltsAt(b) # 0
    PROVE  /\ VoltsAt(b) \in FrameStarts(b)
           /\ Frame(b) \in Buffer /\ Len(Frame(b)) = 2
           /\ Frame(b)[1] = b[VoltsAt(b)] /\ Frame(b)[2] = b[VoltsAt(b) + 1]
  <1>1. VoltsAt(b) \in FrameStarts(b)
    BY VoltsFound
  <1>. DEFINE v == VoltsAt(b)
  <1>2. Len(b) \in Nat /\ v \in 1..(Len(b) - 1)
    BY <1>1 DEF FrameStarts, Buffer
  <1>3. \A i \in v..(v + 1) : b[i] \in Piece \cup {Void}
    BY <1>2 DEF Buffer
  <1>4. Frame(b) = SubSeq(b, v, v + 1)
    BY <1>2 DEF Frame
  <1>. HIDE DEF v
  <1>5. /\ SubSeq(b, v, v + 1) \in Buffer
        /\ Len(SubSeq(b, v, v + 1)) = IF v <= v + 1 THEN v + 1 - v + 1 ELSE 0
        /\ \A i \in 1..(v + 1 - v + 1) : SubSeq(b, v, v + 1)[i] = b[v + i - 1]
    BY <1>2, <1>3, SubSeqProperties DEF Buffer
  <1>6. v + 1 - v + 1 = 2 /\ v <= v + 1 /\ v + 1 - 1 = v /\ v + 2 - 1 = v + 1
    BY <1>2
  <1>7. 1 \in 1..2 /\ 2 \in 1..2
    OBVIOUS
  <1>8. /\ SubSeq(b, v, v + 1)[1] = b[v + 1 - 1]
        /\ SubSeq(b, v, v + 1)[2] = b[v + 2 - 1]
    BY <1>5, <1>6, <1>7
  <1>. QED
    BY <1>1, <1>4, <1>5, <1>6, <1>8 DEF v

-----------------------------------------------------------------------------
(* Types.                                                                  *)

Asking == {"write", "written", "read", "clear", "judge"}

WorldType ==
    /\ <<drv, kind>> \in Setups
    /\ conn \in {"none", "bare", "up"} /\ peer \in {"there", "gone", "reset"}
    /\ line \in Seq(Piece) /\ Len(line) <= MaxLine
    /\ data \in [1..MaxData -> Piece \cup {Void}]
    /\ len \in 0..MaxData /\ note \in 0..(MaxData + 1)
    /\ note # 0 => len < note

UserType ==
    /\ pc \in PCs /\ masked \in BOOLEAN /\ alive \in BOOLEAN
    /\ req \in Requests \cup Ids
    /\ pc \in Asking => req \in Requests
    /\ pc = "look" => req \in Ids
    /\ res \in {"ok", "error"} /\ rbuf \in Buffer
    /\ crossed \in BOOLEAN /\ hollow \in BOOLEAN
    /\ try \in Nat \ {0}
    /\ ok \in BOOLEAN /\ open \in BOOLEAN /\ updated \in BOOLEAN

GotType ==
    /\ got \in Seq(Buffer) /\ Len(got) <= NRequests
    /\ pc \in {"open", "opened", "look"} => got = <<>>
    /\ pc \in Asking => Len(got) < req

TypeInv == WorldType /\ UserType /\ GotType

LEMMA ConstantsType ==
    /\ MaxLine \in Nat \ {0} /\ MaxData \in Nat \ {0}
    /\ NCmu \in Nat \ {0} /\ Asks \in Nat /\ Asks > 2 /\ Ids \subseteq Nat \ {0}
    /\ 1 \in Ids
  <1>1. NCmu \in Nat /\ NCmu > 0 /\ Asks \in Nat /\ Asks > 2
    BY PrehAssumption DEF Asks
  <1>2. NCmu * Asks \in Nat /\ NCmu * Asks >= 1
    BY <1>1
  <1>. QED
    BY <1>1, <1>2, TransportAssumption, PrehAssumption DEF Ids

LEMMA InitAnswerType == Init => TypeInv
  <1> SUFFICES ASSUME Init PROVE TypeInv
    OBVIOUS
  <1>. USE ConstantsType
  <1>1. WorldType
    <2>1. PICK s \in Setups : drv = s[1] /\ kind = s[2]
      BY DEF Init
    <2>2. s \in {"jbd", "jk", "preh", "si"} \X Kinds
      BY <2>1, SessionAssumption DEF SessionAssumption
    <2>3. <<drv, kind>> \in Setups
      BY <2>1, <2>2
    <2>. QED
      BY <2>3 DEF Init, WorldType
  <1>2. UserType
    <2>1. pc \in PCs /\ pc \notin Asking /\ pc # "look"
      BY DEF Init, PCs, Asking
    <2>2. rbuf \in Buffer
      BY DEF Init, Buffer
    <2>3. masked \in BOOLEAN /\ req \in Requests
      BY DEF Init, Requests
    <2>. QED
      BY <2>1, <2>2, <2>3 DEF Init, UserType
  <1>3. GotType
    BY DEF Init, GotType, Asking, Buffer, NRequests
  <1>. QED
    BY <1>1, <1>2, <1>3 DEF TypeInv

-----------------------------------------------------------------------------
(* Types: the calls of the transport.                                      *)

LEMMA CutType ==
    ASSUME NEW S, NEW s \in Seq(S), NEW n \in 0..Len(s)
    PROVE  /\ SubSeq(s, 1, n) \in Seq(S) /\ Len(SubSeq(s, 1, n)) = n
           /\ \A i \in 1..n : SubSeq(s, 1, n)[i] = s[i]
           /\ SubSeq(s, n + 1, Len(s)) \in Seq(S) /\ Len(SubSeq(s, n + 1, Len(s))) = Len(s) - n
           /\ \A i \in 1..(Len(s) - n) : SubSeq(s, n + 1, Len(s))[i] = s[n + i]
  <1>1. n \in Nat /\ Len(s) \in Nat /\ n <= Len(s) /\ \A i \in 1..Len(s) : s[i] \in S
    OBVIOUS
  <1>2. \A i \in 1..n : s[i] \in S
    BY <1>1
  <1>3. \A i \in (n + 1)..Len(s) : s[i] \in S
    BY <1>1
  <1>4. /\ SubSeq(s, 1, n) \in Seq(S) /\ Len(SubSeq(s, 1, n)) = IF 1 <= n THEN n - 1 + 1 ELSE 0
        /\ \A i \in 1..(n - 1 + 1) : SubSeq(s, 1, n)[i] = s[1 + i - 1]
    BY <1>1, <1>2, SubSeqProperties
  <1>5. /\ SubSeq(s, n + 1, Len(s)) \in Seq(S)
        /\ Len(SubSeq(s, n + 1, Len(s))) =
             IF n + 1 <= Len(s) THEN Len(s) - (n + 1) + 1 ELSE 0
        /\ \A i \in 1..(Len(s) - (n + 1) + 1) : SubSeq(s, n + 1, Len(s))[i] = s[n + 1 + i - 1]
    BY <1>1, <1>3, SubSeqProperties
  <1>. QED
    BY <1>1, <1>4, <1>5

LEMMA AnswerType ==
    ASSUME NEW r \in Requests, NEW a \in Answers(r)
    PROVE  /\ a \in Seq(Piece) /\ Len(a) <= 2
           /\ \A i \in 1..Len(a) : a[i] = Part(r, i)
  <1>1. Part(r, 1) \in Piece /\ Part(r, 2) \in Piece
    BY DEF Part, Piece, Requests
  <1>2. CASE a = <<>>
    BY <1>2
  <1>3. CASE a = <<Part(r, 1)>>
    BY <1>1, <1>3
  <1>4. CASE a = <<Part(r, 1), Part(r, 2)>>
    BY <1>1, <1>4
  <1>. QED
    BY <1>2, <1>3, <1>4 DEF Answers

\* A signal that ends the daemon.
LEMMA DeadType ==
    ASSUME TypeInv, alive' = FALSE,
           UNCHANGED <<handle, pc, masked, req, result, history, driver, try, got, updated>>
    PROVE  TypeInv'
  <1>. USE DEF history, handle, far, inbox, result, driver, who
  <1>1. WorldType'
    BY DEF TypeInv, WorldType
  <1>2. UserType'
    BY DEF TypeInv, UserType
  <1>3. GotType'
    BY DEF TypeInv, GotType
  <1>. QED
    BY <1>1, <1>2, <1>3 DEF TypeInv

LEMMA OpenType ==
    ASSUME TypeInv, Open, UNCHANGED <<driver, try, got, mailbox, updated>>
    PROVE  TypeInv'
  <1>. USE DEF TypeInv, WorldType, UserType, GotType, PCs, Asking, At, user, history, handle, far,
               inbox, result, driver, who
  <1>1. CASE OpenAlready
    BY <1>1 DEF OpenAlready
  <1>2. CASE OpenSucceeds
    BY <1>2 DEF OpenSucceeds
  <1>3. CASE OpenFails
    BY <1>3 DEF OpenFails
  <1>4. CASE SetupFails
    BY <1>4 DEF SetupFails
  <1>. QED
    BY <1>1, <1>2, <1>3, <1>4 DEF Open

LEMMA WriteType ==
    ASSUME TypeInv, Write, UNCHANGED <<driver, try, got, mailbox, updated>>
    PROVE  TypeInv'
  <1>. USE DEF TypeInv, WorldType, UserType, GotType, PCs, Asking, At, user, history, handle, far,
               inbox, result, driver, who, Provoked
  <1>1. CASE WriteStream
    <2>1. PICK a \in Answers(req) : Len(line) + Len(a) <= MaxLine /\ line' = line \o a
      BY <1>1 DEF WriteStream
    <2>2. a \in Seq(Piece)
      BY <1>1, <2>1, AnswerType DEF WriteStream
    <2>3. line' \in Seq(Piece) /\ Len(line') <= MaxLine
      BY <2>1, <2>2, ConcatProperties
    <2>4. len' \in 0..MaxData /\ (note # 0 => len' < note)
      BY <1>1, ConstantsType DEF WriteStream, BtReset
    <2>5. crossed' \in BOOLEAN
      BY <1>1 DEF WriteStream, Outstanding
    <2>. QED
      BY <1>1, <2>3, <2>4, <2>5 DEF WriteStream
  <1>2. CASE WriteFrame
    BY <1>2 DEF WriteFrame
  <1>3. CASE WriteFails
    <2>1. len' \in 0..MaxData /\ (note # 0 => len' < note)
      BY <1>3, ConstantsType DEF WriteFails, BtReset
    <2>2. crossed' \in BOOLEAN
      BY <1>3 DEF WriteFails, Outstanding
    <2>. QED
      BY <1>3, <2>1, <2>2 DEF WriteFails
  <1>4. CASE DiesOfPipe("write")
    <2>1. /\ alive' = FALSE
          /\ UNCHANGED <<handle, pc, masked, req, result, history, driver, try, got, updated>>
      BY <1>4 DEF DiesOfPipe
    <2>. QED
      BY <2>1, DeadType
  <1>. QED
    BY <1>1, <1>2, <1>3, <1>4 DEF Write

LEMMA ReadType ==
    ASSUME TypeInv, Read, UNCHANGED <<driver, try, got, mailbox, updated>>
    PROVE  TypeInv'
  <1>. USE DEF TypeInv, WorldType, UserType, GotType, PCs, Asking, At, user, history, handle, far,
               inbox, result, driver, who, Provoked, Buffer
  <1>1. CASE ReadStream
    <2>1. PICK n \in 0..Len(line) : /\ rbuf' = SubSeq(line, 1, n)
                                    /\ line' = SubSeq(line, n + 1, Len(line))
      BY <1>1 DEF ReadStream
    <2>2. rbuf' \in Seq(Piece) /\ line' \in Seq(Piece) /\ Len(line') = Len(line) - n
      BY <2>1, CutType
    <2>3. rbuf' \in Buffer
      BY <2>2
    <2>. QED
      BY <1>1, <2>2, <2>3, ConstantsType DEF ReadStream
  <1>2. CASE ReadFails
    <2>1. PICK n \in 0..Len(line) : line' = SubSeq(line, n + 1, Len(line))
      BY <1>2 DEF ReadFails
    <2>2. line' \in Seq(Piece) /\ Len(line') = Len(line) - n
      BY <2>1, CutType
    <2>3. rbuf' \in Buffer
      BY <1>2 DEF ReadFails
    <2>. QED
      BY <1>2, <2>2, <2>3, ConstantsType DEF ReadFails
  <1>3. CASE BtNothing
    BY <1>3 DEF BtNothing
  <1>4. CASE BtTake
    <2>1. data \in Buffer /\ Len(data) = MaxData
      BY ConstantsType
    <2>2. rbuf' \in Buffer
      BY <1>4, <2>1, CutType DEF BtTake
    <2>. QED
      BY <1>4, <2>2 DEF BtTake
  <1>5. CASE BtClear
    BY <1>5, ConstantsType DEF BtClear
  <1>6. CASE ReadFrame
    <2>1. rbuf' \in Buffer
      BY <1>6 DEF ReadFrame, Part, Piece
    <2>. QED
      BY <1>6, <2>1 DEF ReadFrame
  <1>7. CASE ReadHollow
    <2>1. rbuf' \in Buffer
      BY <1>7 DEF ReadHollow
    <2>. QED
      BY <1>7, <2>1 DEF ReadHollow
  <1>8. CASE DiesOfPipe("read")
    <2>1. /\ alive' = FALSE
          /\ UNCHANGED <<handle, pc, masked, req, result, history, driver, try, got, updated>>
      BY <1>8 DEF DiesOfPipe
    <2>. QED
      BY <2>1, DeadType
  <1>. QED
    BY <1>1, <1>2, <1>3, <1>4, <1>5, <1>6, <1>7, <1>8 DEF Read

-----------------------------------------------------------------------------
(* Types: the steps of the drivers.                                        *)

\* A step of a driver goes on to a call of the transport or returns.
LEMMA DriverType ==
    ASSUME TypeInv, UNCHANGED <<handle, masked, alive, who, updated>>,
           pc' \in {"write", "read", "close"}, req' \in Requests \cup Ids,
           pc' # "close" => req' \in Requests /\ Len(got') < req',
           res' = res, rbuf' \in Buffer, crossed' \in BOOLEAN, hollow' \in BOOLEAN,
           try' \in Nat \ {0}, ok' \in BOOLEAN,
           got' \in Seq(Buffer), Len(got') <= NRequests
    PROVE  TypeInv'
  <1>. USE DEF handle, far, inbox, who
  <1>1. WorldType'
    BY DEF TypeInv, WorldType
  <1>2. UserType'
    BY DEF TypeInv, UserType, PCs, Asking
  <1>3. GotType'
    BY DEF TypeInv, GotType, Asking
  <1>. QED
    BY <1>1, <1>2, <1>3 DEF TypeInv

LEMMA AcceptType ==
    ASSUME TypeInv, pc = "judge", Accept, Begin \in {"write", "read"}
    PROVE  /\ pc' \in {"write", "read", "close"} /\ req' \in Requests
           /\ pc' # "close" => Len(got') < req'
           /\ try' \in Nat \ {0} /\ ok' \in BOOLEAN
           /\ got' \in Seq(Buffer) /\ Len(got') <= NRequests
  <1>1. /\ req \in 1..2 /\ got \in Seq(Buffer) /\ Len(got) < req /\ rbuf \in Buffer
        /\ try \in Nat \ {0} /\ ok \in BOOLEAN /\ Len(got) \in Nat
    BY DEF TypeInv, UserType, GotType, Asking, Requests
  <1>2. got' \in Seq(Buffer) /\ Len(got') = Len(got) + 1
    BY <1>1, AppendProperties DEF Accept
  <1>3. CASE req < NRequests
    <2>1. pc' = Begin /\ req' = req + 1 /\ try' = 1 /\ ok' = ok
      BY <1>3 DEF Accept, Proceed
    <2>. QED
      BY <1>1, <1>2, <1>3, <2>1 DEF NRequests, Requests
  <1>4. CASE ~(req < NRequests)
    <2>1. pc' = "close" /\ ok' = TRUE /\ req' = req /\ try' = try
      BY <1>4 DEF Accept, Proceed
    <2>. QED
      BY <1>1, <1>2, <1>4, <2>1 DEF NRequests, Requests
  <1>. QED
    BY <1>3, <1>4

LEMMA AgainType ==
    ASSUME TypeInv, pc = "judge", NEW n, Again(n), Begin \in {"write", "read"}
    PROVE  /\ pc' \in {"write", "read", "close"} /\ req' = req /\ got' = got
           /\ try' \in Nat \ {0} /\ ok' \in BOOLEAN
  <1>1. try \in Nat \ {0} /\ ok \in BOOLEAN
    BY DEF TypeInv, UserType
  <1>2. CASE try < n
    BY <1>1, <1>2 DEF Again
  <1>3. CASE ~(try < n)
    BY <1>1, <1>3 DEF Again, Return
  <1>. QED
    BY <1>2, <1>3

LEMMA JbdType ==
    ASSUME TypeInv, JbdSteps, UNCHANGED <<mailbox, updated>> PROVE TypeInv'
  <1>0. /\ pc \in Asking /\ req \in Requests /\ got \in Seq(Buffer) /\ rbuf \in Buffer
        /\ Len(got) < req /\ Len(got) <= NRequests /\ <<>> \in Buffer /\ ok \in BOOLEAN
        /\ crossed \in BOOLEAN /\ hollow \in BOOLEAN /\ try \in Nat \ {0}
    BY JbdStep DEF TypeInv, UserType, GotType, Asking, Buffer
  <1>1. drv = "jbd" /\ Begin \in {"write", "read"}
    BY JbdStep DEF Begin, Notes
  <1>. USE <1>0 DEF history, driver, who
  <1>2. CASE RwWritten \/ CanWritten
    BY <1>2, DriverType DEF RwWritten, CanWritten, At, user, result
  <1>3. CASE RwError \/ CanError
    BY <1>3, DriverType DEF RwError, CanError, Refuse, Return, Judged
  <1>4. CASE RwAccept \/ CanAccept
    <2>1. pc = "judge" /\ Accept
      BY <1>4 DEF RwAccept, CanAccept
    <2>. QED
      BY <1>1, <1>4, <2>1, AcceptType, DriverType DEF RwAccept, CanAccept, Judged
  <1>5. CASE RwAgain \/ CanAgain
    <2>1. pc = "judge" /\ (Again(RwTries) \/ Again(CanTries))
      BY <1>5 DEF RwAgain, CanAgain
    <2>. QED
      BY <1>1, <1>5, <2>1, AgainType, DriverType DEF RwAgain, CanAgain, Judged
  <1>. QED
    BY <1>2, <1>3, <1>4, <1>5 DEF JbdSteps

LEMMA JkType ==
    ASSUME TypeInv, JkSteps, UNCHANGED <<mailbox, updated>> PROVE TypeInv'
  <1>0. /\ pc \in Asking /\ req \in Requests /\ got \in Seq(Buffer) /\ rbuf \in Buffer
        /\ Len(got) < req /\ Len(got) <= NRequests /\ <<>> \in Buffer /\ ok \in BOOLEAN
        /\ crossed \in BOOLEAN /\ hollow \in BOOLEAN /\ try \in Nat \ {0}
    BY JkStep DEF TypeInv, UserType, GotType, Asking, Buffer
  <1>. USE <1>0 DEF history, driver, who, Jk
  <1>1. CASE JkWritten \/ JkWriteError \/ InfoError
    BY <1>1, DriverType DEF JkWritten, JkWriteError, InfoError, Refuse, Return, Judged, user, result
  <1>2. CASE InfoDone \/ InfoAgain
    BY <1>2, DriverType DEF InfoDone, InfoAgain, Judged, user, Requests, Volts, Info
  <1>3. CASE VoltsCome
    <2>1. Frame(rbuf) \in Buffer
      BY <1>3, FrameOf DEF VoltsCome
    <2>2. got' \in Seq(Buffer) /\ Len(got') = Len(got) + 1
      BY <1>3, <2>1, AppendProperties DEF VoltsCome
    <2>3. pc' = "close" /\ req' = req /\ try' = try /\ ok' \in BOOLEAN
      BY <1>3 DEF VoltsCome, Return
    <2>4. Len(got') <= NRequests
      BY <2>2 DEF NRequests, Requests
    <2>5. UNCHANGED <<handle, masked, alive, who, res, crossed, hollow>> /\ rbuf' = <<>>
      BY <1>3 DEF VoltsCome, Judged
    <2>. QED
      BY <2>2, <2>3, <2>4, <2>5, DriverType
  <1>4. CASE VoltsWait
    BY <1>4, DriverType DEF VoltsWait, Judged, user
  <1>5. CASE VoltsNever
    BY <1>5, DriverType DEF VoltsNever, Refuse, Return, Judged
  <1>. QED
    BY <1>1, <1>2, <1>3, <1>4, <1>5 DEF JkSteps

LEMMA RemoteType ==
    ASSUME TypeInv, RemoteSteps, UNCHANGED <<mailbox, updated>> PROVE TypeInv'
  <1>0. /\ pc = "judge" /\ req \in Requests /\ got \in Seq(Buffer) /\ rbuf \in Buffer
        /\ Len(got) < req /\ Len(got) <= NRequests /\ <<>> \in Buffer /\ ok \in BOOLEAN
        /\ crossed \in BOOLEAN /\ hollow \in BOOLEAN /\ try \in Nat \ {0}
    BY RemoteStep DEF TypeInv, UserType, GotType, Asking, Buffer
  <1>1. Begin = "read"
    BY RemoteStep DEF Begin
  <1>. USE <1>0 DEF history, driver, who
  <1>2. CASE FrameTaken
    <2>1. Accept
      BY <1>2 DEF FrameTaken
    <2>. QED
      BY <1>1, <1>2, <2>1, AcceptType, DriverType DEF FrameTaken, Judged
  <1>3. CASE FrameAgain
    BY <1>3, DriverType DEF FrameAgain, Judged, user
  <1>4. CASE FrameMissing
    <2>1. /\ got' = got /\ rbuf' = <<>>
          /\ UNCHANGED <<handle, masked, alive, res, crossed, hollow, who, updated>>
      BY <1>4 DEF FrameMissing, Judged
    <2>2. Return(FALSE) \/ Proceed
      BY <1>4 DEF FrameMissing
    <2>3. /\ pc' \in {"read", "close"} /\ req' \in Requests /\ req' >= req
          /\ try' \in Nat \ {0} /\ ok' \in BOOLEAN
      <3>1. CASE Return(FALSE)
        <4>1. pc' = "close" /\ ok' = FALSE /\ req' = req /\ try' = try
          BY <3>1 DEF Return
        <4>2. ok' \in BOOLEAN /\ pc' \in {"read", "close"}
          BY <4>1
        <4>. QED
          BY <4>1, <4>2 DEF Requests
      <3>2. CASE Proceed /\ req < NRequests
        BY <1>1, <3>2 DEF Proceed, NRequests, Requests
      <3>3. CASE Proceed /\ ~(req < NRequests)
        BY <3>3 DEF Proceed, Requests
      <3>. QED
        BY <2>2, <3>1, <3>2, <3>3
    <2>4. Len(got') < req'
      BY <2>1, <2>3 DEF Requests
    <2>. QED
      BY <2>1, <2>3, <2>4, DriverType
  <1>. QED
    BY <1>2, <1>3, <1>4 DEF RemoteSteps

LEMMA PrehType ==
    ASSUME TypeInv, PrehSteps, UNCHANGED updated PROVE TypeInv'
  <1>1. /\ UNCHANGED <<handle, masked, alive, result, history, who, got>>
        /\ pc = "look" /\ pc' \in {"look", "close"}
        /\ req' \in Ids /\ try' \in Nat \ {0} /\ ok' \in BOOLEAN
    <2>0. /\ pc = "look" /\ req \in Ids /\ try \in Nat \ {0} /\ ok \in BOOLEAN
          /\ pc' \in {"look", "close"} /\ UNCHANGED <<handle, who, got>>
      BY PrehStep DEF TypeInv, UserType
    <2>1. CASE Wait
      BY <2>0, <2>1 DEF Wait, driver, history, user
    <2>3. CASE NoState
      BY <2>0, <2>3 DEF NoState, Return, history
    <2>2. CASE FoundOther \/ FoundCells \/ PassOver
      <3>1. UNCHANGED <<masked, alive, result, history>>
        BY <2>2 DEF FoundOther, FoundCells, TakeCells, PassOver, history
      <3>2. GoTo(req + 1) \/ GoTo(NextCmu)
        BY <2>2 DEF FoundOther, FoundCells, TakeCells, PassOver
      <3>3. ASSUME NEW i, GoTo(i) PROVE req' \in Ids /\ try' \in Nat \ {0} /\ ok' \in BOOLEAN
        <4>1. CASE i \in Ids
          BY <2>0, <3>3, <4>1 DEF GoTo
        <4>2. CASE i \notin Ids
          BY <2>0, <3>3, <4>2 DEF GoTo
        <4>. QED
          BY <4>1, <4>2
      <3>. QED
        BY <2>0, <3>1, <3>2, <3>3
    <2>. QED
      BY <2>1, <2>2, <2>3 DEF PrehSteps
  <1>. USE <1>1 DEF handle, far, inbox, result, history, who
  <1>2. WorldType'
    BY DEF TypeInv, WorldType
  <1>3. UserType'
    BY DEF TypeInv, UserType, PCs, Asking
  <1>4. GotType'
    BY DEF TypeInv, GotType, Asking
  <1>. QED
    BY <1>2, <1>3, <1>4 DEF TypeInv

-----------------------------------------------------------------------------
(* Types: the update and the rest of the world.                            *)

LEMMA DropType ==
    ASSUME WorldType, Drop PROVE line' \in Seq(Piece) /\ Len(line') <= MaxLine
  <1>1. CASE kind = "serial"
    <2>1. PICK n \in 0..Len(line) : line' = SubSeq(line, n + 1, Len(line))
      BY <1>1 DEF Drop
    <2>2. line' \in Seq(Piece) /\ Len(line') = Len(line) - n
      BY <2>1, CutType DEF WorldType
    <2>. QED
      BY <2>2, ConstantsType DEF WorldType
  <1>2. CASE kind # "serial"
    BY <1>2, ConstantsType DEF Drop
  <1>. QED
    BY <1>1, <1>2

LEMMA CloseType ==
    ASSUME TypeInv, CloseDriver, drv' = drv
    PROVE  WorldType' /\ open' \in BOOLEAN
  <1>1. open' \in BOOLEAN
    BY DEF CloseDriver
  <1>2. CASE UNCHANGED handle
    BY <1>1, <1>2 DEF TypeInv, WorldType, handle, far, inbox
  <1>3. CASE Release
    <2>1. line' \in Seq(Piece) /\ Len(line') <= MaxLine
      BY <1>3, DropType DEF TypeInv, Release
    <2>. QED
      BY <1>1, <1>3, <2>1 DEF TypeInv, WorldType, Release, inbox
  <1>. QED
    BY <1>1, <1>2, <1>3 DEF CloseDriver

LEMMA StartType ==
    ASSUME TypeInv, Start PROVE TypeInv'
  <1>. USE DEF TypeInv
  <1>1. \A p \in Piece : Aged(p) \in Piece
    BY DEF Aged, Piece
  <1>2. Aged(Void) = Void
    BY DEF Aged
  <1>3. line' \in Seq(Piece) /\ Len(line') = Len(line)
    <2>1. Len(line) \in Nat /\ DOMAIN line = 1..Len(line) /\ \A i \in DOMAIN line : line[i] \in Piece
      BY DEF WorldType
    <2>2. line' \in [1..Len(line) -> Piece]
      BY <1>1, <2>1 DEF Start
    <2>. QED
      BY <2>1, <2>2, SeqDef
  <1>4. data' \in [1..MaxData -> Piece \cup {Void}]
    BY <1>1, <1>2 DEF Start, WorldType
  <1>5. WorldType'
    BY <1>3, <1>4 DEF WorldType, Start, who
  <1>6. UserType'
    <2>1. pc' = "open" /\ ok' = FALSE /\ updated' = FALSE /\ crossed' = FALSE /\ hollow' = FALSE
          /\ UNCHANGED <<user, result, who, try>>
      BY DEF Start, At
    <2>. QED
      BY <2>1 DEF UserType, user, result, who, PCs, Asking
  <1>7. GotType'
    BY DEF GotType, Start, At, Asking, Buffer, NRequests
  <1>. QED
    BY <1>5, <1>6, <1>7

LEMMA ProgramType ==
    ASSUME TypeInv, Program PROVE TypeInv'
  <1>1. CASE (Open \/ Write \/ Read) /\ UNCHANGED <<driver, try, got, mailbox, updated>>
    BY <1>1, OpenType, WriteType, ReadType
  <1>2. CASE (JbdSteps \/ JkSteps \/ RemoteSteps) /\ UNCHANGED <<mailbox, updated>>
    BY <1>2, JbdType, JkType, RemoteType
  <1>3. CASE PrehSteps /\ UNCHANGED updated
    BY <1>3, PrehType
  <1>. USE DEF history, handle, far, inbox, result, driver, who, user
  <1>4. CASE Opened
    <2>1. /\ pc = "opened" /\ pc' \in {"look", "write", "read"} /\ open' \in BOOLEAN
          /\ req' = 1 /\ try' = 1
          /\ UNCHANGED <<handle, masked, alive, result, history, drv, ok, got, updated>>
      BY <1>4 DEF Opened, At, Begin, Notes
    <2>2. WorldType'
      BY <2>1 DEF TypeInv, WorldType
    <2>3. UserType'
      BY <2>1, ConstantsType DEF TypeInv, UserType, PCs, Asking, Requests
    <2>4. GotType'
      BY <2>1 DEF TypeInv, GotType, Asking
    <2>. QED
      BY <2>2, <2>3, <2>4 DEF TypeInv
  <1>5. CASE NotOpened
    BY <1>5 DEF NotOpened, At, TypeInv, WorldType, UserType, GotType, PCs, Asking
  <1>6. CASE Close
    <2>1. /\ pc' \in {"closing", "idle"} /\ updated' = ok
          /\ UNCHANGED <<masked, alive, req, result, history, drv, ok, try, got>>
      BY <1>6 DEF Close, At
    <2>2. WorldType' /\ open' \in BOOLEAN
      BY <1>6, <2>1, CloseType DEF Close
    <2>3. UserType'
      BY <2>1, <2>2 DEF TypeInv, UserType, PCs, Asking
    <2>4. GotType'
      BY <2>1 DEF TypeInv, GotType, Asking
    <2>. QED
      BY <2>2, <2>3, <2>4 DEF TypeInv
  <1>7. CASE CloseAll
    <2>1. /\ pc' = "idle" /\ req' = 1 /\ try' = 1 /\ rbuf' = <<>> /\ got' = <<>>
          /\ UNCHANGED <<masked, alive, res, history, drv, ok, updated>>
      BY <1>7 DEF CloseAll, At, Forgotten
    <2>2. WorldType' /\ open' \in BOOLEAN
      BY <1>7, <2>1, CloseType DEF CloseAll
    <2>3. UserType'
      BY <2>1, <2>2 DEF TypeInv, UserType, PCs, Asking, Requests, Buffer
    <2>4. GotType'
      BY <2>1 DEF TypeInv, GotType, Asking, Buffer, NRequests
    <2>. QED
      BY <2>2, <2>3, <2>4 DEF TypeInv
  <1>8. CASE AsksToClose /\ DiesOfPipe("close") /\ UNCHANGED <<driver, try, got, mailbox, updated>>
    <2>1. alive' = FALSE
          /\ UNCHANGED <<handle, pc, masked, req, result, history, driver, try, got, updated>>
      BY <1>8 DEF DiesOfPipe
    <2>. QED
      BY <2>1, DeadType
  <1>. QED
    BY <1>1, <1>2, <1>3, <1>4, <1>5, <1>6, <1>7, <1>8 DEF Program

LEMMA CallbackType ==
    ASSUME TypeInv, CbCopy \/ CbAdd PROVE TypeInv'
  <1>. USE ConstantsType DEF history, inbox, far, result, driver, who, user
  <1>1. /\ UNCHANGED <<kind, conn, peer, pc, user, result, history, driver, try, got, updated>>
    BY DEF CbCopy, CbAdd
  <1>2. UserType'
    BY <1>1 DEF TypeInv, UserType
  <1>3. GotType'
    BY <1>1 DEF TypeInv, GotType
  <1>4. WorldType'
    <2>1. CASE CbCopy
      <3>1. Head(line) \in Piece /\ Tail(line) \in Seq(Piece) /\ Len(Tail(line)) = Len(line) - 1
        BY <2>1, HeadTailProperties DEF TypeInv, WorldType, CbCopy
      <3>2. data' \in [1..MaxData -> Piece \cup {Void}]
        BY <2>1, <3>1 DEF TypeInv, WorldType, CbCopy
      <3>. QED
        BY <1>1, <2>1, <3>1, <3>2 DEF TypeInv, WorldType, CbCopy
    <2>2. CASE CbAdd
      BY <1>1, <2>2 DEF TypeInv, WorldType, CbAdd
    <2>. QED
      BY <2>1, <2>2
  <1>. QED
    BY <1>2, <1>3, <1>4 DEF TypeInv

LEMMA NextType == ASSUME TypeInv, [Next]_vars PROVE TypeInv'
  <1>. USE DEF history, handle, far, inbox, result, driver, who, user
  <1>1. CASE PeerCloses
    BY <1>1 DEF PeerCloses, TypeInv, WorldType, UserType, GotType
  <1>2. CASE CbCopy \/ CbAdd
    BY <1>2, CallbackType
  <1>3. CASE (Hear \/ Forget) /\ UNCHANGED updated
    <2>1. UNCHANGED <<handle, pc, user, result, history, driver, try, got, updated>>
      BY <1>3 DEF Hear, Forget
    <2>2. WorldType'
      BY <2>1 DEF TypeInv, WorldType
    <2>3. UserType'
      BY <2>1 DEF TypeInv, UserType
    <2>4. GotType'
      BY <2>1 DEF TypeInv, GotType
    <2>. QED
      BY <2>2, <2>3, <2>4 DEF TypeInv
  <1>4. CASE Start
    BY <1>4, StartType
  <1>5. CASE Program
    BY <1>5, ProgramType
  <1>6. CASE Kill
    <2>1. conn' \in {"none", "bare", "up"}
      BY <1>6 DEF Kill, Halfway, TypeInv, WorldType
    <2>2. pc' = "closing" /\ masked' = TRUE
          /\ UNCHANGED <<kind, far, inbox, alive, req, result, history, driver, try, got, updated>>
      BY <1>6 DEF Kill
    <2>3. WorldType'
      BY <2>1, <2>2 DEF TypeInv, WorldType
    <2>4. UserType'
      BY <2>2 DEF TypeInv, UserType, PCs, Asking
    <2>5. GotType'
      BY <2>2 DEF TypeInv, GotType, Asking
    <2>. QED
      BY <2>3, <2>4, <2>5 DEF TypeInv
  <1>7. CASE UNCHANGED vars
    BY <1>7 DEF vars, TypeInv, WorldType, UserType, GotType
  <1>. QED
    BY <1>1, <1>2, <1>3, <1>4, <1>5, <1>6, <1>7 DEF Next, Ended

LEMMA TypeInvariant == Spec => []TypeInv
  <1>. QED
    BY InitAnswerType, NextType, PTL DEF Spec

-----------------------------------------------------------------------------
(* preh_read's walk over the monitors.                                     *)

\* How many cells the frames before this one can hold.
Passed == Cmu * CmuCells + (IF What < 2 THEN 0 ELSE PerFrame * (What - 2))

CellsType ==
    /\ bits \in SUBSET Ids /\ missed \in BOOLEAN
    /\ cells \in Seq(1..(NCmu * CmuCells))

\* What has been written comes from the frames before this one.  Once the pack's count
\* is reached, each monitor adds one at the most.
WalkInv ==
    /\ \A i, j \in DOMAIN cells : i < j => cells[i] < cells[j]
    /\ Len(cells) < PackCells + NCmu
    /\ pc \in {"open", "opened"} => cells = <<>> /\ ~missed
    /\ pc = "look" =>
        /\ \A i \in DOMAIN cells : cells[i] <= Passed /\ cells[i] <= (Cmu + 1) * CmuCells
        /\ Len(cells) >= PackCells => Len(cells) < PackCells + Cmu

Complete == PackCells <= Len(cells) /\ \A i \in 1..PackCells : cells[i] = i

\* With no frame missing, the frames before this one have filled the first places, and
\* they were full but for the last of a monitor.
Filled ==
    /\ \A i \in DOMAIN cells : i <= PackCells => cells[i] = i
    /\ Len(cells) < PackCells =>
        Len(cells) = Passed /\ (What >= 2 => PerFrame * (What - 2) <= CmuCells)

FillInv ==
    drv = "preh" /\ kind = "can" =>
        /\ pc \notin {"idle", "closing"} => ~updated
        /\ ok => pc \in {"close", "closing", "idle"}
        /\ pc = "look" /\ ~missed => Filled
        /\ pc = "close" /\ ok /\ ~missed => Complete
        /\ pc = "closing" /\ updated /\ ~missed => Complete

LEMMA Division ==
    ASSUME NEW n \in Nat, NEW m \in Nat \ {0}
    PROVE  /\ n \div m \in Nat /\ n % m \in 0..(m - 1) /\ n = m * (n \div m) + (n % m)
           /\ \A q, r \in Nat : r < m /\ n = m * q + r => n \div m = q /\ n % m = r
           /\ \A c \in Nat : n < c * m => n \div m < c
  OBVIOUS

\* Where an id is: its monitor and what is asked of it.
LEMMA Placed ==
    ASSUME req \in Ids
    PROVE  /\ Cmu \in 0..(NCmu - 1) /\ What \in 0..(Asks - 1)
           /\ req = Cmu * Asks + What + 1
  <1>1. req - 1 \in Nat /\ Asks \in Nat \ {0} /\ NCmu \in Nat /\ req - 1 < NCmu * Asks
    BY ConstantsType DEF Ids
  <1>2. /\ Cmu \in Nat /\ What \in 0..(Asks - 1) /\ req - 1 = Asks * Cmu + What
        /\ Cmu < NCmu
    BY <1>1, Division DEF Cmu, What
  <1>3. Asks * Cmu = Cmu * Asks
    BY <1>1, <1>2
  <1>4. req \in Nat
    BY ConstantsType
  <1>. QED
    BY <1>1, <1>2, <1>3, <1>4

\* The id before this place of this monitor.
LEMMA PlaceOf ==
    ASSUME NEW q \in 0..(NCmu - 1), NEW w \in 0..(Asks - 1), req' = q * Asks + w + 1
    PROVE  Cmu' = q /\ What' = w
  <1>1. Asks \in Nat \ {0} /\ q \in Nat /\ w \in Nat /\ w < Asks /\ NCmu \in Nat
    BY ConstantsType
  <1>2. q * Asks \in Nat /\ q * Asks = Asks * q
    BY <1>1
  <1>3. req' - 1 \in Nat /\ req' - 1 = Asks * q + w
    BY <1>1, <1>2
  <1>4. (req' - 1) \div Asks = q /\ (req' - 1) % Asks = w
    BY <1>1, <1>3, Division
  <1>5. Asks' = Asks
    BY DEF Asks
  <1>. QED
    BY <1>4, <1>5 DEF Cmu, What

\* From one id to the next, or to the next monitor, or out.
LEMMA Moves ==
    ASSUME req \in Ids, NEW last \in BOOLEAN, NEW i,
           i = IF last THEN NextCmu ELSE req + 1, GoTo(i)
    PROVE  \/ /\ ~last /\ What < Asks - 1
              /\ pc' = "look" /\ ok' = ok /\ req' \in Ids /\ Cmu' = Cmu /\ What' = What + 1
           \/ /\ last \/ What = Asks - 1
              /\ Cmu + 1 < NCmu
              /\ pc' = "look" /\ ok' = ok /\ req' \in Ids /\ Cmu' = Cmu + 1 /\ What' = 0
           \/ /\ last \/ What = Asks - 1
              /\ Cmu + 1 = NCmu
              /\ pc' = "close" /\ ok' = TRUE
  <1>. DEFINE q == Cmu
              w == What
  <1>1. /\ q \in 0..(NCmu - 1) /\ w \in 0..(Asks - 1) /\ req = q * Asks + w + 1
        /\ Asks \in Nat /\ Asks > 2 /\ NCmu \in Nat
    BY Placed, ConstantsType
  <1>2. NextCmu = (q + 1) * Asks + 1
    BY DEF NextCmu
  <1>. HIDE DEF q, w
  <1>3. (q + 1) * Asks = q * Asks + Asks /\ q * Asks \in Nat
    BY <1>1
  <1>4. CASE ~last /\ w < Asks - 1
    <2>1. i = q * Asks + (w + 1) + 1 /\ w + 1 \in 0..(Asks - 1)
      BY <1>1, <1>3, <1>4
    <2>2. q * Asks + Asks <= NCmu * Asks
      <3>1. (q + 1) * Asks <= NCmu * Asks
        BY <1>1
      <3>. QED
        BY <1>3, <3>1
    <2>3. i \in Ids
      BY <1>1, <1>3, <2>1, <2>2 DEF Ids
    <2>4. pc' = "look" /\ req' = i /\ ok' = ok
      BY <2>3 DEF GoTo
    <2>5. Cmu' = q /\ What' = w + 1
      BY <1>1, <2>1, <2>4, PlaceOf
    <2>. QED
      BY <1>4, <2>3, <2>4, <2>5 DEF q, w
  <1>5. CASE last \/ w = Asks - 1
    <2>1. i = (q + 1) * Asks + 0 + 1
      BY <1>1, <1>2, <1>3, <1>5
    <2>2. CASE q + 1 < NCmu
      <3>1. (q + 1) * Asks + Asks <= NCmu * Asks
        <4>1. (q + 2) * Asks <= NCmu * Asks
          BY <1>1, <2>2
        <4>2. (q + 2) * Asks = (q + 1) * Asks + Asks
          BY <1>1
        <4>. QED
          BY <4>1, <4>2
      <3>2. i \in Ids
        BY <1>1, <1>3, <2>1, <3>1 DEF Ids
      <3>3. pc' = "look" /\ req' = i /\ ok' = ok
        BY <3>2 DEF GoTo
      <3>4. q + 1 \in 0..(NCmu - 1) /\ 0 \in 0..(Asks - 1)
        BY <1>1, <2>2
      <3>5. Cmu' = q + 1 /\ What' = 0
        BY <2>1, <3>3, <3>4, PlaceOf
      <3>. QED
        BY <1>5, <2>2, <3>2, <3>3, <3>5 DEF q, w
    <2>3. CASE q + 1 = NCmu
      <3>1. i \notin Ids
        BY <1>1, <1>3, <2>1, <2>3 DEF Ids
      <3>2. pc' = "close" /\ ok' = TRUE
        BY <3>1 DEF GoTo
      <3>. QED
        BY <1>5, <2>3, <3>2 DEF q, w
    <2>4. q + 1 < NCmu \/ q + 1 = NCmu
      BY <1>1
    <2>. QED
      BY <2>2, <2>3, <2>4
  <1>6. w < Asks - 1 \/ w = Asks - 1
    BY <1>1
  <1>. QED
    BY <1>4, <1>5, <1>6

\* How many cells a frame adds.
LEMMA AddedBounds ==
    ASSUME CellsType, req \in Ids, What >= 2, NEW v \in 0..Wired
    PROVE  /\ Passed \in Nat /\ Passed = Cmu * CmuCells + PerFrame * (What - 2)
           /\ Cmu * CmuCells \in Nat /\ (Cmu + 1) * CmuCells = Cmu * CmuCells + CmuCells
           /\ (Cmu + 1) * CmuCells <= NCmu * CmuCells
           /\ First = Passed + 1
           /\ Taken(v) \in 0..PerFrame
           /\ Passed + Taken(v) <= (Cmu + 1) * CmuCells \/ Taken(v) = 0
           /\ Len(cells) < PackCells => Len(cells) + Taken(v) <= PackCells
           /\ Len(cells) >= PackCells => Taken(v) <= 1
           /\ ~LastFrame(v) => /\ Taken(v) = PerFrame /\ Len(cells) + PerFrame < PackCells
                               /\ PerFrame * (What - 1) <= CmuCells
           /\ Len(cells) + Taken(v) < PackCells =>
                \/ Taken(v) = PerFrame /\ PerFrame * (What - 1) <= CmuCells /\ ~LastFrame(v)
                \/ v < PerFrame /\ LastFrame(v) /\ Taken(v) = v
           /\ v = Wired /\ v < PerFrame /\ PerFrame * (What - 2) <= CmuCells =>
                Passed + v = (Cmu + 1) * CmuCells
  <1>. DEFINE q == Cmu
              w == What
              n == Len(cells)
  <1>1. /\ q \in 0..(NCmu - 1) /\ w \in 2..(Asks - 1) /\ n \in Nat
        /\ CmuCells \in Nat \ {0} /\ PackCells \in Nat \ {0} /\ NCmu \in Nat /\ Asks \in Nat
    BY Placed, ConstantsType, PrehAssumption DEF CellsType
  <1>2. /\ Passed = q * CmuCells + 3 * (w - 2) /\ First = q * CmuCells + 3 * (w - 2) + 1
        /\ CmuCells > 3 * (w - 2) =>
             Wired = IF 3 < CmuCells - 3 * (w - 2) THEN 3 ELSE CmuCells - 3 * (w - 2)
        /\ ~(CmuCells > 3 * (w - 2)) => Wired = 0
    BY <1>1 DEF Passed, First, Wired, Least, PerFrame
  <1>a. v \in Nat /\ v <= Wired /\ Wired \in 0..3
    BY <1>1, <1>2
  <1>3. /\ n < PackCells => Taken(v) = IF v < PackCells - n THEN v ELSE PackCells - n
        /\ n >= PackCells => Taken(v) = IF v < 1 THEN v ELSE 1
        /\ LastFrame(v) <=> v < 3 \/ n + Taken(v) >= PackCells
    BY <1>1 DEF Taken, LastFrame, Least, PerFrame
  <1>4. q * CmuCells \in Nat /\ (q + 1) * CmuCells = q * CmuCells + CmuCells
    BY <1>1
  <1>5. (q + 1) * CmuCells <= NCmu * CmuCells
    BY <1>1
  <1>. HIDE DEF q, w, n
  <1>. DEFINE C == CmuCells
              k == Taken(v)
  <1>6. /\ n < PackCells => k = IF v < PackCells - n THEN v ELSE PackCells - n
        /\ n >= PackCells => k = IF v < 1 THEN v ELSE 1
        /\ LastFrame(v) <=> v < 3 \/ n + k >= PackCells
    BY <1>3
  <1>. HIDE DEF k
  <1>7. k \in 0..3 /\ k <= v
    BY <1>1, <1>6, <1>a
  <1>8. v > 0 => Passed + v <= (q + 1) * C
    BY <1>1, <1>2, <1>4, <1>a
  <1>9. Passed + k <= (q + 1) * C \/ k = 0
    BY <1>1, <1>2, <1>4, <1>7, <1>8, <1>a
  <1>10. /\ n < PackCells => n + k <= PackCells
         /\ n >= PackCells => k <= 1
    BY <1>1, <1>6, <1>a
  <1>11. v >= 3 => v = 3 /\ 3 * (w - 1) <= C
    BY <1>1, <1>2, <1>a
  <1>12. ~LastFrame(v) => k = 3 /\ n + 3 < PackCells /\ 3 * (w - 1) <= C
    BY <1>1, <1>6, <1>11, <1>a
  <1>13. n + k < PackCells => \/ k = 3 /\ 3 * (w - 1) <= C /\ ~LastFrame(v)
                              \/ v < 3 /\ LastFrame(v) /\ k = v
    <2>1. CASE v < 3
      BY <1>1, <1>6, <1>a, <2>1
    <2>2. CASE v >= 3
      <3>1. v = 3 /\ 3 * (w - 1) <= C
        BY <1>11, <2>2
      <3>2. n + k < PackCells => k = 3
        BY <1>1, <1>6, <3>1
      <3>3. LastFrame(v) <=> n + k >= PackCells
        BY <1>6, <3>1
      <3>. QED
        BY <1>1, <1>7, <3>1, <3>2, <3>3
    <2>. QED
      BY <1>a, <2>1, <2>2
  <1>14. v = Wired /\ v < 3 /\ 3 * (w - 2) <= C => Passed + v = (q + 1) * C
    BY <1>1, <1>2, <1>4, <1>a
  <1>. QED
    BY <1>1, <1>2, <1>4, <1>5, <1>7, <1>9, <1>10, <1>12, <1>13, <1>14 DEF q, w, n, k, PerFrame

LEMMA CellsWritten ==
    ASSUME CellsType, req \in Ids, What >= 2, NEW v \in 0..Wired, TakeCells(v)
    PROVE  /\ cells' \in Seq(1..(NCmu * CmuCells)) /\ Len(cells') = Len(cells) + Taken(v)
           /\ \A i \in 1..Len(cells) : cells'[i] = cells[i]
           /\ \A i \in (Len(cells) + 1)..Len(cells') : cells'[i] = Passed + (i - Len(cells))
  <1>. DEFINE k == Taken(v)
  <1>1. /\ k \in Nat /\ Passed \in Nat /\ First = Passed + 1
        /\ Passed + k <= NCmu * CmuCells \/ k = 0
    BY AddedBounds, PrehAssumption DEF PerFrame
  <1>. DEFINE new == [a \in 1..k |-> First + a - 1]
  <1>2. cells' = cells \o new
    BY DEF TakeCells
  <1>. HIDE DEF k
  <1>3. NCmu * CmuCells \in Nat
    BY PrehAssumption
  <1>4. \A a \in 1..k : First + a - 1 \in 1..(NCmu * CmuCells) /\ First + a - 1 = Passed + a
    BY <1>1, <1>3
  <1>5. new \in Seq(1..(NCmu * CmuCells)) /\ Len(new) = k
    <2>1. new \in [1..k -> 1..(NCmu * CmuCells)]
      BY <1>4
    <2>. HIDE DEF new
    <2>2. new \in Seq(1..(NCmu * CmuCells))
      BY <1>1, <2>1, SeqDef
    <2>3. DOMAIN new = 1..k
      BY <2>1
    <2>. QED
      BY <1>1, <2>2, <2>3, LenProperties
  <1>6. \A a \in 1..k : new[a] = Passed + a
    BY <1>4
  <1>. HIDE DEF new
  <1>7. cells \in Seq(1..(NCmu * CmuCells)) /\ Len(cells) \in Nat
    BY DEF CellsType
  <1>8. /\ cells' \in Seq(1..(NCmu * CmuCells)) /\ Len(cells') = Len(cells) + k
        /\ \A i \in 1..(Len(cells) + k) :
              cells'[i] = IF i <= Len(cells) THEN cells[i] ELSE new[i - Len(cells)]
    BY <1>2, <1>5, <1>7, ConcatProperties
  <1>9. \A i \in 1..Len(cells) : cells'[i] = cells[i]
    BY <1>1, <1>7, <1>8
  <1>10. \A i \in (Len(cells) + 1)..(Len(cells) + k) : cells'[i] = Passed + (i - Len(cells))
    <2>. TAKE i \in (Len(cells) + 1)..(Len(cells) + k)
    <2>1. i \in 1..(Len(cells) + k) /\ ~(i <= Len(cells)) /\ i - Len(cells) \in 1..k
      BY <1>1, <1>7
    <2>. QED
      BY <1>6, <1>8, <2>1
  <1>. QED
    BY <1>8, <1>9, <1>10 DEF k

LEMMA TakeMoves ==
    ASSUME req \in Ids, NEW v, TakeCells(v)
    PROVE  \/ /\ ~LastFrame(v)
              /\ pc' = "look" /\ ok' = ok /\ Cmu' = Cmu /\ What' = What + 1
           \/ /\ LastFrame(v) \/ What = Asks - 1
              /\ \/ pc' = "look" /\ ok' = ok /\ Cmu + 1 < NCmu /\ Cmu' = Cmu + 1 /\ What' = 0
                 \/ pc' = "close" /\ ok' = TRUE /\ Cmu + 1 = NCmu
  <1>1. GoTo(IF LastFrame(v) THEN NextCmu ELSE req + 1) /\ LastFrame(v) \in BOOLEAN
    BY DEF TakeCells, LastFrame
  <1>. QED
    BY <1>1, Moves

\* Where a step of preh_read goes.
LEMMA PrehMoves ==
    ASSUME TypeInv, PrehSteps
    PROVE  /\ pc = "look" /\ req \in Ids
           /\ \/ Wait /\ pc' = "look" /\ Cmu' = Cmu /\ What' = What
              \/ NoState /\ pc' = "close" /\ ok' = FALSE
              \/ /\ FoundOther \/ PassOver \/ FoundCells
                 /\ pc' = "look" /\ ok' = ok /\ Cmu' = Cmu /\ What' = What + 1
              \/ /\ PassOver \/ FoundCells
                 /\ PassOver => What = Asks - 1
                 /\ \/ pc' = "look" /\ ok' = ok /\ Cmu + 1 < NCmu /\ Cmu' = Cmu + 1 /\ What' = 0
                    \/ pc' = "close" /\ ok' = TRUE /\ Cmu + 1 = NCmu
  <1>1. pc = "look" /\ req \in Ids
    BY PrehStep DEF TypeInv, UserType
  <1>2. Cmu \in 0..(NCmu - 1) /\ What \in 0..(Asks - 1) /\ Asks \in Nat /\ Asks > 2
    BY <1>1, Placed, ConstantsType
  <1>3. CASE Wait
    <2>1. pc' = pc /\ req' = req
      BY <1>3 DEF Wait, user
    <2>2. Cmu' = Cmu /\ What' = What
      BY <2>1 DEF Cmu, What, Asks
    <2>. QED
      BY <1>1, <1>3, <2>1, <2>2
  <1>4. CASE NoState
    BY <1>1, <1>4 DEF NoState, Return
  <1>5. CASE FoundOther
    <2>1. PICK last \in BOOLEAN : last = FALSE
      OBVIOUS
    <2>2. GoTo(req + 1) /\ req + 1 = IF last THEN NextCmu ELSE req + 1
      BY <1>5, <2>1 DEF FoundOther
    <2>3. What # Asks - 1
      BY <1>2, <1>5 DEF FoundOther
    <2>4. pc' = "look" /\ ok' = ok /\ Cmu' = Cmu /\ What' = What + 1
      BY <1>1, <2>1, <2>2, <2>3, Moves
    <2>. QED
      BY <1>1, <1>5, <2>4
  <1>6. CASE FoundCells
    <2>1. PICK v \in 0..Wired : TakeCells(v)
      BY <1>6 DEF FoundCells
    <2>2. ~PassOver
      BY <2>1 DEF TakeCells, PassOver
    <2>. QED
      BY <1>1, <1>6, <2>1, <2>2, TakeMoves
  <1>7. CASE PassOver
    <2>1. PICK last \in BOOLEAN : last <=> What = Asks - 1
      OBVIOUS
    <2>. DEFINE i == IF last THEN NextCmu ELSE req + 1
    <2>2. GoTo(i)
      BY <1>7, <2>1 DEF PassOver
    <2>3. ~FoundCells
      BY <1>7 DEF FoundCells, TakeCells, PassOver
    <2>4. i = IF last THEN NextCmu ELSE req + 1
      OBVIOUS
    <2>. HIDE DEF i
    <2>5. \/ ~last /\ pc' = "look" /\ ok' = ok /\ Cmu' = Cmu /\ What' = What + 1
          \/ /\ last \/ What = Asks - 1
             /\ \/ pc' = "look" /\ ok' = ok /\ Cmu + 1 < NCmu /\ Cmu' = Cmu + 1 /\ What' = 0
                \/ pc' = "close" /\ ok' = TRUE /\ Cmu + 1 = NCmu
      BY <1>1, <2>2, <2>4, Moves
    <2>. QED
      BY <1>1, <1>7, <2>1, <2>3, <2>5
  <1>. QED
    BY <1>3, <1>4, <1>5, <1>6, <1>7 DEF PrehSteps

LEMMA WalkNumbers ==
    ASSUME req \in Ids
    PROVE  /\ Cmu \in 0..(NCmu - 1) /\ What \in 0..(Asks - 1) /\ Asks \in Nat /\ NCmu \in Nat
           /\ CmuCells \in Nat \ {0} /\ PackCells \in Nat \ {0} /\ Asks > 2
           /\ Cmu * CmuCells \in Nat /\ (Cmu + 1) * CmuCells = Cmu * CmuCells + CmuCells
           /\ (Cmu + 1 + 1) * CmuCells = Cmu * CmuCells + CmuCells + CmuCells
           /\ NCmu * CmuCells \in Nat
  <1>1. /\ Cmu \in 0..(NCmu - 1) /\ What \in 0..(Asks - 1) /\ Asks \in Nat /\ NCmu \in Nat
        /\ CmuCells \in Nat \ {0} /\ PackCells \in Nat \ {0} /\ Asks > 2
    BY Placed, ConstantsType, PrehAssumption
  <1>. QED
    BY <1>1

\* A step that writes no cell.
LEMMA WalkPast ==
    ASSUME TypeInv, CellsType, WalkInv, PrehSteps, ~FoundCells
    PROVE  CellsType' /\ WalkInv'
  <1>1. /\ pc = "look" /\ req \in Ids /\ cells \in Seq(1..(NCmu * CmuCells))
        /\ Len(cells) \in Nat /\ bits \in SUBSET Ids /\ missed \in BOOLEAN
    BY PrehMoves DEF CellsType
  <1>2. bits' = bits /\ cells' = cells /\ missed' \in BOOLEAN /\ pc' \in {"look", "close"}
    BY <1>1, PrehMoves DEF PrehSteps, Wait, FoundOther, NoState, PassOver, mailbox
  <1>3. CellsType'
    BY <1>1, <1>2 DEF CellsType, Ids, Asks
  <1>0. /\ Cmu \in 0..(NCmu - 1) /\ What \in 0..(Asks - 1) /\ Asks \in Nat /\ NCmu \in Nat
        /\ CmuCells \in Nat \ {0} /\ PackCells \in Nat \ {0} /\ Asks > 2
        /\ Cmu * CmuCells \in Nat /\ (Cmu + 1) * CmuCells = Cmu * CmuCells + CmuCells
        /\ (Cmu + 1 + 1) * CmuCells = Cmu * CmuCells + CmuCells + CmuCells
        /\ NCmu * CmuCells \in Nat
    BY <1>1, WalkNumbers
  <1>4. \A i \in DOMAIN cells : cells[i] \in Nat
    BY <1>0, <1>1
  <1>5. ASSUME pc' = "look"
        PROVE  \/ Cmu' = Cmu /\ What' = What
               \/ Cmu' = Cmu /\ What' = What + 1
               \/ Cmu' = Cmu + 1 /\ What' = 0
    BY <1>5, PrehMoves
  <1>6. ASSUME pc' = "look"
        PROVE  /\ \A i \in DOMAIN cells : cells[i] <= Passed' /\ cells[i] <= (Cmu' + 1) * CmuCells
               /\ Len(cells) >= PackCells => Len(cells) < PackCells + Cmu'
    <2>1. /\ \A i \in DOMAIN cells : cells[i] <= Passed /\ cells[i] <= (Cmu + 1) * CmuCells
          /\ Len(cells) >= PackCells => Len(cells) < PackCells + Cmu
      BY <1>1 DEF WalkInv
    <2>2. CASE Cmu' = Cmu /\ What' = What
      BY <2>1, <2>2 DEF Passed
    <2>3. CASE Cmu' = Cmu /\ What' = What + 1
      <3>1. Passed \in Nat /\ Passed' \in Nat /\ Passed <= Passed'
        BY <1>0, <2>3 DEF Passed, PerFrame
      <3>. QED
        BY <1>4, <2>1, <2>3, <3>1
    <2>4. CASE Cmu' = Cmu + 1 /\ What' = 0
      <3>1. Passed' = (Cmu + 1) * CmuCells
        BY <1>0, <2>4 DEF Passed
      <3>2. (Cmu + 1) * CmuCells \in Nat /\ (Cmu + 1) * CmuCells <= (Cmu + 1 + 1) * CmuCells
            /\ (Cmu + 1 + 1) * CmuCells \in Nat
        BY <1>0
      <3>3. Len(cells) >= PackCells => Len(cells) < PackCells + Cmu'
        BY <1>0, <1>1, <2>1, <2>4
      <3>. QED
        BY <1>4, <2>1, <2>4, <3>1, <3>2, <3>3
    <2>. QED
      BY <1>5, <1>6, <2>2, <2>3, <2>4
  <1>. QED
    BY <1>2, <1>3, <1>6 DEF WalkInv

LEMMA WalkWrites ==
    ASSUME TypeInv, CellsType, WalkInv, NEW v \in 0..Wired, TakeCells(v)
    PROVE  CellsType' /\ WalkInv'
  <1>. DEFINE k == Taken(v)
  <1>1. /\ pc = "look" /\ req \in Ids /\ cells \in Seq(1..(NCmu * CmuCells)) /\ What >= 2
        /\ Len(cells) \in Nat /\ bits' = bits /\ missed' \in BOOLEAN
    BY DEF CellsType, TakeCells, Local, TypeInv, UserType
  <1>2. /\ cells' \in Seq(1..(NCmu * CmuCells)) /\ Len(cells') = Len(cells) + k
        /\ \A i \in 1..Len(cells) : cells'[i] = cells[i]
        /\ \A i \in (Len(cells) + 1)..Len(cells') : cells'[i] = Passed + (i - Len(cells))
    BY <1>1, CellsWritten
  <1>3. CellsType'
    BY <1>1, <1>2 DEF CellsType, Ids, Asks
  <1>. DEFINE n == Len(cells)
              top == (Cmu + 1) * CmuCells
  <1>0. /\ Cmu \in 0..(NCmu - 1) /\ What \in 0..(Asks - 1) /\ Asks \in Nat /\ NCmu \in Nat
        /\ CmuCells \in Nat \ {0} /\ PackCells \in Nat \ {0} /\ Asks > 2
        /\ Cmu * CmuCells \in Nat /\ (Cmu + 1) * CmuCells = Cmu * CmuCells + CmuCells
        /\ (Cmu + 1 + 1) * CmuCells = Cmu * CmuCells + CmuCells + CmuCells
        /\ NCmu * CmuCells \in Nat
    BY <1>1, WalkNumbers
  <1>p. /\ Passed \in Nat /\ Passed = Cmu * CmuCells + PerFrame * (What - 2)
        /\ k \in 0..PerFrame
        /\ Passed + k <= (Cmu + 1) * CmuCells \/ k = 0
        /\ Len(cells) < PackCells => Len(cells) + k <= PackCells
        /\ Len(cells) >= PackCells => k <= 1
        /\ ~LastFrame(v) => /\ k = PerFrame /\ Len(cells) + PerFrame < PackCells
        /\ Len(cells) + k < PackCells => k = PerFrame \/ LastFrame(v)
    BY <1>1, AddedBounds
  <1>4. /\ k \in 0..3 /\ Passed \in Nat /\ Passed = Cmu * CmuCells + 3 * (What - 2)
        /\ Passed + k <= top \/ k = 0
        /\ top \in Nat /\ n \in Nat /\ PackCells \in Nat \ {0}
        /\ n < PackCells => n + k <= PackCells
        /\ n >= PackCells => k <= 1
        /\ ~LastFrame(v) => k = 3 /\ n + 3 < PackCells
        /\ n + k < PackCells \/ LastFrame(v)
    BY <1>0, <1>1, <1>p DEF PerFrame
  <1>5. \A i \in 1..n : cells[i] \in Nat /\ cells[i] <= Passed /\ cells[i] <= top
    BY <1>0, <1>1 DEF WalkInv
  <1>6. n >= PackCells => n < PackCells + Cmu
    BY <1>1 DEF WalkInv
  <1>7. \A i \in 1..(n + k) :
            \/ i \in 1..n /\ cells'[i] = cells[i]
            \/ i \in (n + 1)..(n + k) /\ cells'[i] = Passed + (i - n)
    <2>1. n \in Nat /\ k \in 0..3 /\ Len(cells') = n + k
      BY <1>2, <1>4
    <2>2. \A i \in 1..(n + k) : i \in 1..n \/ i \in (n + 1)..(n + k)
      BY <2>1
    <2>3. /\ \A i \in 1..n : cells'[i] = cells[i]
          /\ \A i \in (n + 1)..(n + k) : cells'[i] = Passed + (i - n)
      BY <1>2
    <2>. HIDE DEF n
    <2>4. TAKE i \in 1..(n + k)
    <2>5. i \in 1..n \/ i \in (n + 1)..(n + k)
      BY <2>2
    <2>. QED
      BY <2>3, <2>5
  <1>. HIDE DEF n, top, k
  <1>8. \A i \in 1..(n + k) : cells'[i] \in Nat /\ cells'[i] <= Passed + k /\ cells'[i] <= top
    BY <1>4, <1>5, <1>7
  <1>9. DOMAIN cells' = 1..(n + k) /\ DOMAIN cells = 1..n
    BY <1>1, <1>2 DEF n
  <1>10. \A i, j \in 1..(n + k) : i < j => cells'[i] < cells'[j]
    <2>. SUFFICES ASSUME NEW i \in 1..(n + k), NEW j \in 1..(n + k), i < j
                  PROVE  cells'[i] < cells'[j]
      OBVIOUS
    <2>1. CASE j \in 1..n
      <3>1. i \in 1..n /\ cells'[i] = cells[i] /\ cells'[j] = cells[j]
        BY <1>4, <1>7, <2>1
      <3>. QED
        BY <1>9, <2>1, <3>1 DEF WalkInv
    <2>2. CASE j \in (n + 1)..(n + k)
      <3>1. cells'[j] = Passed + (j - n)
        BY <1>4, <1>7, <2>2
      <3>. QED
        BY <1>4, <1>5, <1>7, <2>2, <3>1
    <2>. QED
      BY <1>4, <2>1, <2>2
  <1>11. Cmu \in Nat /\ NCmu \in Nat /\ Cmu < NCmu
    BY <1>0
  <1>12. n + k < PackCells + Cmu + 1
    BY <1>4, <1>6, <1>11
  <1>13. n + k < PackCells + NCmu
    BY <1>4, <1>11, <1>12
  <1>14. CASE pc' = "close"
    BY <1>2, <1>3, <1>9, <1>10, <1>13, <1>14 DEF WalkInv, n
  <1>15. CASE ~LastFrame(v) /\ pc' = "look" /\ Cmu' = Cmu /\ What' = What + 1
    <2>1. Passed' = Passed + k
      BY <1>0, <1>1, <1>4, <1>15 DEF Passed, PerFrame
    <2>2. (Cmu' + 1) * CmuCells = top
      BY <1>15 DEF top
    <2>3. ~(n + k >= PackCells)
      BY <1>4, <1>15
    <2>. QED
      BY <1>2, <1>3, <1>8, <1>9, <1>10, <1>13, <1>15, <2>1, <2>2, <2>3 DEF WalkInv, n
  <1>16. CASE pc' = "look" /\ Cmu' = Cmu + 1 /\ What' = 0
    <2>1. Passed' = top
      BY <1>0, <1>16 DEF Passed, top
    <2>2. (Cmu' + 1) * CmuCells \in Nat /\ top <= (Cmu' + 1) * CmuCells
      BY <1>0, <1>16 DEF top
    <2>3. \A i \in 1..(n + k) : cells'[i] <= (Cmu' + 1) * CmuCells
      BY <1>4, <1>8, <2>2
    <2>4. n + k < PackCells + Cmu'
      BY <1>4, <1>11, <1>12, <1>16
    <2>. QED
      BY <1>2, <1>3, <1>8, <1>9, <1>10, <1>13, <1>16, <2>1, <2>3, <2>4 DEF WalkInv, n
  <1>. QED
    BY <1>1, <1>14, <1>15, <1>16, TakeMoves

LEMMA WalkInit == Init => CellsType /\ WalkInv
  <1>. SUFFICES ASSUME Init PROVE CellsType /\ WalkInv
    OBVIOUS
  <1>1. NCmu * CmuCells \in Nat /\ PackCells \in Nat \ {0} /\ NCmu \in Nat
    BY PrehAssumption
  <1>2. pc = "idle" /\ cells = <<>> /\ bits = {} /\ missed = FALSE
    BY DEF Init
  <1>3. cells \in Seq(1..(NCmu * CmuCells)) /\ DOMAIN cells = {} /\ Len(cells) = 0
    BY <1>2
  <1>. QED
    <2>1. CellsType
      BY <1>2, <1>3 DEF CellsType
    <2>2. WalkInv
      BY <1>1, <1>2, <1>3 DEF WalkInv
    <2>. QED
      BY <2>1, <2>2

\* A step outside of the walk.
LEMMA WalkElsewhere ==
    ASSUME CellsType, WalkInv, pc' # "look",
           \/ UNCHANGED mailbox /\ (pc' \in {"open", "opened"} => pc = "open")
           \/ cells' = <<>> /\ missed' = FALSE /\ bits' = bits
    PROVE  CellsType' /\ WalkInv'
  <1>1. NCmu * CmuCells \in Nat /\ PackCells \in Nat \ {0} /\ NCmu \in Nat
    BY PrehAssumption
  <1>2. CASE UNCHANGED mailbox /\ (pc' \in {"open", "opened"} => pc = "open")
    BY <1>2 DEF CellsType, WalkInv, mailbox, Ids, Asks
  <1>3. CASE cells' = <<>> /\ missed' = FALSE /\ bits' = bits
    <2>1. cells' \in Seq(1..(NCmu * CmuCells)) /\ DOMAIN cells' = {} /\ Len(cells') = 0
      BY <1>3
    <2>2. CellsType'
      BY <1>3, <2>1 DEF CellsType, Ids, Asks
    <2>3. WalkInv'
      BY <1>1, <1>3, <2>1 DEF WalkInv
    <2>. QED
      BY <2>2, <2>3
  <1>. QED
    BY <1>2, <1>3

LEMMA WalkStays ==
    ASSUME CellsType, WalkInv, UNCHANGED <<pc, req, cells, missed>>, bits' \in SUBSET Ids
    PROVE  CellsType' /\ WalkInv'
  <1>1. Cmu' = Cmu /\ What' = What /\ Ids' = Ids
    BY DEF Cmu, What, Ids, Asks
  <1>2. Passed' = Passed
    BY <1>1 DEF Passed
  <1>. QED
    BY <1>1, <1>2 DEF CellsType, WalkInv

LEMMA WalkProgram ==
    ASSUME TypeInv, CellsType, WalkInv, Program PROVE CellsType' /\ WalkInv'
  <1>1. CASE (Open \/ Write \/ Read) /\ UNCHANGED <<driver, try, got, mailbox, updated>>
    <2>1. pc' # "look" /\ (pc' \in {"open", "opened"} => pc = "open")
      BY <1>1, TransportStep
    <2>. QED
      BY <1>1, <2>1, WalkElsewhere
  <1>2. CASE (JbdSteps \/ JkSteps \/ RemoteSteps) /\ UNCHANGED <<mailbox, updated>>
    <2>1. pc' \notin {"look", "open", "opened"}
      BY <1>2, JbdStep, JkStep, RemoteStep DEF Begin, Notes
    <2>. QED
      BY <1>2, <2>1, WalkElsewhere
  <1>3. CASE PrehSteps /\ UNCHANGED updated
    BY <1>3, WalkPast, WalkWrites DEF FoundCells
  <1>4. CASE Opened
    <2>1. /\ UNCHANGED mailbox /\ pc = "opened" /\ pc' = Begin /\ req' = 1
      BY <1>4 DEF Opened, At
    <2>2. cells = <<>> /\ ~missed
      BY <2>1 DEF WalkInv
    <2>3. CASE pc' # "look"
      BY <2>1, <2>3, WalkElsewhere DEF Begin
    <2>4. CASE pc' = "look"
      <3>1. NCmu * CmuCells \in Nat /\ PackCells \in Nat \ {0} /\ NCmu \in Nat \ {0}
        BY PrehAssumption
      <3>2. CellsType'
        BY <2>1 DEF CellsType, mailbox, Ids, Asks
      <3>. QED
        BY <2>1, <2>2, <2>4, <3>1, <3>2 DEF WalkInv, mailbox
    <2>. QED
      BY <2>3, <2>4
  <1>5. CASE NotOpened \/ Close
    <2>1. pc' \in {"closing", "idle"} /\ UNCHANGED mailbox
      BY <1>5 DEF NotOpened, Close, At
    <2>. QED
      BY <2>1, WalkElsewhere
  <1>6. CASE CloseAll
    <2>1. pc' = "idle" /\ cells' = <<>> /\ missed' = FALSE /\ bits' = bits
      BY <1>6 DEF CloseAll, At, Forgotten
    <2>. QED
      BY <2>1, WalkElsewhere
  <1>7. CASE AsksToClose /\ DiesOfPipe("close") /\ UNCHANGED <<driver, try, got, mailbox, updated>>
    <2>1. pc = "close" /\ pc' = pc /\ UNCHANGED mailbox
      BY <1>7 DEF DiesOfPipe
    <2>. QED
      BY <2>1, WalkElsewhere
  <1>. QED
    BY <1>1, <1>2, <1>3, <1>4, <1>5, <1>6, <1>7 DEF Program

LEMMA WalkStep ==
    ASSUME TypeInv, CellsType, WalkInv, [Next]_vars PROVE CellsType' /\ WalkInv'
  <1>1. CASE PeerCloses \/ CbCopy \/ CbAdd \/ UNCHANGED vars
    <2>1. UNCHANGED <<pc, req, cells, missed, bits>>
      BY <1>1 DEF PeerCloses, CbCopy, CbAdd, vars, user, mailbox
    <2>. QED
      BY <2>1, WalkStays DEF CellsType
  <1>2. CASE Hear \/ Forget
    <2>1. UNCHANGED <<pc, req, cells, missed>>
      BY <1>2 DEF Hear, Forget, user
    <2>2. bits' \in SUBSET Ids
      BY <1>2 DEF Hear, Forget, CellsType
    <2>. QED
      BY <2>1, <2>2, WalkStays
  <1>3. CASE Start
    <2>1. pc' = "open" /\ cells' = <<>> /\ missed' = FALSE /\ bits' = bits
      BY <1>3 DEF Start, At
    <2>. QED
      BY <2>1, WalkElsewhere
  <1>4. CASE Program
    BY <1>4, WalkProgram
  <1>5. CASE Kill
    <2>1. pc' = "closing" /\ UNCHANGED mailbox
      BY <1>5 DEF Kill
    <2>. QED
      BY <2>1, WalkElsewhere
  <1>. QED
    BY <1>1, <1>2, <1>3, <1>4, <1>5 DEF Next, Ended

LEMMA WalkInvariant == Spec => [](TypeInv /\ CellsType /\ WalkInv)
  <1>. QED
    BY InitAnswerType, NextType, WalkInit, WalkStep, PTL DEF Spec

\* The state of an update is of its type: the pieces on the line and in the buffers, the
\* requests and ids, the answers taken, and the cells, whose numbers are among those of
\* the configured monitors (jbd.c, jk.c, preh.c, si.c, ip.c, serial.c, bt.c, can.c,
\* can_ip.c).
THEOREM SessionTypeCorrect == Spec => []SessionTypeOK
  <1>1. TypeInv /\ CellsType => SessionTypeOK
    <2>. SUFFICES ASSUME TypeInv, CellsType PROVE SessionTypeOK
      OBVIOUS
    <2>1. \A i \in DOMAIN rbuf : rbuf[i] \in Piece \cup {Void}
      BY DEF TypeInv, UserType, Buffer
    <2>2. \A i \in DOMAIN cells : cells[i] \in 1..(NCmu * CmuCells)
      <3>1. cells \in [1..Len(cells) -> 1..(NCmu * CmuCells)] /\ DOMAIN cells = 1..Len(cells)
        BY LenProperties DEF CellsType
      <3>. QED
        BY <3>1
    <2>. QED
      BY <2>1, <2>2 DEF TypeInv, WorldType, UserType, GotType, CellsType, SessionTypeOK
  <1>. QED
    BY <1>1, WalkInvariant, PTL

\* preh_read writes the cells of an update in the order of the monitors, none twice; and
\* past the pack's count at most one for each monitor (preh.c:255,262,269), whatever
\* frames are missing and however many cells a monitor has.
THEOREM CellsInOrder == Spec => []CellsAscend
  <1>1. WalkInv => CellsAscend
    BY DEF WalkInv, CellsAscend
  <1>. QED
    BY <1>1, WalkInvariant, PTL

-----------------------------------------------------------------------------
(* Every cell of a pack whose monitors have as many cells as it, in as      *)
(* many frames as preh_read asks for.                                      *)

EnoughCells == PackCells <= NCmu * CmuCells /\ CmuCells <= PerFrame * NFrames

LEMMA PassedOver ==
    ASSUME PassOver
    PROVE  req \notin bits /\ try = Looks /\ What > 0 /\ (missed' <=> (missed \/ What >= 2))
  BY Zenon DEF PassOver

LEMMA OneWay ==
    /\ FoundOther \/ PassOver => ~Wait /\ ~NoState
    /\ PassOver => ~FoundOther
  <1>1. Looks \in Nat /\ ~(Looks < Looks) /\ ~(0 > 0)
    BY PrehAssumption
  <1>2. FoundOther => ~Wait /\ ~NoState /\ ~PassOver
    BY PassedOver DEF FoundOther, Wait, NoState
  <1>3. PassOver => ~Wait
    BY <1>1, PassedOver DEF Wait
  <1>4. PassOver => ~NoState
    BY <1>1, PassedOver DEF NoState
  <1>. QED
    BY <1>2, <1>3, <1>4

LEMMA FillPast ==
    ASSUME TypeInv, CellsType, FillInv, PrehSteps, ~FoundCells, UNCHANGED updated
    PROVE  FillInv'
  <1>. SUFFICES ASSUME drv = "preh", kind = "can" PROVE FillInv'
    BY PrehStep DEF FillInv, handle, who
  <1>1. /\ pc = "look" /\ ~updated /\ ~ok /\ (~missed => Filled) /\ req \in Ids
        /\ cells' = cells /\ updated' = updated /\ ok \in BOOLEAN
    <2>1. cells' = cells
      BY DEF PrehSteps, Wait, FoundOther, NoState, PassOver, mailbox
    <2>. QED
      BY <2>1, PrehMoves DEF FillInv, TypeInv, UserType
  <1>2. What \in 0..(Asks - 1) /\ Asks > 2 /\ Asks \in Nat /\ CmuCells \in Nat
    BY <1>1, WalkNumbers
  <1>3. CASE Wait
    <2>1. pc' = "look" /\ ok' = ok /\ missed' = missed /\ Cmu' = Cmu /\ What' = What
      <3>1. req' = req
        BY <1>3 DEF Wait, user
      <3>. QED
        BY <1>1, <1>3, <3>1 DEF Wait, driver, mailbox, Cmu, What, Asks
    <2>2. Passed' = Passed
      BY <2>1 DEF Passed
    <2>. QED
      BY <1>1, <2>1, <2>2 DEF FillInv, Filled
  <1>4. CASE NoState
    BY <1>1, <1>4 DEF NoState, Return, FillInv
  <1>5. CASE (FoundOther \/ PassOver) /\ What < 2
    <2>1. (missed => missed') /\ What # Asks - 1
      BY <1>2, <1>5, PassedOver DEF FoundOther, mailbox
    <2>2. ~Wait /\ ~NoState
      BY <1>5, OneWay
    <2>3. pc' = "look" /\ ok' = ok /\ Cmu' = Cmu /\ What' = What + 1
      BY <1>5, <2>1, <2>2, PrehMoves
    <2>4. Passed' = Passed /\ PerFrame * (What' - 2) <= CmuCells
      BY <1>2, <1>5, <2>3 DEF Passed, PerFrame
    <2>5. ~missed' => Filled /\ cells' = cells
      BY <1>1, <2>1
    <2>6. Filled /\ cells' = cells => Filled'
      BY <2>4 DEF Filled
    <2>. QED
      BY <1>1, <2>3, <2>5, <2>6 DEF FillInv
  <1>6. CASE PassOver /\ What >= 2
    <2>1. missed'
      BY <1>6 DEF PassOver
    <2>2. ~Wait /\ ~NoState /\ ~FoundOther
      BY <1>6, OneWay
    <2>3. (pc' = "look" /\ ok' = ok) \/ pc' = "close"
      BY <1>6, <2>2, PrehMoves
    <2>. QED
      BY <1>1, <2>1, <2>3 DEF FillInv
  <1>. QED
    BY <1>2, <1>3, <1>4, <1>5, <1>6 DEF PrehSteps, FoundOther

LEMMA FillWrites ==
    ASSUME EnoughCells, TypeInv, CellsType, FillInv, NEW v \in 0..Wired, TakeCells(v), UNCHANGED updated
    PROVE  FillInv'
  <1>. DEFINE k == Taken(v)
  <1>a. pc = "look" /\ req \in Ids
    BY DEF TakeCells, Local, TypeInv, UserType
  <1>. SUFFICES ASSUME drv = "preh", kind = "can", ~missed, v = Wired PROVE FillInv'
    <2>1. (missed' <=> missed \/ v < Wired) /\ drv' = drv /\ kind' = kind /\ pc = "look"
      BY <1>a DEF TakeCells, handle, who
    <2>2. pc' \in {"look", "close"} /\ (pc' = "look" => ok' = ok)
      BY <1>a, TakeMoves
    <2>4. v \in Nat /\ (v = Wired \/ v < Wired)
      BY <1>a, WalkNumbers DEF Wired, Least, PerFrame
    <2>3. drv = "preh" /\ kind = "can" => ~updated /\ ~ok
      BY <2>1 DEF FillInv
    <2>. QED
      BY <2>1, <2>2, <2>3, <2>4 DEF FillInv
  <1>1. /\ pc = "look" /\ ~updated /\ ~ok /\ Filled /\ req \in Ids /\ What >= 2
        /\ updated' = updated /\ ok \in BOOLEAN
    BY <1>a DEF FillInv, TypeInv, UserType, TakeCells
  <1>2. /\ cells' \in Seq(1..(NCmu * CmuCells)) /\ Len(cells') = Len(cells) + k
        /\ \A i \in 1..Len(cells) : cells'[i] = cells[i]
        /\ \A i \in (Len(cells) + 1)..Len(cells') : cells'[i] = Passed + (i - Len(cells))
    BY <1>1, CellsWritten
  <1>. DEFINE n == Len(cells)
              top == (Cmu + 1) * CmuCells
  <1>3. /\ Cmu \in 0..(NCmu - 1) /\ What \in 0..(Asks - 1) /\ Asks \in Nat /\ NCmu \in Nat
        /\ CmuCells \in Nat \ {0} /\ PackCells \in Nat \ {0} /\ Asks > 2
        /\ Cmu * CmuCells \in Nat /\ top = Cmu * CmuCells + CmuCells
        /\ NFrames \in Nat /\ Asks = NFrames + 2 /\ CmuCells <= 3 * NFrames
        /\ n \in Nat
    BY <1>1, WalkNumbers, PrehAssumption DEF Asks, EnoughCells, PerFrame, CellsType
  <1>4. /\ Passed \in Nat /\ Passed = Cmu * CmuCells + PerFrame * (What - 2)
        /\ k \in 0..PerFrame
        /\ ~LastFrame(v) => k = PerFrame /\ PerFrame * (What - 1) <= CmuCells
        /\ n + k < PackCells =>
            \/ k = PerFrame /\ PerFrame * (What - 1) <= CmuCells /\ ~LastFrame(v)
            \/ v < PerFrame /\ LastFrame(v) /\ k = v
        /\ v < PerFrame /\ PerFrame * (What - 2) <= CmuCells => Passed + v = top
    BY <1>1, AddedBounds
  <1>5. n < PackCells => n = Passed /\ 3 * (What - 2) <= CmuCells
    BY <1>1 DEF Filled, PerFrame
  <1>6. \A i \in 1..n : i <= PackCells => cells[i] = i
    BY <1>1, LenProperties DEF Filled, CellsType
  <1>7. DOMAIN cells' = 1..(n + k)
    BY <1>2
  <1>. HIDE DEF n, top, k
  <1>8. \A i \in 1..(n + k) : i <= PackCells => cells'[i] = i
    <2>. SUFFICES ASSUME NEW i \in 1..(n + k), i <= PackCells PROVE cells'[i] = i
      OBVIOUS
    <2>0. k \in Nat
      BY <1>4 DEF PerFrame
    <2>1. CASE i \in 1..n
      BY <1>2, <1>6, <2>1 DEF n
    <2>2. CASE i \in (n + 1)..(n + k)
      <3>1. cells'[i] = Passed + (i - n)
        BY <1>2, <2>2 DEF n
      <3>2. n = Passed
        BY <1>3, <1>5, <2>0, <2>2
      <3>. QED
        BY <1>4, <2>0, <2>2, <3>1, <3>2
    <2>. QED
      BY <1>3, <2>0, <2>1, <2>2
  \* A monitor that is left before the pack is complete has been read to its end.
  <1>9. n + k < PackCells /\ (LastFrame(v) \/ What = Asks - 1) => n + k = top
    <2>. SUFFICES ASSUME n + k < PackCells, LastFrame(v) \/ What = Asks - 1
                  PROVE  n + k = top
      OBVIOUS
    <2>0. k \in 0..3
      BY <1>4 DEF PerFrame
    <2>1. n = Passed /\ 3 * (What - 2) <= CmuCells
      BY <1>3, <1>5, <2>0
    <2>2. CASE k = 3 /\ 3 * (What - 1) <= CmuCells /\ What = Asks - 1
      BY <1>3, <1>4, <2>1, <2>2 DEF PerFrame
    <2>3. CASE v < 3 /\ k = v
      BY <1>4, <2>1, <2>3 DEF PerFrame
    <2>. QED
      BY <1>4, <2>2, <2>3 DEF PerFrame
  <1>10. Len(cells') = n + k
    BY <1>2 DEF n
  <1>11. CASE ~LastFrame(v) /\ pc' = "look" /\ ok' = ok /\ Cmu' = Cmu /\ What' = What + 1
    <2>1. Passed' = Passed + 3
      BY <1>1, <1>3, <1>4, <1>11 DEF Passed, PerFrame
    <2>2. n + k < PackCells => n + k = Passed' /\ PerFrame * (What' - 2) <= CmuCells
      BY <1>3, <1>4, <1>5, <1>11, <2>1 DEF PerFrame
    <2>3. Filled'
      BY <1>7, <1>8, <1>10, <2>2 DEF Filled
    <2>. QED
      BY <1>1, <1>11, <2>3 DEF FillInv
  <1>12. CASE /\ LastFrame(v) \/ What = Asks - 1
              /\ pc' = "look" /\ ok' = ok /\ Cmu' = Cmu + 1 /\ What' = 0
    <2>1. Passed' = top
      BY <1>3, <1>12 DEF Passed, top
    <2>2. Filled'
      BY <1>7, <1>8, <1>9, <1>10, <1>12, <2>1 DEF Filled
    <2>. QED
      BY <1>1, <1>12, <2>2 DEF FillInv
  <1>13. CASE (LastFrame(v) \/ What = Asks - 1) /\ pc' = "close" /\ Cmu + 1 = NCmu
    <2>1. top >= PackCells
      BY <1>3, <1>13 DEF EnoughCells, top
    <2>2. n + k \in Nat
      BY <1>3, <1>4 DEF PerFrame
    <2>3. PackCells <= n + k
      BY <1>3, <1>9, <1>13, <2>1, <2>2
    <2>4. Complete'
      <3>1. \A i \in 1..PackCells : i \in 1..(n + k) /\ i <= PackCells
        BY <1>3, <2>2, <2>3
      <3>. QED
        BY <1>8, <1>10, <2>3, <3>1 DEF Complete
    <2>. QED
      BY <1>1, <1>13, <2>4 DEF FillInv
  <1>. QED
    BY <1>1, <1>11, <1>12, <1>13, TakeMoves

LEMMA FillInit == Init => FillInv
  BY DEF Init, FillInv

LEMMA FillOpened ==
    ASSUME CellsType, WalkInv, FillInv, Opened PROVE FillInv'
  <1>. SUFFICES ASSUME drv' = "preh", kind' = "can" PROVE FillInv'
    BY DEF FillInv
  <1>1. /\ drv = "preh" /\ kind = "can" /\ pc = "opened" /\ pc' = "look" /\ req' = 1
        /\ ok' = ok /\ UNCHANGED <<mailbox, updated>>
    BY DEF Opened, At, Begin, Notes, handle
  <1>2. cells' = <<>> /\ ~updated' /\ ~ok'
    BY <1>1 DEF WalkInv, FillInv, mailbox
  <1>3. /\ NCmu \in Nat \ {0} /\ Asks \in Nat /\ Asks > 2 /\ CmuCells \in Nat
        /\ PackCells \in Nat \ {0}
    BY ConstantsType, PrehAssumption
  <1>4. Cmu' = 0 /\ What' = 0
    <2>1. 0 \in 0..(NCmu - 1) /\ 0 \in 0..(Asks - 1) /\ req' = 0 * Asks + 0 + 1
      BY <1>1, <1>3
    <2>. QED
      BY <2>1, PlaceOf
  <1>5. Passed' = 0
    BY <1>3, <1>4 DEF Passed
  <1>6. Filled'
    BY <1>2, <1>4, <1>5 DEF Filled
  <1>. QED
    BY <1>1, <1>2, <1>6 DEF FillInv

LEMMA FillProgram ==
    ASSUME EnoughCells, TypeInv, CellsType, WalkInv, FillInv, Program PROVE FillInv'
  <1>1. CASE (Open \/ Write \/ Read) /\ UNCHANGED <<driver, try, got, mailbox, updated>>
    <2>1. /\ UNCHANGED <<kind, drv, ok, updated>>
          /\ pc \notin {"idle", "closing", "close"} /\ pc' \notin {"look", "close", "closing"}
      BY <1>1, TransportStep DEF driver, who
    <2>. QED
      BY <2>1 DEF FillInv
  <1>2. CASE (JbdSteps \/ JkSteps \/ RemoteSteps) /\ UNCHANGED <<mailbox, updated>>
    <2>1. drv' # "preh" \/ kind' # "can"
      BY <1>2, JbdStep, JkStep, RemoteStep DEF handle, who
    <2>. QED
      BY <2>1 DEF FillInv
  <1>3. CASE PrehSteps /\ UNCHANGED updated
    BY <1>3, FillPast, FillWrites DEF FoundCells
  <1>4. CASE Opened
    BY <1>4, FillOpened
  <1>5. CASE NotOpened
    <2>1. /\ UNCHANGED <<kind, drv, ok, updated>> /\ pc = "opened" /\ pc' \in {"closing", "idle"}
      BY <1>5 DEF NotOpened, At, handle, driver, who
    <2>. QED
      BY <2>1 DEF FillInv
  <1>6. CASE Close
    <2>1. /\ UNCHANGED <<kind, drv, ok, mailbox>> /\ pc = "close" /\ pc' \in {"closing", "idle"}
          /\ updated' = ok
      BY <1>6 DEF Close, At, CloseDriver, Release, handle
    <2>2. drv = "preh" /\ kind = "can" /\ ok /\ ~missed => Complete'
      BY <2>1 DEF FillInv, Complete, mailbox
    <2>. QED
      BY <2>1, <2>2 DEF FillInv, mailbox
  <1>7. CASE CloseAll
    <2>1. /\ UNCHANGED <<kind, drv, ok, updated>> /\ pc' = "idle"
      BY <1>7 DEF CloseAll, At, CloseDriver, Release, handle
    <2>. QED
      BY <2>1 DEF FillInv
  <1>8. CASE AsksToClose /\ DiesOfPipe("close") /\ UNCHANGED <<driver, try, got, mailbox, updated>>
    <2>1. kind' # "can"
      BY <1>8 DEF AsksToClose, DiesOfPipe, handle
    <2>. QED
      BY <2>1 DEF FillInv
  <1>. QED
    BY <1>1, <1>2, <1>3, <1>4, <1>5, <1>6, <1>7, <1>8 DEF Program

LEMMA FillStep ==
    ASSUME EnoughCells, TypeInv, CellsType, WalkInv, FillInv, [Next]_vars PROVE FillInv'
  <1>1. CASE \/ PeerCloses \/ CbCopy \/ CbAdd \/ UNCHANGED vars
             \/ (Hear \/ Forget) /\ UNCHANGED updated
    <2>1. UNCHANGED <<pc, req, cells, missed, kind, drv, ok, updated>>
      BY <1>1 DEF PeerCloses, CbCopy, CbAdd, Hear, Forget, vars, user, mailbox, handle, driver, who
    <2>2. Cmu' = Cmu /\ What' = What
      BY <2>1 DEF Cmu, What, Asks
    <2>3. Passed' = Passed
      BY <2>2 DEF Passed
    <2>4. (Filled' <=> Filled) /\ (Complete' <=> Complete)
      BY <2>1, <2>2, <2>3 DEF Filled, Complete
    <2>. QED
      BY <2>1, <2>4 DEF FillInv
  <1>2. CASE Start
    <2>1. pc' = "open" /\ ~updated' /\ ~ok'
      BY <1>2 DEF Start, At
    <2>. QED
      BY <2>1 DEF FillInv
  <1>3. CASE Program
    BY <1>3, FillProgram
  <1>4. CASE Kill
    <2>1. /\ pc' = "closing" /\ pc \notin {"idle", "closing"}
          /\ UNCHANGED <<kind, drv, ok, updated>>
      BY <1>4 DEF Kill, driver, who
    <2>. QED
      BY <2>1 DEF FillInv
  <1>. QED
    BY <1>1, <1>2, <1>3, <1>4 DEF Next, Ended

\* With as many cells on the monitors as in the pack, a Preh pack that is UPDATED and
\* had no frame missing has cell i of its monitors in cellvolt[i], for every i
\* (preh.c:232-262), for any number of monitors, of their cells and of their frames.
THEOREM CellsPlaced == EnoughCells => (Spec => []CellsInPlace)
  <1>. SUFFICES ASSUME EnoughCells PROVE Spec => []CellsInPlace
    OBVIOUS
  <1>1. CellsType /\ WalkInv /\ FillInv => CellsInPlace
    <2>. SUFFICES ASSUME CellsType, WalkInv, FillInv PROVE CellsInPlace
      OBVIOUS
    <2>1. CellsAscend
      BY DEF WalkInv, CellsAscend
    <2>2. ASSUME Complete PROVE \A i \in 1..PackCells : i \in DOMAIN cells /\ cells[i] = i
      <3>1. DOMAIN cells = 1..Len(cells) /\ Len(cells) \in Nat /\ PackCells \in Nat
        BY LenProperties, PrehAssumption DEF CellsType
      <3>. QED
        BY <2>2, <3>1 DEF Complete
    <2>3. EveryCell
      BY <2>2 DEF FillInv, EveryCell
    <2>. QED
      BY <2>1, <2>3 DEF CellsInPlace
  <1>2. TypeInv /\ CellsType /\ WalkInv /\ FillInv /\ [Next]_vars => FillInv'
    BY FillStep
  <1>. QED
    BY <1>1, <1>2, FillInit, WalkInvariant, PTL DEF Spec

-----------------------------------------------------------------------------
(* What is on the line: the pieces of one answer, in order, and of this    *)
(* update, while no request has crossed an earlier answer.                 *)

Answered == {"written", "read", "clear", "judge"}

\* What there can be of an answer to request r, of which pieces may have been taken.
Fragments(r) == {<<>>, <<Part(r, 1)>>, <<Part(r, 2)>>, <<Part(r, 1), Part(r, 2)>>}

AllNew(s) == \A i \in DOMAIN s : s[i].age = "new"

\* A line other than the serial one starts empty with the session.
LineInv ==
    /\ Notes => pc \notin {"write", "written"}
    /\ kind # "serial" => AllNew(line) /\ (Notes \/ pc \in Outside => line = <<>>)

LEMMA FragmentFacts ==
    ASSUME NEW r \in Requests, NEW f \in Fragments(r)
    PROVE  /\ f \in Seq(Piece) /\ Len(f) <= 2 /\ AllNew(f)
           /\ \A i \in DOMAIN f : f[i].to = r
           /\ Len(f) = 2 => f[1] = Part(r, 1) /\ f[2] = Part(r, 2)
  <1>1. \A p \in 1..2 : Part(r, p) \in Piece /\ Part(r, p).age = "new" /\ Part(r, p).to = r
    BY DEF Part, Piece
  <1>2. CASE f = <<>>
    BY <1>2 DEF AllNew
  <1>3. CASE f = <<Part(r, 1)>> \/ f = <<Part(r, 2)>>
    BY <1>1, <1>3 DEF AllNew
  <1>4. CASE f = <<Part(r, 1), Part(r, 2)>>
    BY <1>1, <1>4 DEF AllNew
  <1>. QED
    BY <1>2, <1>3, <1>4 DEF Fragments

LEMMA FragmentOf ==
    ASSUME NEW r \in Requests, NEW s \in Seq(Piece), Len(s) <= 2,
           Len(s) = 1 => s[1] \in {Part(r, 1), Part(r, 2)},
           Len(s) = 2 => s[1] = Part(r, 1) /\ s[2] = Part(r, 2)
    PROVE  s \in Fragments(r)
  <1>1. Len(s) \in Nat
    OBVIOUS
  <1>2. CASE Len(s) = 0
    BY <1>2, EmptySeq DEF Fragments
  <1>3. CASE Len(s) = 1
    <2>1. s = <<s[1]>>
      BY <1>3
    <2>. QED
      BY <1>3, <2>1 DEF Fragments
  <1>4. CASE Len(s) = 2
    <2>1. s = <<s[1], s[2]>>
      BY <1>4
    <2>. QED
      BY <1>4, <2>1 DEF Fragments
  <1>5. \A k \in Nat : k <= 2 => k = 0 \/ k = 1 \/ k = 2
    OBVIOUS
  <1>. QED
    BY <1>1, <1>2, <1>3, <1>4, <1>5, Zenon

LEMMA CutFragment ==
    ASSUME NEW r \in Requests, NEW f \in Fragments(r), NEW n \in 0..Len(f)
    PROVE  SubSeq(f, 1, n) \in Fragments(r) /\ SubSeq(f, n + 1, Len(f)) \in Fragments(r)
  <1>1. f \in Seq(Piece) /\ Len(f) \in Nat /\ Len(f) <= 2
    BY FragmentFacts
  <1>2. /\ Len(f) = 1 => f[1] \in {Part(r, 1), Part(r, 2)}
        /\ Len(f) = 2 => f[1] = Part(r, 1) /\ f[2] = Part(r, 2)
    BY DEF Fragments
  <1>. DEFINE a == SubSeq(f, 1, n)
              b == SubSeq(f, n + 1, Len(f))
  <1>3. /\ a \in Seq(Piece) /\ Len(a) = n /\ \A i \in 1..n : a[i] = f[i]
        /\ b \in Seq(Piece) /\ Len(b) = Len(f) - n /\ \A i \in 1..(Len(f) - n) : b[i] = f[n + i]
    BY <1>1, CutType
  <1>. HIDE DEF a, b
  <1>4. n \in 0..2 /\ n <= Len(f)
    BY <1>1
  <1>5. a \in Fragments(r)
    <2>1. Len(a) = 1 => a[1] = f[1]
      BY <1>3, <1>4
    <2>2. Len(a) = 2 => Len(f) = 2 /\ a[1] = f[1] /\ a[2] = f[2]
      BY <1>1, <1>3, <1>4
    <2>3. Len(a) = 1 => a[1] \in {Part(r, 1), Part(r, 2)}
      BY <1>1, <1>2, <1>3, <1>4, <2>1
    <2>. QED
      BY <1>2, <1>3, <1>4, <2>2, <2>3, FragmentOf
  <1>6. Len(f) \in Nat /\ Len(f) <= 2 /\ n \in Nat /\ n <= Len(f)
    BY <1>1, <1>4
  <1>7. b \in Fragments(r)
    <2>1. Len(b) = 1 => b[1] = f[n + 1] /\ n + 1 = Len(f)
      <3>1. ASSUME Len(f) - n = 1 PROVE 1 \in 1..(Len(f) - n) /\ n + 1 = Len(f)
        BY <1>6, <3>1
      <3>. QED
        BY <1>3, <3>1, Zenon
    <2>2. Len(b) = 2 => Len(f) = 2 /\ b[1] = f[1] /\ b[2] = f[2]
      <3>1. ASSUME Len(f) - n = 2
            PROVE  /\ Len(f) = 2 /\ 1 \in 1..(Len(f) - n) /\ 2 \in 1..(Len(f) - n)
                   /\ n + 1 = 1 /\ n + 2 = 2
        <4>1. n = 0 /\ Len(f) = 2
          BY <1>6, <3>1
        <4>. QED
          BY <4>1
      <3>2. ASSUME Len(f) - n = 2 PROVE b[1] = f[n + 1] /\ b[2] = f[n + 2]
        BY <1>3, <3>1, <3>2
      <3>3. ASSUME Len(f) - n = 2 PROVE Len(f) = 2 /\ b[1] = f[1] /\ b[2] = f[2]
        BY <3>1, <3>2, <3>3
      <3>. QED
        BY <1>3, <3>3, Zenon
    <2>3. Len(b) = 1 => b[1] \in {Part(r, 1), Part(r, 2)}
      BY <1>1, <1>2, <1>4, <2>1
    <2>4. Len(b) <= 2
      BY <1>1, <1>3, <1>4
    <2>. QED
      BY <1>2, <1>3, <2>2, <2>3, <2>4, FragmentOf
  <1>. QED
    BY <1>5, <1>7 DEF a, b

LEMMA WrittenFragment ==
    ASSUME NEW r \in Requests, NEW a \in Answers(r)
    PROVE  a \in Fragments(r) /\ <<>> \in Fragments(r) /\ <<>> \o a = a
  <1>1. a \in Seq(Piece)
    BY AnswerType
  <1>. QED
    BY <1>1 DEF Answers, Fragments

\* What is left of new pieces is new.
LEMMA CutNew ==
    ASSUME NEW s \in Seq(Piece), AllNew(s), NEW n \in 0..Len(s)
    PROVE  /\ AllNew(SubSeq(s, 1, n)) /\ AllNew(SubSeq(s, n + 1, Len(s)))
           /\ s = <<>> => SubSeq(s, n + 1, Len(s)) = <<>>
  <1>. DEFINE a == SubSeq(s, 1, n)
              b == SubSeq(s, n + 1, Len(s))
  <1>1. /\ a \in Seq(Piece) /\ Len(a) = n /\ \A i \in 1..n : a[i] = s[i]
        /\ b \in Seq(Piece) /\ Len(b) = Len(s) - n /\ \A i \in 1..(Len(s) - n) : b[i] = s[n + i]
    BY CutType
  <1>2. Len(s) \in Nat /\ n \in Nat /\ n <= Len(s) /\ DOMAIN s = 1..Len(s)
    OBVIOUS
  <1>. HIDE DEF a, b
  <1>3. AllNew(a)
    <2>1. DOMAIN a = 1..n
      BY <1>1
    <2>. QED
      BY <1>1, <1>2, <2>1 DEF AllNew
  <1>4. AllNew(b)
    <2>1. DOMAIN b = 1..(Len(s) - n)
      BY <1>1
    <2>2. \A i \in 1..(Len(s) - n) : n + i \in 1..Len(s)
      BY <1>2
    <2>3. \A i \in 1..Len(s) : s[i].age = "new"
      BY <1>2 DEF AllNew
    <2>4. \A i \in 1..(Len(s) - n) : b[i].age = "new"
      BY <1>1, <2>2, <2>3
    <2>. QED
      BY <2>1, <2>4 DEF AllNew
  <1>5. s = <<>> => b = <<>>
    BY <1>1, <1>2, EmptySeq
  <1>. QED
    BY <1>3, <1>4, <1>5 DEF a, b

LEMMA LineInit == Init => LineInv
  BY DEF Init, LineInv, AllNew, Outside

\* The calls, one by one: the first part of an answer is put on the line, or some of
\* what is there is taken from it.
LEMMA LineCalls ==
    ASSUME TypeInv, LineInv, Open \/ Write \/ Read, who' = who
    PROVE  LineInv'
  <1>0. kind' = kind /\ line \in Seq(Piece) /\ (Notes' <=> Notes)
    BY TransportStep DEF TypeInv, WorldType, who, Notes
  <1>1. Notes' => pc' \notin {"write", "written"}
    BY <1>0, TransportStep DEF LineInv
  <1>2. pc' \in Outside => pc \in Outside
    BY TransportStep DEF Outside
  <1>3. CASE line' = line
    BY <1>0, <1>1, <1>2, <1>3 DEF LineInv, AllNew
  <1>4. CASE \E n \in 0..Len(line) : line' = SubSeq(line, n + 1, Len(line))
    <2>1. PICK n \in 0..Len(line) : line' = SubSeq(line, n + 1, Len(line))
      BY <1>4
    <2>2. AllNew(line) => AllNew(line)' /\ (line = <<>> => line' = <<>>)
      BY <1>0, <2>1, CutNew DEF AllNew
    <2>. QED
      BY <1>0, <1>1, <1>2, <2>2 DEF LineInv
  <1>5. CASE WriteStream
    <2>1. PICK a \in Answers(req) : line' = line \o a
      BY <1>5 DEF WriteStream
    <2>2. pc = "write" /\ pc' = "written"
      BY <1>5 DEF WriteStream, At
    <2>3. req \in Requests
      BY <2>2 DEF TypeInv, UserType, Asking
    <2>4. a \in Seq(Piece) /\ AllNew(a)
      BY <2>1, <2>3, WrittenFragment, FragmentFacts
    <2>5. AllNew(line) => AllNew(line)'
      <3>1. /\ Len(line') = Len(line) + Len(a) /\ line' \in Seq(Piece)
            /\ \A i \in 1..Len(line') :
                 line'[i] = IF i <= Len(line) THEN line[i] ELSE a[i - Len(line)]
        BY <1>0, <2>1, <2>4, ConcatProperties
      <3>2. /\ DOMAIN line = 1..Len(line) /\ DOMAIN a = 1..Len(a) /\ DOMAIN line' = 1..Len(line')
            /\ Len(line) \in Nat /\ Len(a) \in Nat
        BY <1>0, <2>4, <3>1, LenProperties
      <3>. SUFFICES ASSUME AllNew(line), NEW i \in 1..Len(line') PROVE line'[i].age = "new"
        BY <3>2 DEF AllNew
      <3>3. CASE i <= Len(line)
        <4>1. i \in DOMAIN line
          BY <3>1, <3>2, <3>3
        <4>. QED
          BY <3>1, <3>3, <4>1 DEF AllNew
      <3>4. CASE ~(i <= Len(line))
        <4>1. i - Len(line) \in DOMAIN a
          BY <3>1, <3>2, <3>4
        <4>. QED
          BY <2>4, <3>1, <3>4, <4>1 DEF AllNew
      <3>. QED
        BY <3>3, <3>4
    <2>. QED
      BY <1>0, <1>1, <2>2, <2>5 DEF LineInv, Outside
  <1>6. \/ line' = line \/ WriteStream
        \/ \E n \in 0..Len(line) : line' = SubSeq(line, n + 1, Len(line))
    <2>1. CASE Open
      BY <2>1 DEF Open, OpenAlready, OpenSucceeds, OpenFails, SetupFails, handle, far
    <2>2. CASE Write
      BY <2>2 DEF Write, WriteFrame, WriteFails, DiesOfPipe, handle, far
    <2>3. CASE Read
      BY <2>3 DEF Read, ReadStream, ReadFails, BtNothing, BtTake, BtClear, ReadFrame, ReadHollow,
                  DiesOfPipe, handle, far
    <2>. QED
      BY <2>1, <2>2, <2>3
  <1>. QED
    BY <1>3, <1>4, <1>5, <1>6

LEMMA LineClosed ==
    ASSUME TypeInv, LineInv, CloseDriver, drv' = drv
    PROVE  kind' = kind /\ (kind # "serial" => AllNew(line)' /\ line' = <<>>)
  <1>1. CASE Release
    BY <1>1 DEF Release, Drop, AllNew
  <1>2. CASE UNCHANGED handle
    <2>1. kind' = kind /\ line' = line
      BY <1>2 DEF handle, far
    <2>2. CASE Release
      BY <2>2, <1>1
    <2>3. CASE ~Release
      <3>1. Notes
        BY <2>3 DEF CloseDriver
      <3>. QED
        BY <2>1, <3>1 DEF LineInv, AllNew
    <2>. QED
      BY <2>2, <2>3
  <1>. QED
    BY <1>1, <1>2 DEF CloseDriver

LEMMA LineProgram == ASSUME TypeInv, LineInv, Program PROVE LineInv'
  <1>1. CASE (Open \/ Write \/ Read) /\ UNCHANGED <<driver, try, got, mailbox, updated>>
    BY <1>1, LineCalls DEF driver
  <1>2. CASE JbdSteps \/ JkSteps \/ RemoteSteps \/ PrehSteps
    <2>1. kind' = kind /\ line' = line /\ (Notes' <=> Notes) /\ pc' \notin Outside
      BY <1>2, JbdStep, JkStep, RemoteStep, PrehStep DEF handle, far, who, Notes, Begin, Outside
    <2>2. Notes => pc' \notin {"write", "written"}
      BY <1>2, JbdStep, JkStep, RemoteStep, PrehStep DEF Notes
    <2>. QED
      BY <2>1, <2>2 DEF LineInv, AllNew
  <1>3. CASE Opened \/ NotOpened
    <2>1. /\ kind' = kind /\ line' = line /\ drv' = drv /\ pc = "opened"
          /\ pc' \in {"closing", "idle", Begin}
      BY <1>3 DEF Opened, NotOpened, At, handle, far, driver, who, Pack
    <2>2. (Notes' <=> Notes) /\ (Notes => pc' \notin {"write", "written"})
      BY <2>1 DEF Notes, Begin
    <2>. QED
      BY <2>1, <2>2 DEF LineInv, AllNew, Outside
  <1>4. CASE Close \/ CloseAll
    <2>1. CloseDriver /\ drv' = drv /\ pc' \in {"closing", "idle"}
      BY <1>4 DEF Close, CloseAll, At
    <2>. QED
      BY <2>1, LineClosed DEF LineInv, Notes
  <1>5. CASE AsksToClose /\ DiesOfPipe("close") /\ UNCHANGED <<driver, try, got, mailbox, updated>>
    BY <1>5 DEF DiesOfPipe, handle, far, driver, who, LineInv, AllNew, Notes
  <1>. QED
    BY <1>1, <1>2, <1>3, <1>4, <1>5 DEF Program

LEMMA LineStep == ASSUME TypeInv, LineInv, [Next]_vars PROVE LineInv'
  <1>1. CASE PeerCloses \/ CbAdd \/ UNCHANGED vars \/ ((Hear \/ Forget) /\ UNCHANGED updated)
    <2>1. UNCHANGED <<kind, line, pc, drv>>
      BY <1>1 DEF PeerCloses, CbAdd, Hear, Forget, vars, handle, far, driver, who
    <2>. QED
      BY <2>1 DEF LineInv, AllNew, Notes
  <1>2. CASE CbCopy
    <2>1. UNCHANGED <<kind, pc, drv>> /\ line # <<>> /\ line' = Tail(line)
      BY <1>2 DEF CbCopy, driver, who
    <2>2. /\ line \in Seq(Piece) /\ DOMAIN line = 1..Len(line) /\ Len(line) \in Nat
          /\ DOMAIN line' = 1..(Len(line) - 1) /\ \A i \in 1..(Len(line) - 1) : line'[i] = line[i + 1]
      BY <2>1, HeadTailProperties DEF TypeInv, WorldType
    <2>3. AllNew(line) => AllNew(line)'
      BY <2>2 DEF AllNew
    <2>. QED
      BY <2>1, <2>3 DEF LineInv, Notes
  <1>3. CASE Start
    <2>1. /\ kind' = kind /\ drv' = drv /\ pc = "idle" /\ pc' = "open"
          /\ line' = [i \in DOMAIN line |-> Aged(line[i])]
      BY <1>3 DEF Start, At, who
    <2>2. line = <<>> => line' = <<>>
      BY <2>1
    <2>3. kind # "serial" => line' = <<>>
      BY <2>1, <2>2 DEF LineInv, Outside
    <2>. QED
      BY <2>1, <2>3 DEF LineInv, AllNew, Notes
  <1>4. CASE Program
    BY <1>4, LineProgram
  <1>5. CASE Kill
    <2>1. UNCHANGED <<kind, line, drv>> /\ pc' = "closing"
      BY <1>5 DEF Kill, far, driver, who
    <2>2. Notes' => Notes
      BY <2>1 DEF Notes
    <2>. QED
      BY <2>1, <2>2 DEF LineInv, AllNew, Outside
  <1>. QED
    BY <1>1, <1>2, <1>3, <1>4, <1>5 DEF Next, Ended

\* What the callback of bt.c has copied follows the order of the line.
FirstCopied(r) ==
    \/ data[1] = Part(r, 1) /\ line \in {<<>>, <<Part(r, 2)>>}
    \/ data[1] = Part(r, 2) /\ line = <<>>

BtOrder(r) ==
    /\ len <= 2 /\ note <= 2
    /\ len # 0 \/ note # 0 => FirstCopied(r)
    /\ len > 1 \/ note > 1 =>
        /\ data[1] = Part(r, 1) /\ line = <<>>
        /\ MaxData > 1 => data[2] = Part(r, 2)

\* No request of this update was made with an earlier answer outstanding.
Ordered == ~crossed /\ ~Notes /\ kind \in Streams

OrderInv ==
    Ordered /\ pc \in Answered =>
        /\ line \in Fragments(req)
        /\ kind = "bt" => BtOrder(req)
        /\ pc \in {"clear", "judge"} => rbuf \in Fragments(req)

LEMMA CrossedAt ==
    ASSUME WriteStream \/ WriteFails
    PROVE  crossed' <=> (crossed \/ Outstanding)
  <1>1. ASSUME WriteStream PROVE crossed' <=> (crossed \/ Outstanding)
    BY <1>1, Zenon DEF WriteStream
  <1>2. ASSUME WriteFails PROVE crossed' <=> (crossed \/ Outstanding)
    BY <1>2, Zenon DEF WriteFails
  <1>. QED
    BY <1>1, <1>2

LEMMA OrderWrite ==
    ASSUME TypeInv, OrderInv, Write, who' = who
    PROVE  OrderInv'
  <1>1. CASE DiesOfPipe("write")
    BY <1>1 DEF DiesOfPipe, OrderInv, Answered
  <1>2. CASE WriteFrame
    BY <1>2 DEF WriteFrame, OrderInv, Ordered, Streams, Takes
  <1>3. CASE WriteStream \/ WriteFails
    <2>. SUFFICES ASSUME Ordered', pc' \in Answered
                  PROVE  line' \in Fragments(req') /\ (kind' = "bt" => BtOrder(req)')
                         /\ pc' \notin {"clear", "judge"}
      BY DEF OrderInv
    <2>1. /\ pc = "write" /\ pc' = "written" /\ kind' = kind /\ req' = req
          /\ len' = IF kind = "bt" THEN 0 ELSE len
      BY <1>3 DEF WriteStream, WriteFails, At, BtReset, user
    <2>2. note' = note
      BY <1>3 DEF WriteStream, WriteFails
    <2>3. req \in Requests
      BY <2>1 DEF TypeInv, UserType, Asking
    <2>4. ~Outstanding
      BY <1>3, CrossedAt DEF Ordered
    <2>5. line = <<>> /\ (kind = "bt" => note = 0)
      BY <2>4 DEF Outstanding
    <2>6. line' \in Fragments(req)
      <3>1. CASE WriteStream
        <4>1. PICK a \in Answers(req) : line' = line \o a
          BY <3>1 DEF WriteStream
        <4>. QED
          BY <2>3, <2>5, <4>1, WrittenFragment
      <3>2. CASE WriteFails
        <4>1. line' = line
          BY <3>2 DEF WriteFails, far
        <4>. QED
          BY <2>5, <4>1 DEF Fragments
      <3>. QED
        BY <1>3, <3>1, <3>2
    <2>7. kind' = "bt" => len' = 0 /\ note' = 0
      BY <2>1, <2>2, <2>5
    <2>8. kind' = "bt" => BtOrder(req)'
      BY <2>7 DEF BtOrder
    <2>. QED
      BY <2>1, <2>6, <2>8
  <1>. QED
    BY <1>1, <1>2, <1>3 DEF Write

\* bt_read takes what was copied of one answer.
LEMMA OrderTake ==
    ASSUME TypeInv, Ordered, kind = "bt", BtOrder(req), req \in Requests, len > 0
    PROVE  SubSeq(data, 1, len) \in Fragments(req)
  <1>1. /\ data \in [1..MaxData -> Piece \cup {Void}] /\ len \in 1..MaxData /\ len <= 2
        /\ MaxData \in Nat \ {0}
    BY ConstantsType DEF TypeInv, WorldType, BtOrder
  <1>2. data \in Buffer /\ Len(data) = MaxData
    BY <1>1 DEF Buffer
  <1>3. Part(req, 1) \in Piece /\ Part(req, 2) \in Piece
    BY DEF Part, Piece
  <1>. DEFINE b == SubSeq(data, 1, len)
  <1>4. b \in Buffer /\ Len(b) = len /\ \A i \in 1..len : b[i] = data[i]
    BY <1>1, <1>2, CutType DEF Buffer
  <1>. HIDE DEF b
  <1>5. data[1] \in {Part(req, 1), Part(req, 2)} /\ b[1] = data[1]
    BY <1>1, <1>4 DEF BtOrder, FirstCopied
  <1>6. len = 2 => b[1] = Part(req, 1) /\ b[2] = Part(req, 2)
    <2>. SUFFICES ASSUME len = 2 PROVE b[1] = Part(req, 1) /\ b[2] = Part(req, 2)
      OBVIOUS
    <2>1. MaxData > 1 /\ b[2] = data[2]
      BY <1>1, <1>4
    <2>. QED
      BY <1>5, <2>1 DEF BtOrder
  <1>7. \A i \in 1..Len(b) : b[i] \in Piece
    BY <1>1, <1>3, <1>4, <1>5, <1>6
  <1>8. b \in Seq(Piece)
    BY <1>4, <1>7 DEF Buffer
  <1>9. b \in Fragments(req)
    BY <1>1, <1>4, <1>5, <1>6, <1>8, FragmentOf
  <1>. QED
    BY <1>9 DEF b

LEMMA OrderRead ==
    ASSUME TypeInv, OrderInv, Read, who' = who
    PROVE  OrderInv'
  <1>. SUFFICES ASSUME Ordered', pc' \in Answered PROVE OrderInv'
    BY DEF OrderInv
  <1>. USE DEF user, result, history, handle, far, inbox
  <1>1. /\ kind' = kind /\ req' = req /\ crossed' = crossed /\ note' = note /\ data' = data
        /\ pc \in {"read", "clear"} \/ pc' = pc
    BY DEF Read, ReadStream, ReadFails, BtNothing, BtTake, BtClear, ReadFrame, ReadHollow,
           DiesOfPipe, At
  <1>2. Ordered
    BY <1>1 DEF Ordered, Notes, who
  <1>3. pc \in Answered
    BY <1>1 DEF Answered
  <1>4. req \in Requests
    BY <1>3 DEF TypeInv, UserType, Asking, Answered
  <1>5. line \in Fragments(req) /\ (kind = "bt" => BtOrder(req))
    BY <1>2, <1>3 DEF OrderInv
  <1>6. <<>> \in Fragments(req)
    BY DEF Fragments
  <1>7. CASE ReadStream \/ ReadFails
    <2>1. kind # "bt"
      BY <1>7 DEF ReadStream, ReadFails, Takes
    <2>2. PICK n \in 0..Len(line) : /\ line' = SubSeq(line, n + 1, Len(line))
                                    /\ rbuf' = <<>> \/ rbuf' = SubSeq(line, 1, n)
      BY <1>7 DEF ReadStream, ReadFails
    <2>3. line' \in Fragments(req) /\ rbuf' \in Fragments(req)
      BY <1>4, <1>5, <1>6, <2>2, CutFragment
    <2>. QED
      BY <1>1, <2>1, <2>3 DEF OrderInv
  <1>8. CASE BtNothing \/ BtTake
    <2>1. line' = line /\ len' = len
      BY <1>8 DEF BtNothing, BtTake
    <2>2. BtOrder(req) => BtOrder(req)'
      BY <1>1, <2>1 DEF BtOrder, FirstCopied
    <2>3. rbuf' \in Fragments(req)
      BY <1>2, <1>4, <1>5, <1>6, <1>8, OrderTake DEF BtNothing, BtTake
    <2>. QED
      BY <1>1, <1>5, <2>1, <2>2, <2>3 DEF OrderInv
  <1>9. CASE BtClear
    <2>1. line' = line /\ len' = 0 /\ pc = "clear" /\ rbuf' = rbuf
      BY <1>9 DEF BtClear, At
    <2>2. BtOrder(req) => BtOrder(req)'
      BY <1>1, <2>1 DEF BtOrder, FirstCopied
    <2>3. rbuf \in Fragments(req)
      BY <1>2, <1>3, <2>1 DEF OrderInv
    <2>. QED
      BY <1>1, <1>5, <2>1, <2>2, <2>3 DEF OrderInv
  <1>10. CASE ReadFrame \/ ReadHollow
    BY <1>1, <1>2, <1>10 DEF ReadFrame, ReadHollow, Ordered, Streams
  <1>11. CASE kind = "can_ip" /\ DiesOfPipe("read")
    BY <1>2, <1>11 DEF Ordered, Streams
  <1>. QED
    BY <1>7, <1>8, <1>9, <1>10, <1>11 DEF Read

\* The callback copies the next piece of the line behind those it knows of.
LEMMA OrderCopy ==
    ASSUME TypeInv, OrderInv, CbCopy PROVE OrderInv'
  <1>. SUFFICES ASSUME Ordered', pc' \in Answered PROVE OrderInv'
    BY DEF OrderInv
  <1>1. /\ UNCHANGED <<kind, pc, req, drv, crossed, rbuf, len>> /\ kind = "bt"
        /\ note = 0 /\ line # <<>> /\ note' = len + 1 /\ line' = Tail(line)
        /\ data' = IF len < MaxData THEN [data EXCEPT ![len + 1] = Head(line)] ELSE data
    BY DEF CbCopy, user, result, history, driver, who
  <1>2. Ordered /\ pc \in Answered
    BY <1>1 DEF Ordered, Notes
  <1>3. req \in Requests
    BY <1>2 DEF TypeInv, UserType, Asking, Answered
  <1>4. /\ data \in [1..MaxData -> Piece \cup {Void}] /\ len \in 0..MaxData
        /\ MaxData \in Nat \ {0}
    BY ConstantsType DEF TypeInv, WorldType
  <1>5. line \in Fragments(req) /\ BtOrder(req)
    BY <1>1, <1>2 DEF OrderInv
  <1>6. rbuf' = rbuf /\ (pc \in {"clear", "judge"} => rbuf \in Fragments(req))
    BY <1>1, <1>2 DEF OrderInv
  <1>7. len \in 0..1
    BY <1>1, <1>4, <1>5 DEF BtOrder
  <1>8. line' \in Fragments(req) /\ BtOrder(req)'
    <2>. DEFINE one == Part(req, 1)
                two == Part(req, 2)
    <2>. HIDE DEF one, two
    <2>1. /\ Head(line) \in {one, two} /\ Tail(line) \in {<<>>, <<two>>}
          /\ Head(line) = two => Tail(line) = <<>>
          /\ line = <<two>> => Head(line) = two /\ Tail(line) = <<>>
      <3>1. line \in {<<one>>, <<two>>, <<one, two>>}
        BY <1>1, <1>5 DEF Fragments, one, two
      <3>2. one # two
        BY DEF one, two, Part
      <3>3. line = <<one>> => Head(line) = one /\ Tail(line) = <<>> /\ line[1] = one
        OBVIOUS
      <3>4. line = <<two>> => Head(line) = two /\ Tail(line) = <<>>
        OBVIOUS
      <3>5. line = <<one, two>> => Head(line) = one /\ Tail(line) = <<two>>
        OBVIOUS
      <3>. QED
        BY <3>1, <3>2, <3>3, <3>4, <3>5
    <2>2. CASE len = 0
      <3>1. data'[1] = Head(line)
        BY <1>1, <1>4, <2>2
      <3>2. FirstCopied(req)'
        BY <1>1, <2>1, <3>1 DEF FirstCopied, one, two
      <3>3. len' = 0 /\ note' = 1
        BY <1>1, <2>2
      <3>. QED
        BY <1>1, <2>1, <3>2, <3>3 DEF BtOrder, Fragments, two
    <2>3. CASE len = 1
      <3>1. data[1] = one /\ line = <<two>>
        BY <1>1, <1>5, <2>3 DEF BtOrder, FirstCopied, one, two
      <3>2. data'[1] = one /\ line' = <<>>
        BY <1>1, <1>4, <2>1, <2>3, <3>1
      <3>3. MaxData > 1 => data'[2] = two
        BY <1>1, <1>4, <2>1, <2>3, <3>1
      <3>4. len' = 1 /\ note' = 2
        BY <1>1, <2>3
      <3>5. FirstCopied(req)'
        BY <1>1, <3>2 DEF FirstCopied, one
      <3>6. BtOrder(req)'
        BY <1>1, <3>2, <3>3, <3>4, <3>5 DEF BtOrder, one, two
      <3>. QED
        BY <3>2, <3>6 DEF Fragments
    <2>. QED
      BY <1>7, <2>2, <2>3
  <1>. QED
    BY <1>1, <1>6, <1>8 DEF OrderInv

\* It counts the piece, from the count as it was or as bt_write and bt_read have set it.
LEMMA OrderAdd ==
    ASSUME TypeInv, OrderInv, CbAdd PROVE OrderInv'
  <1>. SUFFICES ASSUME Ordered', pc' \in Answered PROVE OrderInv'
    BY DEF OrderInv
  <1>1. /\ UNCHANGED <<kind, line, data, pc, req, drv, crossed, rbuf>> /\ note # 0 /\ note' = 0
        /\ \E n \in {len, note - 1} : len' = IF note <= MaxData THEN n + 1 ELSE n
    BY DEF CbAdd, user, result, history, driver, who, far
  <1>2. Ordered /\ pc \in Answered
    BY <1>1 DEF Ordered, Notes
  <1>3. line \in Fragments(req) /\ (kind = "bt" => BtOrder(req))
        /\ (pc \in {"clear", "judge"} => rbuf \in Fragments(req))
    BY <1>2 DEF OrderInv
  <1>4. kind = "bt" => BtOrder(req)'
    <2>. SUFFICES ASSUME kind = "bt" PROVE BtOrder(req)'
      OBVIOUS
    <2>1. /\ len \in 0..MaxData /\ note \in 1..(MaxData + 1) /\ len < note /\ note <= 2
          /\ MaxData \in Nat \ {0}
      BY <1>1, <1>3, ConstantsType DEF TypeInv, WorldType, BtOrder
    <2>2. len' <= 2 /\ (len' > 1 => note > 1)
      BY <1>1, <2>1
    <2>3. FirstCopied(req)'
      BY <1>1, <1>3 DEF BtOrder, FirstCopied
    <2>4. len' > 1 => /\ data'[1] = Part(req, 1) /\ line' = <<>>
                      /\ MaxData > 1 => data'[2] = Part(req, 2)
      BY <1>1, <1>3, <2>2 DEF BtOrder
    <2>. QED
      BY <1>1, <2>2, <2>3, <2>4 DEF BtOrder
  <1>. QED
    BY <1>1, <1>3, <1>4 DEF OrderInv

\* A driver goes on to another write, or reads again for the request under way.
LEMMA ReadsOn ==
    ASSUME JbdSteps \/ JkSteps
    PROVE  /\ handle' = handle /\ crossed' = crossed /\ ~Notes /\ who' = who
           /\ pc \in {"written", "judge"}
           /\ pc' \in {"write", "close"} \/ (pc' = "read" /\ req' = req)
  <1>1. handle' = handle /\ who' = who /\ ~Notes /\ pc \in {"written", "judge"}
    BY JbdStep, JkStep DEF Notes
  <1>2. crossed' = crossed
    BY DEF JbdSteps, RwWritten, CanWritten, RwError, CanError, RwAccept, CanAccept, RwAgain,
           CanAgain, JkSteps, JkWritten, JkWriteError, InfoError, InfoDone, InfoAgain, VoltsCome,
           VoltsWait, VoltsNever, history
  <1>3. Begin = "write"
    BY <1>1 DEF Begin
  <1>4. CASE RwAccept \/ CanAccept
    BY <1>1, <1>2, <1>3, <1>4 DEF RwAccept, CanAccept, Accept, Proceed
  <1>5. CASE RwAgain \/ CanAgain
    BY <1>1, <1>2, <1>3, <1>5 DEF RwAgain, CanAgain, Again, Return
  <1>6. CASE RwWritten \/ CanWritten \/ RwError \/ CanError
    BY <1>1, <1>2, <1>6 DEF RwWritten, CanWritten, RwError, CanError, Refuse, Return, At, user
  <1>7. CASE JkSteps
    BY <1>1, <1>2, <1>7 DEF JkSteps, JkWritten, JkWriteError, InfoError, InfoDone, InfoAgain,
                            VoltsCome, VoltsWait, VoltsNever, Refuse, Return, Jk, user
  <1>. QED
    BY <1>4, <1>5, <1>6, <1>7 DEF JbdSteps

LEMMA OrderStep ==
    ASSUME TypeInv, OrderInv, [Next]_vars PROVE OrderInv'
  <1>. SUFFICES ASSUME Ordered', pc' \in Answered PROVE OrderInv'
    BY DEF OrderInv
  <1>1. ASSUME UNCHANGED <<kind, line, inbox, pc, req, drv, crossed, rbuf>> PROVE OrderInv'
    <2>1. BtOrder(req) => BtOrder(req)'
      BY <1>1 DEF BtOrder, FirstCopied, inbox
    <2>. QED
      BY <1>1, <2>1 DEF OrderInv, Ordered, Notes
  <1>2. CASE PeerCloses \/ UNCHANGED vars \/ ((Hear \/ Forget) /\ UNCHANGED updated)
    <2>1. UNCHANGED <<kind, line, inbox, pc, req, drv, crossed, rbuf>>
      BY <1>2 DEF PeerCloses, Hear, Forget, vars, handle, far, driver, who, user, history, result
    <2>. QED
      BY <1>1, <2>1
  <1>3. CASE CbCopy \/ CbAdd
    BY <1>3, OrderCopy, OrderAdd
  <1>4. CASE Start
    BY <1>4 DEF Start, At, Answered
  <1>5. CASE Kill
    BY <1>5 DEF Kill, Answered
  <1>6. CASE Program
    <2>1. CASE Open /\ UNCHANGED driver
      BY <2>1 DEF Open, OpenAlready, OpenSucceeds, OpenFails, SetupFails, At, Answered
    <2>2. CASE (Write \/ Read) /\ UNCHANGED driver
      BY <2>2, OrderWrite, OrderRead DEF driver
    <2>3. CASE JbdSteps \/ JkSteps
      <3>1. UNCHANGED <<kind, line, inbox, drv, crossed, req>> /\ pc' = "read" /\ pc \in Answered
        BY <2>3, ReadsOn DEF handle, far, who, Answered
      <3>2. BtOrder(req) => BtOrder(req)'
        BY <3>1 DEF BtOrder, FirstCopied, inbox
      <3>. QED
        BY <3>1, <3>2 DEF OrderInv, Ordered, Notes
    <2>4. CASE RemoteSteps \/ PrehSteps
      BY <2>4, RemoteStep, PrehStep DEF who, Ordered, Notes
    <2>5. CASE Opened
      BY <2>5 DEF Opened, At, Begin, Ordered, Notes, Answered
    <2>6. CASE NotOpened \/ Close \/ CloseAll
      BY <2>6 DEF NotOpened, Close, CloseAll, At, Answered
    <2>7. CASE AsksToClose /\ DiesOfPipe("close")
      BY <2>7 DEF DiesOfPipe, Answered
    <2>. QED
      BY <1>6, <2>1, <2>2, <2>3, <2>4, <2>5, <2>6, <2>7 DEF Program
  <1>. QED
    BY <1>2, <1>3, <1>4, <1>5, <1>6 DEF Next, Ended

-----------------------------------------------------------------------------
(* What is in the buffer of a read.                                        *)

\* A frame was received for this request, or memory holds nothing that was.
BufferInv ==
    pc \in {"clear", "judge"} =>
        /\ kind = "ip" => AllNew(rbuf)
        /\ kind \in {"can", "can_ip"} =>
            /\ Len(rbuf) <= 1 /\ (res = "ok" => Len(rbuf) = 1)
            /\ \A j \in DOMAIN rbuf : rbuf[j] = Void \/ (rbuf[j].to = req /\ rbuf[j].age = "new")

LEMMA BufferRead ==
    ASSUME TypeInv, LineInv, BufferInv, Read, pc' \in {"clear", "judge"}
    PROVE  BufferInv'
  <1>. USE DEF user, result, handle, far, inbox
  <1>1. CASE ReadStream
    <2>1. PICK n \in 0..Len(line) : rbuf' = SubSeq(line, 1, n)
      BY <1>1 DEF ReadStream
    <2>2. /\ kind' = kind /\ kind \in {"ip", "serial"} /\ line \in Seq(Piece)
      BY <1>1 DEF ReadStream, Takes, TypeInv, WorldType
    <2>3. AllNew(line) => AllNew(rbuf)'
      BY <2>1, <2>2, CutNew DEF AllNew
    <2>. QED
      BY <2>2, <2>3 DEF BufferInv, LineInv
  <1>2. CASE ReadFails
    <2>1. rbuf' = <<>> /\ res' = "error"
      BY <1>2 DEF ReadFails
    <2>. QED
      BY <2>1 DEF BufferInv, AllNew
  <1>3. CASE BtNothing \/ BtTake
    <2>1. kind' = kind /\ kind = "bt"
      BY <1>3 DEF BtNothing, BtTake
    <2>. QED
      BY <2>1 DEF BufferInv
  <1>4. CASE BtClear
    <2>1. UNCHANGED <<kind, req, res, rbuf>> /\ pc = "clear"
      BY <1>4 DEF BtClear, At
    <2>. QED
      BY <2>1 DEF BufferInv, AllNew
  <1>5. CASE ReadFrame
    <2>1. PICK p \in 1..2 : rbuf' = <<Part(req, p)>>
      BY <1>5 DEF ReadFrame
    <2>2. kind' = kind /\ kind # "ip" /\ req' = req
      BY <1>5 DEF ReadFrame
    <2>3. Len(rbuf') = 1 /\ \A j \in DOMAIN rbuf' : rbuf'[j].to = req /\ rbuf'[j].age = "new"
      BY <2>1 DEF Part
    <2>. QED
      BY <2>2, <2>3 DEF BufferInv
  <1>6. CASE ReadHollow
    <2>1. rbuf' = <<Void>> /\ kind' = kind /\ kind # "ip"
      BY <1>6 DEF ReadHollow
    <2>2. Len(rbuf') = 1 /\ \A j \in DOMAIN rbuf' : rbuf'[j] = Void
      BY <2>1
    <2>. QED
      BY <2>1, <2>2 DEF BufferInv
  <1>7. CASE DiesOfPipe("read")
    BY <1>7 DEF DiesOfPipe
  <1>. QED
    BY <1>1, <1>2, <1>3, <1>4, <1>5, <1>6, <1>7 DEF Read

LEMMA BufferStep ==
    ASSUME TypeInv, LineInv, BufferInv, [Next]_vars PROVE BufferInv'
  <1>. SUFFICES ASSUME pc' \in {"clear", "judge"} PROVE BufferInv'
    BY DEF BufferInv
  <1>1. CASE \/ PeerCloses \/ CbCopy \/ CbAdd \/ UNCHANGED vars
             \/ ((Hear \/ Forget) /\ UNCHANGED updated)
    <2>1. UNCHANGED <<kind, pc, req, res, rbuf>>
      BY <1>1 DEF PeerCloses, CbCopy, CbAdd, Hear, Forget, vars, handle, user, result
    <2>. QED
      BY <2>1 DEF BufferInv, AllNew
  <1>2. CASE Start \/ Kill
    BY <1>2 DEF Start, Kill, At
  <1>3. CASE Program
    <2>1. CASE Read
      BY <2>1, BufferRead
    <2>2. CASE Open \/ Write
      <3>1. pc = "open" \/ pc = "write"
        BY <2>2 DEF Open, OpenAlready, OpenSucceeds, OpenFails, SetupFails, Write, WriteStream,
                    WriteFrame, WriteFails, DiesOfPipe, At
      <3>. QED
        BY <2>2, <3>1, TransportStep
    <2>3. CASE JbdSteps \/ JkSteps \/ RemoteSteps \/ PrehSteps
      BY <2>3, JbdStep, JkStep, RemoteStep, PrehStep DEF Begin
    <2>4. CASE Opened \/ NotOpened \/ Close \/ CloseAll
      BY <2>4 DEF Opened, NotOpened, Close, CloseAll, At, Begin
    <2>5. CASE AsksToClose /\ DiesOfPipe("close")
      BY <2>5 DEF DiesOfPipe
    <2>. QED
      BY <1>3, <2>1, <2>2, <2>3, <2>4, <2>5 DEF Program
  <1>. QED
    BY <1>1, <1>2, <1>3 DEF Next, Ended

-----------------------------------------------------------------------------
(* The answers that were taken.                                            *)

NewSession == ~hollow /\ kind # "serial" /\ (kind = "bt" => ~crossed)

AnswerInv == LineInv /\ OrderInv /\ BufferInv

TakenInv ==
    /\ drv = "jbd" /\ pc \in Asking => Len(got) = req - 1
    /\ NewSession => \A i \in DOMAIN got : AllNew(got[i])
    /\ ~hollow /\ ~crossed =>
        /\ drv = "jbd" => \A i \in DOMAIN got : AnswersItsRequest(i)
        /\ drv = "jk" => \A i \in DOMAIN got : Whole(got[i])

\* What holds of the answers that were taken, and of one more, holds of all.
LEMMA AlsoTaken ==
    ASSUME TypeInv, NEW b \in Buffer, got' = Append(got, b)
    PROVE  /\ Len(got) \in Nat /\ Len(got') = Len(got) + 1 /\ got'[Len(got) + 1] = b
           /\ \A i \in DOMAIN got' : (i \in DOMAIN got /\ got'[i] = got[i]) \/ i = Len(got) + 1
  <1>1. got \in Seq(Buffer)
    BY DEF TypeInv, GotType
  <1>2. /\ Append(got, b) \in Seq(Buffer) /\ Len(Append(got, b)) = Len(got) + 1
        /\ \A i \in 1..Len(got) : Append(got, b)[i] = got[i]
        /\ Append(got, b)[Len(got) + 1] = b
    BY <1>1, AppendProperties
  <1>3. DOMAIN got = 1..Len(got) /\ DOMAIN got' = 1..(Len(got) + 1) /\ Len(got) \in Nat
    BY <1>1, <1>2, LenProperties
  <1>4. \A i \in 1..(Len(got) + 1) : i \in 1..Len(got) \/ i = Len(got) + 1
    BY <1>3
  <1>. QED
    BY <1>2, <1>3, <1>4

\* Taking a buffer that is new and that answers the request.
LEMMA TakeOne ==
    ASSUME TypeInv, TakenInv, NEW b \in Buffer, got' = Append(got, b),
           UNCHANGED <<drv, kind, crossed>>, hollow => hollow', pc \in Asking,
           drv = "jbd" /\ pc' \in Asking => req' = req + 1,
           NewSession' => AllNew(b),
           ~hollow' /\ ~crossed => /\ drv = "jbd" => b[1].to = req
                                   /\ drv = "jk" => Whole(b)
    PROVE  TakenInv'
  <1>1. /\ Len(got) \in Nat /\ Len(got') = Len(got) + 1 /\ got'[Len(got) + 1] = b
        /\ \A i \in DOMAIN got' : (i \in DOMAIN got /\ got'[i] = got[i]) \/ i = Len(got) + 1
    BY AlsoTaken
  <1>2. req \in 1..2
    BY DEF TypeInv, UserType, Requests
  <1>3. drv = "jbd" => Len(got) + 1 = req
    BY <1>2 DEF TakenInv
  <1>4. drv' = "jbd" /\ pc' \in Asking => Len(got') = req' - 1
    BY <1>1, <1>2, <1>3
  <1>5. NewSession' => NewSession
    BY DEF NewSession
  <1>6. NewSession' => \A i \in DOMAIN got' : AllNew(got'[i])
    BY <1>1, <1>5 DEF TakenInv
  <1>7. ~hollow' /\ ~crossed' /\ drv' = "jbd" => \A i \in DOMAIN got' : AnswersItsRequest(i)'
    BY <1>1, <1>3 DEF TakenInv, AnswersItsRequest
  <1>8. ~hollow' /\ ~crossed' /\ drv' = "jk" => \A i \in DOMAIN got' : Whole(got'[i])
    BY <1>1 DEF TakenInv
  <1>. QED
    BY <1>4, <1>6, <1>7, <1>8 DEF TakenInv, Whole, AllNew

LEMMA NoneTaken ==
    ASSUME TakenInv, UNCHANGED <<drv, kind, got>>,
           crossed => crossed', hollow => hollow',
           drv = "jbd" /\ pc' \in Asking => pc \in Asking /\ req' = req
    PROVE  TakenInv'
  <1>1. NewSession' => NewSession
    BY DEF NewSession
  <1>. QED
    BY <1>1 DEF TakenInv, AnswersItsRequest, Whole, AllNew

LEMMA TakenInit == Init => AnswerInv /\ TakenInv
  <1>. SUFFICES ASSUME Init PROVE AnswerInv /\ TakenInv
    OBVIOUS
  <1>1. pc = "idle" /\ got = <<>>
    BY DEF Init
  <1>2. DOMAIN got = {}
    BY <1>1
  <1>. QED
    BY <1>1, <1>2, LineInit DEF AnswerInv, OrderInv, BufferInv, TakenInv, Asking, Answered

\* A buffer that was read over a byte stream.
LEMMA StreamBuffer ==
    ASSUME TypeInv, AnswerInv, pc = "judge", ~Notes, kind \in Streams
    PROVE  /\ req \in Requests /\ rbuf \in Buffer
           /\ ~crossed => rbuf \in Fragments(req)
           /\ NewSession => AllNew(rbuf)
  <1>1. req \in Requests /\ rbuf \in Buffer
    BY DEF TypeInv, UserType, Asking
  <1>2. ~crossed => rbuf \in Fragments(req)
    BY DEF AnswerInv, OrderInv, Ordered, Answered
  <1>3. kind = "ip" => AllNew(rbuf)
    BY DEF AnswerInv, BufferInv
  <1>4. NewSession => kind = "ip" \/ ~crossed
    BY DEF NewSession, Streams
  <1>. QED
    BY <1>1, <1>2, <1>3, <1>4, FragmentFacts

\* jbd_verify and the checksum of a frame leave it to the order of the answers.
LEMMA JbdTakes ==
    ASSUME TypeInv, AnswerInv, TakenInv, JbdSteps PROVE TakenInv'
  <1>1. /\ drv = "jbd" /\ ~Notes /\ Begin = "write" /\ pc \in {"written", "judge"}
        /\ drv' = drv /\ kind' = kind
    BY JbdStep DEF Notes, Begin, who, handle
  <1>2. crossed' = crossed
    BY ReadsOn
  <1>3. req \in 1..2
    BY <1>1 DEF TypeInv, UserType, Asking, Requests
  <1>4. ASSUME Accept PROVE pc' \in Asking => req' = req + 1
    BY <1>4 DEF Accept, Proceed, Asking
  <1>5. CASE RwAccept
    <2>1. /\ pc = "judge" /\ kind \in Streams /\ Whole(rbuf) /\ Accept /\ hollow' = hollow
      BY <1>5 DEF RwAccept, Jbd, Verified, history
    <2>2. /\ req \in Requests /\ rbuf \in Buffer /\ (~crossed => rbuf \in Fragments(req))
          /\ NewSession => AllNew(rbuf)
      BY <1>1, <2>1, StreamBuffer
    <2>3. ~crossed => rbuf[1].to = req
      <3>1. 1 \in DOMAIN rbuf
        BY <2>1, <2>2 DEF Whole, Buffer
      <3>. QED
        BY <2>2, <3>1, FragmentFacts
    <2>4. NewSession' => NewSession
      BY <1>1, <1>2, <2>1 DEF NewSession
    <2>5. got' = Append(got, rbuf) /\ (pc' \in Asking => req' = req + 1)
      BY <2>1, <1>4 DEF Accept
    <2>. QED
      BY <1>1, <1>2, <2>1, <2>2, <2>3, <2>4, <2>5, TakeOne DEF Asking
  <1>6. CASE CanAccept
    <2>1. pc = "judge" /\ kind \in {"can", "can_ip"} /\ res = "ok" /\ Accept
      BY <1>6 DEF CanAccept, Jbd
    <2>2. hollow' <=> (hollow \/ rbuf[1] = Void)
      BY <1>6, Zenon DEF CanAccept
    <2>3. rbuf \in Buffer /\ Len(rbuf) = 1 /\ DOMAIN rbuf = {1}
      <3>1. rbuf \in Buffer /\ Len(rbuf) = 1
        BY <2>1 DEF AnswerInv, BufferInv, TypeInv, UserType
      <3>2. DOMAIN rbuf = 1..1
        BY <3>1, LenProperties DEF Buffer
      <3>. QED
        BY <3>1, <3>2
    <2>4. ~hollow' => rbuf[1].to = req /\ rbuf[1].age = "new"
      BY <2>1, <2>2, <2>3 DEF AnswerInv, BufferInv
    <2>5. ~hollow' => AllNew(rbuf)
      BY <2>3, <2>4 DEF AllNew
    <2>6. got' = Append(got, rbuf) /\ (pc' \in Asking => req' = req + 1)
      BY <2>1, <1>4 DEF Accept
    <2>7. NewSession' => ~hollow'
      BY DEF NewSession
    <2>. QED
      BY <1>1, <1>2, <2>1, <2>2, <2>3, <2>4, <2>5, <2>6, <2>7, TakeOne DEF Asking
  <1>7. CASE RwWritten \/ CanWritten \/ RwError \/ CanError \/ RwAgain \/ CanAgain
    <2>1. got' = got /\ hollow' = hollow /\ (pc' \in Asking => req' = req)
      BY <1>7 DEF RwWritten, CanWritten, RwError, CanError, RwAgain, CanAgain, Refuse, Again,
                  Return, Asking, user, history
    <2>. QED
      BY <1>1, <1>2, <2>1, NoneTaken DEF Asking
  <1>. QED
    BY <1>5, <1>6, <1>7 DEF JbdSteps

\* getdata takes the first frame that it knows as one with voltages.
LEMMA JkTakes ==
    ASSUME TypeInv, AnswerInv, TakenInv, JkSteps PROVE TakenInv'
  <1>1. drv = "jk" /\ ~Notes /\ drv' = drv /\ kind' = kind
    BY JkStep DEF Notes, who, handle
  <1>2. crossed' = crossed /\ hollow' = hollow
    BY DEF JkSteps, JkWritten, JkWriteError, InfoError, InfoDone, InfoAgain, VoltsCome,
           VoltsWait, VoltsNever, history
  <1>3. CASE VoltsCome
    <2>. DEFINE b == Frame(rbuf)
                v == VoltsAt(rbuf)
    <2>1. pc = "judge" /\ req = Volts /\ v # 0 /\ got' = Append(got, b) /\ pc' = "close"
      BY <1>3 DEF VoltsCome, Jk, Return
    <2>2. rbuf \in Buffer /\ kind \in Kinds
      BY SessionAssumption DEF TypeInv, UserType, WorldType, SessionAssumption
    <2>3. /\ v \in FrameStarts(rbuf) /\ b \in Buffer /\ Len(b) = 2
          /\ b[1] = rbuf[v] /\ b[2] = rbuf[v + 1]
      BY <2>1, <2>2, FrameOf
    <2>. HIDE DEF b, v
    <2>4. v \in 1..(Len(rbuf) - 1) /\ Len(rbuf) \in Nat /\ DOMAIN rbuf = 1..Len(rbuf)
      BY <2>2, <2>3, LenProperties DEF FrameStarts, Buffer
    <2>5. Len(rbuf) > 1 /\ v \in DOMAIN rbuf /\ v + 1 \in DOMAIN rbuf
      BY <2>4
    <2>6. kind \in Streams
      <3>1. ~(Len(rbuf) <= 1)
        BY <2>4, <2>5
      <3>. QED
        BY <2>1, <2>2, <3>1 DEF AnswerInv, BufferInv, Kinds
    <2>7. /\ req \in Requests /\ (~crossed => rbuf \in Fragments(req))
          /\ NewSession => AllNew(rbuf)
      BY <1>1, <2>1, <2>6, StreamBuffer
    <2>8. NewSession => AllNew(b)
      <3>1. DOMAIN b = 1..2
        BY <2>3, LenProperties DEF Buffer
      <3>2. \A i \in 1..2 : i = 1 \/ i = 2
        OBVIOUS
      <3>. QED
        BY <2>3, <2>5, <2>7, <3>1, <3>2 DEF AllNew
    <2>9. ~crossed => Whole(b)
      <3>. SUFFICES ASSUME ~crossed PROVE Whole(b)
        OBVIOUS
      <3>1. /\ Len(rbuf) <= 2 /\ (Len(rbuf) = 2 => rbuf[1] = Part(req, 1) /\ rbuf[2] = Part(req, 2))
        BY <2>7, FragmentFacts
      <3>2. v = 1 /\ Len(rbuf) = 2 /\ v + 1 = 2
        BY <2>4, <3>1
      <3>3. b[1] = Part(req, 1) /\ b[2] = Part(req, 2)
        BY <2>3, <3>1, <3>2
      <3>. QED
        BY <2>3, <3>3 DEF Whole, Part
    <2>10. NewSession' => NewSession
      BY <1>1, <1>2 DEF NewSession
    <2>. QED
      BY <1>1, <1>2, <2>1, <2>3, <2>8, <2>9, <2>10, TakeOne DEF Asking
  <1>4. CASE ~VoltsCome
    <2>1. got' = got
      BY <1>4 DEF JkSteps, JkWritten, JkWriteError, InfoError, InfoDone, InfoAgain,
                  VoltsWait, VoltsNever, Refuse, Return
    <2>. QED
      BY <1>1, <1>2, <2>1, NoneTaken
  <1>. QED
    BY <1>3, <1>4

LEMMA RemoteTakes ==
    ASSUME TakenInv, RemoteSteps PROVE TakenInv'
  <1>1. drv \in {"preh", "si"} /\ drv' = drv /\ kind' = kind
    BY RemoteStep DEF who, handle, Notes
  <1>2. CASE FrameTaken
    <2>1. hollow'
      BY <1>2 DEF FrameTaken, FullSize
    <2>. QED
      BY <1>1, <2>1 DEF TakenInv, NewSession
  <1>3. CASE FrameAgain \/ FrameMissing
    <2>1. got' = got /\ crossed' = crossed /\ hollow' = hollow
      BY <1>3 DEF FrameAgain, FrameMissing, history
    <2>. QED
      BY <1>1, <2>1, NoneTaken
  <1>. QED
    BY <1>2, <1>3 DEF RemoteSteps

LEMMA TakenStep ==
    ASSUME TypeInv, AnswerInv, TakenInv, [Next]_vars PROVE TakenInv'
  <1>1. CASE \/ PeerCloses \/ CbCopy \/ CbAdd \/ UNCHANGED vars
             \/ ((Hear \/ Forget) /\ UNCHANGED updated)
    <2>1. UNCHANGED <<drv, kind, got, crossed, hollow, pc, req>>
      BY <1>1 DEF PeerCloses, CbCopy, CbAdd, Hear, Forget, vars, handle, user, history, driver, who
    <2>. QED
      BY <2>1, NoneTaken
  <1>2. CASE Start \/ CloseAll
    <2>1. got' = <<>> /\ pc' \in {"open", "idle"}
      BY <1>2 DEF Start, CloseAll, Forgotten, At
    <2>2. DOMAIN got' = {}
      BY <2>1
    <2>. QED
      BY <2>1, <2>2 DEF TakenInv, Asking
  <1>3. CASE Kill
    <2>1. UNCHANGED <<drv, kind, got, crossed, hollow>> /\ pc' = "closing"
      BY <1>3 DEF Kill, history, driver, who
    <2>. QED
      BY <2>1, NoneTaken DEF Asking
  <1>4. CASE Program /\ ~CloseAll
    <2>1. CASE (Open \/ Write \/ Read) /\ UNCHANGED <<driver, try, got, mailbox, updated>>
      <3>1. /\ kind' = kind /\ req' = req /\ hollow' = hollow /\ drv' = drv /\ got' = got
            /\ pc' \in Asking => pc \in Asking
        BY <2>1, TransportStep DEF driver, who, Asking
      <3>2. crossed => crossed'
        <4>1. CASE WriteStream \/ WriteFails
          BY <4>1, CrossedAt
        <4>2. CASE ~(WriteStream \/ WriteFails)
          <5>1. crossed' = crossed
            BY <2>1, <4>2 DEF Open, OpenAlready, OpenSucceeds, OpenFails, SetupFails, Write,
                  WriteFrame, DiesOfPipe, Read, ReadStream, ReadFails, BtNothing, BtTake, BtClear,
                  ReadFrame, ReadHollow, history
          <5>. QED
            BY <5>1
        <4>. QED
          BY <4>1, <4>2
      <3>. QED
        BY <3>1, <3>2, NoneTaken
    <2>2. CASE JbdSteps \/ JkSteps \/ RemoteSteps
      BY <2>2, JbdTakes, JkTakes, RemoteTakes
    <2>3. CASE PrehSteps
      <3>1. UNCHANGED <<drv, kind, got, hollow>> /\ drv = "preh"
        BY <2>3, PrehStep DEF who, handle
      <3>2. crossed' = crossed
        BY <2>3 DEF PrehSteps, Wait, FoundOther, FoundCells, TakeCells, NoState, PassOver, history
      <3>. QED
        BY <3>1, <3>2, NoneTaken
    <2>4. CASE Opened
      <3>1. /\ UNCHANGED <<drv, kind, got, crossed, hollow>> /\ req' = 1 /\ got = <<>>
        BY <2>4 DEF Opened, At, history, handle, TypeInv, GotType
      <3>2. DOMAIN got' = {} /\ Len(got') = 0
        BY <3>1
      <3>. QED
        BY <3>1, <3>2 DEF TakenInv
    <2>5. CASE NotOpened \/ Close
      <3>1. UNCHANGED <<drv, kind, got, crossed, hollow>> /\ pc' \in {"closing", "idle"}
        BY <2>5 DEF NotOpened, Close, CloseDriver, Release, At, history, handle, driver, who
      <3>. QED
        BY <3>1, NoneTaken DEF Asking
    <2>6. CASE AsksToClose /\ DiesOfPipe("close") /\ UNCHANGED <<driver, try, got, mailbox, updated>>
      <3>1. UNCHANGED <<drv, kind, got, crossed, hollow, pc, req>>
        BY <2>6 DEF DiesOfPipe, history, handle, driver, who
      <3>. QED
        BY <3>1, NoneTaken
    <2>. QED
      BY <1>4, <2>1, <2>2, <2>3, <2>4, <2>5, <2>6 DEF Program
  <1>. QED
    BY <1>1, <1>2, <1>3, <1>4 DEF Next, Ended

LEMMA TakenInvariant == Spec => [](TypeInv /\ AnswerInv /\ TakenInv)
  <1>1. TypeInv /\ AnswerInv /\ [Next]_vars => AnswerInv'
    BY LineStep, OrderStep, BufferStep DEF AnswerInv
  <1>2. TypeInv /\ AnswerInv /\ TakenInv /\ [Next]_vars => TakenInv'
    BY TakenStep
  <1>. QED
    BY <1>1, <1>2, TakenInit, TypeInvariant, PTL DEF Spec

\* An update takes for each request of jbd.c the answer to that request, and in jk.c a
\* whole frame of voltages, as long as no request was written with an earlier answer
\* outstanding and no frame came from nowhere: neither jbd_verify (jbd.c:55) nor getdata
\* of jk.c can tell, so it is the order on the line, and in bt.c's buffer under its
\* callback, that shows it.
THEOREM AnswersTheirs == Spec => []AnswersBelong
  <1>1. TakenInv => AnswersBelong
    BY DEF TakenInv, AnswersBelong
  <1>. QED
    BY <1>1, TakenInvariant, PTL

\* What is taken was sent in answer to this update and to no earlier one, because every
\* close drops what is under way (pack.c:158, pack.c:259, inverter.c:105), over every transport but
\* a serial line, and over bt while the callback was not overtaken by bt_write.
THEOREM AnswersFresh == Spec => []AnswersAreNew
  <1>1. TakenInv => AnswersAreNew
    BY DEF TakenInv, AnswersAreNew, NewSession, AllNew
  <1>. QED
    BY <1>1, TakenInvariant, PTL

=============================================================================
