----------------------------- MODULE FifoProofs -----------------------------
(***************************************************************************)
(* read_control executes whole lines in their order, for a buffer, a fifo  *)
(* and lines of any size and reads of any part of them, as long as no read *)
(* leaves a part of a line behind two whole ones.                          *)
(***************************************************************************)
EXTENDS ControlFifo, EntryListProofs

AllBytes == [line : Nat, at : Nat]
\* a byte of a line that was sent
Legit(b) == b.line \in DOMAIN sent /\ b.at \in 1..sent[b.line]

FifoTypes ==
  /\ pipe \in Seq(AllBytes) /\ Len(pipe) <= PipeSize
  /\ buf \in [1..BufSize -> AllBytes] /\ pos \in 0..BufSize /\ end \in 0..BufSize
  /\ pc \in {"poll", "scan"}
  /\ sent \in Seq(Nat \ {0, 1}) /\ lost \subseteq DOMAIN sent
  /\ done \in Seq(Seq(AllBytes))

\* What is in the buffer is old or new, but never of a line not yet sent.
BufLegit == \A k \in 1..BufSize : buf[k] = Nul \/ Legit(buf[k])

\* What keeps read_control from the old bytes behind pos: the last byte it has
\* not moved away yet is a newline, or there is one line at most to be found.
ScanSafe ==
  pc = "scan" =>
    /\ pos <= end
    /\ \/ pos = 0
       \/ IsNewline(buf[pos])
       \/ \A c, d \in 1..end : IsNewline(buf[c]) /\ IsNewline(buf[d]) => c = d /\ c <= pos

\* The inductive invariant.
Tame == FifoTypes /\ BufLegit /\ ScanSafe /\ BytesInOrder /\ WholeLinesInOrder
FInv == mixed \/ Tame

-----------------------------------------------------------------------------
LEMMA SentIs ==
  ASSUME FifoTypes
  PROVE  /\ Len(sent) \in Nat /\ DOMAIN sent = 1..Len(sent)
         /\ \A i \in DOMAIN sent : sent[i] \in Nat /\ sent[i] > 1
<1>1. sent \in Seq(Nat \ {0, 1})
  BY DEF FifoTypes
<1>2. \A i \in 1..Len(sent) : sent[i] \in Nat \ {0, 1}
  BY <1>1, ElementOfSeq
<1> QED BY <1>1, <1>2, LenProperties

LEMMA ByteIs ==
  /\ \A i, k \in Nat : /\ Byte(i, k) \in AllBytes
                       /\ Byte(i, k).line = i /\ Byte(i, k).at = k
  /\ \A b \in AllBytes : b = Byte(b.line, b.at)
  /\ Nul \in AllBytes
  BY DEF Byte, AllBytes, Nul

LEMMA BytesAre ==
  ASSUME NEW i \in Nat, NEW n \in Nat
  PROVE  /\ Bytes(i, n) \in Seq(AllBytes) /\ Len(Bytes(i, n)) = n
         /\ \A k \in 1..n : Bytes(i, n)[k] = Byte(i, k)
<1>1. \A k \in 1..n : Byte(i, k) \in AllBytes
  BY ByteIs
<1> QED BY <1>1 DEF Bytes

\* The bytes that wait, in the buffer and in the fifo.
LEMMA WaitingIs ==
  ASSUME FifoTypes
  PROVE  /\ Waiting \in Nat /\ pos \in Nat /\ Len(pipe) \in Nat /\ pos <= BufSize
         /\ \A k \in 1..Waiting : At(k) \in AllBytes
         /\ \A k \in 1..pos : At(k) = buf[k] /\ k \in 1..BufSize
         /\ \A k \in 1..Len(pipe) : At(pos + k) = pipe[k] /\ pipe[k] \in AllBytes
<1>1. pipe \in Seq(AllBytes) /\ Len(pipe) \in Nat /\ pos \in Nat /\ pos <= BufSize
  BY SizesAssumption, LenProperties DEF FifoTypes
<1>2. \A k \in 1..Len(pipe) : pipe[k] \in AllBytes
  BY <1>1, ElementOfSeq
<1>3. \A k \in 1..pos : k \in 1..BufSize /\ buf[k] \in AllBytes
  BY <1>1, SizesAssumption DEF FifoTypes
<1>4. \A k \in 1..Waiting : k > pos => k - pos \in 1..Len(pipe)
  BY <1>1 DEF Waiting
<1> QED BY <1>1, <1>2, <1>3, <1>4 DEF Waiting, At

\* A step that moves bytes from the fifo into the buffer only.
LEMMA SameBytes ==
  ASSUME BytesInOrder, UNCHANGED <<sent, done, lost>>, Waiting' = Waiting, Waiting \in Nat,
         \A k \in 1..Waiting : At(k)' = At(k)
  PROVE  BytesInOrder'
<1>1. \A b : IsNewline(b)' = IsNewline(b) /\ After(b)' = After(b)
  BY DEF IsNewline, After
<1>2. ASSUME NEW k \in 1..Waiting
      PROVE  /\ At(k)'.line \in DOMAIN sent /\ At(k)'.at \in 1..sent[At(k)'.line]
             /\ k > 1 => At(k)' = After(At(k - 1)')
  BY DEF BytesInOrder
<1>3. Waiting > 0 =>
        At(1)' = At(1) /\ At(1)'.at = 1 /\ At(Waiting)' = Byte(Len(sent), sent[Len(sent)])
  BY DEF BytesInOrder
<1>4. \A i \in DOMAIN sent :
        Executed(i)' \/ i \in lost' <=> Waiting = 0 \/ i < At(1)'.line
  BY <1>3 DEF BytesInOrder, Executed
<1> QED BY <1>1, <1>2, <1>3, <1>4 DEF BytesInOrder

-----------------------------------------------------------------------------
(***************************************************************************)
(* One turn of the loop.                                                   *)
(***************************************************************************)
\* The bytes up to the first newline are those of one line.  The first that were
\* not would follow a byte of it that is no newline.
LEMMA FirstLine ==
  ASSUME FifoTypes, BytesInOrder, NEW c \in 1..pos, IsNewline(buf[c]),
         \A k \in 1..(c - 1) : ~ IsNewline(buf[k])
  PROVE  /\ buf[1].line \in DOMAIN sent /\ c = sent[buf[1].line]
         /\ \A k \in 1..c : buf[k] = Byte(buf[1].line, k)
<1> DEFINE i == buf[1].line
           T == {k \in 1..c : buf[k] # Byte(i, k)}
<1>1. /\ pos \in Nat /\ Waiting \in Nat /\ Len(pipe) \in Nat /\ c \in Nat /\ c >= 1
      /\ \A k \in 1..pos : At(k) = buf[k]
  BY WaitingIs
<1>2. pos <= Waiting /\ Waiting > 0 /\ 1 \in 1..pos
  BY <1>1 DEF Waiting
<1>3. \A k \in 1..pos : buf[k] \in AllBytes
  BY <1>1, <1>2, WaitingIs
<1>4. /\ \A k \in 1..pos : /\ buf[k].line \in DOMAIN sent
                           /\ buf[k].at \in 1..sent[buf[k].line]
                           /\ k > 1 => buf[k] = After(buf[k - 1])
      /\ buf[1].at = 1
  <2>1. ASSUME NEW k \in 1..pos
        PROVE  k \in 1..Waiting /\ At(k) = buf[k] /\ (k > 1 => At(k - 1) = buf[k - 1])
    BY <1>1, <1>2
  <2> QED BY <1>2, <2>1 DEF BytesInOrder
<1>5. i \in DOMAIN sent /\ i \in Nat /\ buf[1] = Byte(i, 1)
  BY <1>2, <1>3, <1>4, ByteIs, SentIs
<1>6. T = {}
  <2>1. SUFFICES ASSUME T # {} PROVE FALSE
    OBVIOUS
  <2>2. PICK k \in T : \A j \in T : k <= j
    <3>1. T \subseteq Nat
      BY <1>1
    <3> QED BY <2>1, <3>1, LeastElement
  <2>3. /\ k \in 1..c /\ k \in Nat /\ k # 1 /\ k > 1 /\ buf[k] # Byte(i, k)
        /\ k \in 1..pos /\ k - 1 \in 1..(c - 1) /\ k - 1 \in 1..pos /\ k - 1 \in Nat
    BY <1>1, <1>5
  <2>4. buf[k - 1] = Byte(i, k - 1)
    <3>1. k - 1 \notin T
      BY <2>2, <2>3
    <3> QED BY <1>1, <2>3, <3>1
  <2>5. buf[k] = After(buf[k - 1]) /\ ~ IsNewline(buf[k - 1])
    BY <1>4, <2>3
  <2>6. buf[k] = Byte(i, k - 1 + 1)
    BY <1>5, <2>3, <2>4, <2>5, ByteIs DEF After
  <2> QED BY <2>3, <2>6
<1>7. \A k \in 1..c : buf[k] = Byte(i, k)
  BY <1>6
<1>8. c = sent[i]
  <2>1. buf[c] = Byte(i, c)
    BY <1>1, <1>7
  <2> QED BY <1>1, <1>5, <2>1, ByteIs DEF IsNewline
<1> QED BY <1>5, <1>7, <1>8

\* There is a NUL only behind the line: a command is given all of it.
LEMMA TextIs ==
  ASSUME FifoTypes, BytesInOrder, NEW c \in 1..pos, IsNewline(buf[c]),
         \A k \in 1..(c - 1) : ~ IsNewline(buf[k])
  PROVE  Text(c) = Bytes(buf[1].line, sent[buf[1].line] - 1)
<1> DEFINE i == buf[1].line
<1>1. /\ i \in DOMAIN sent /\ c = sent[i] /\ i \in Nat /\ i # 0
      /\ \A k \in 1..c : buf[k] = Byte(i, k)
  BY FirstLine, SentIs
<1>2. c \in Nat /\ c >= 1 /\ \A k \in 1..pos : k \in 1..BufSize
  BY WaitingIs
<1>3. \A k \in 1..c : buf[k] # Nul /\ buf[k] \in AllBytes
  <2>1. ASSUME NEW k \in 1..c PROVE buf[k].line = i /\ buf[k] \in AllBytes
    BY <1>1, <1>2, ByteIs
  <2>2. Nul.line = 0
    BY ByteIs DEF Nul
  <2> QED BY <1>1, <2>1, <2>2
<1>4. \A n \in 0..(c - 1) : TextEnds(c, n) <=> n = c - 1
  BY <1>2, <1>3 DEF TextEnds
<1>5. Text(c) = SubSeq(buf, 1, c - 1)
  <2>1. (CHOOSE n \in 0..(c - 1) : TextEnds(c, n)) = c - 1
    BY <1>2, <1>4
  <2> QED BY <2>1 DEF Text
<1>6. /\ SubSeq(buf, 1, c - 1) \in Seq(AllBytes)
      /\ Len(SubSeq(buf, 1, c - 1)) = c - 1
      /\ \A k \in 1..(c - 1) : SubSeq(buf, 1, c - 1)[k] = buf[k]
  <2>1. \A k \in 1..(c - 1) : buf[k] \in AllBytes
    BY <1>2, <1>3
  <2>2. /\ SubSeq(buf, 1, c - 1) \in Seq(AllBytes)
        /\ Len(SubSeq(buf, 1, c - 1)) = IF 1 <= c - 1 THEN c - 1 - 1 + 1 ELSE 0
        /\ \A k \in 1..(c - 1 - 1 + 1) : SubSeq(buf, 1, c - 1)[k] = buf[1 + k - 1]
    BY <1>2, <2>1, SubSeqProperties
  <2> QED BY <1>2, <2>2
<1>7. /\ Bytes(i, c - 1) \in Seq(AllBytes) /\ Len(Bytes(i, c - 1)) = c - 1
      /\ \A k \in 1..(c - 1) : Bytes(i, c - 1)[k] = Byte(i, k)
  <2>1. c - 1 \in Nat
    BY <1>2
  <2> QED BY <1>1, <2>1, BytesAre
<1>8. SubSeq(buf, 1, c - 1) = Bytes(i, c - 1)
  <2>1. \A k \in 1..(c - 1) : SubSeq(buf, 1, c - 1)[k] = Bytes(i, c - 1)[k]
    BY <1>1, <1>2, <1>6, <1>7
  <2> QED BY <1>6, <1>7, <2>1, SeqEqual
<1> QED BY <1>1, <1>5, <1>8

\* The newline that is found is not one of the old bytes.
LEMMA FoundInside ==
  ASSUME FifoTypes, ScanSafe, BytesInOrder, pc = "scan", pos # 0, NEW c \in 1..end,
         LineEnds(c)
  PROVE  c \in 1..pos
<1>1. pos \in Nat /\ pos <= end /\ end \in Nat /\ c \in Nat /\ c >= 1
  BY WaitingIs, SizesAssumption DEF ScanSafe, FifoTypes
<1>2. CASE IsNewline(buf[pos])
  <2>1. ~ (pos \in 1..(c - 1))
    BY <1>2 DEF LineEnds
  <2> QED BY <1>1, <2>1
<1>3. CASE \A d, e \in 1..end : IsNewline(buf[d]) /\ IsNewline(buf[e]) => d = e /\ d <= pos
  BY <1>1, <1>3 DEF LineEnds
<1> QED BY <1>2, <1>3 DEF ScanSafe

\* memmove: what was at k + c is at k.
LEMMA MovedIs ==
  ASSUME FifoTypes, BufLegit, NEW c \in 1..pos
  PROVE  /\ Moved(c) \in [1..BufSize -> AllBytes]
         /\ \A k \in 1..BufSize : Moved(c)[k] = Nul \/ Legit(Moved(c)[k])
         /\ \A k \in 1..(pos - c) : k + c \in 1..pos /\ Moved(c)[k] = buf[k + c]
         /\ Moved(c)[c] = (IF c <= pos - c THEN buf[c + c] ELSE Nul)
         /\ \A k \in 1..BufSize : k > pos - c /\ k # c => Moved(c)[k] = buf[k]
<1>1. /\ pos \in Nat /\ pos <= BufSize /\ BufSize \in Nat /\ c \in Nat /\ c >= 1 /\ c <= pos
      /\ buf \in [1..BufSize -> AllBytes] /\ c \in 1..BufSize
  BY WaitingIs, SizesAssumption DEF FifoTypes
<1>2. \A k \in 1..BufSize : Parsed(c)[k] = IF k = c THEN Nul ELSE buf[k]
  BY <1>1 DEF Parsed
<1>3. \A k \in 1..BufSize : k <= pos - c => k + c \in 1..BufSize /\ k + c # c
  BY <1>1
<1>4. \A k \in 1..BufSize :
        Moved(c)[k] = IF k <= pos - c THEN buf[k + c] ELSE IF k = c THEN Nul ELSE buf[k]
  BY <1>2, <1>3 DEF Moved
<1>5. \A k \in 1..BufSize : /\ Moved(c)[k] \in AllBytes
                            /\ Moved(c)[k] = Nul \/ Legit(Moved(c)[k])
  BY <1>1, <1>3, <1>4, ByteIs DEF BufLegit
<1>6. Moved(c) = [k \in 1..BufSize |-> Moved(c)[k]]
  BY DEF Moved
<1>7. Moved(c) \in [1..BufSize -> AllBytes]
  <2> DEFINE M == Moved(c)
  <2>1. M = [k \in 1..BufSize |-> M[k]] /\ \A k \in 1..BufSize : M[k] \in AllBytes
    BY <1>5, <1>6
  <2> HIDE DEF M
  <2>2. M \in [1..BufSize -> AllBytes]
    BY <2>1
  <2> QED BY <2>2 DEF M
<1>8. \A k \in 1..(pos - c) : k \in 1..BufSize /\ k + c \in 1..pos /\ k <= pos - c
  BY <1>1
<1>9. \A k \in 1..(pos - c) : Moved(c)[k] = buf[k + c]
  BY <1>4, <1>8
<1>10. Moved(c)[c] = (IF c <= pos - c THEN buf[c + c] ELSE Nul)
  BY <1>1, <1>4
<1>11. \A k \in 1..BufSize : k > pos - c /\ k # c => Moved(c)[k] = buf[k]
  BY <1>1, <1>4
<1> QED BY <1>5, <1>7, <1>8, <1>9, <1>10, <1>11

\* What is behind the line moves to the front, and the bytes in the fifo follow it.
LEMMA Shifted ==
  ASSUME FifoTypes, BufLegit, NEW c \in 1..pos,
         buf' = Moved(c), pos' = pos - c, UNCHANGED pipe
  PROVE  /\ Waiting' = Waiting - c /\ Waiting' \in Nat /\ c \in Nat
         /\ \A k \in 1..Waiting' : k + c \in 1..Waiting /\ At(k)' = At(k + c)
<1>1. /\ pos \in Nat /\ Len(pipe) \in Nat /\ c \in Nat /\ c >= 1 /\ c <= pos
      /\ Waiting \in Nat
  BY WaitingIs
<1>2. Waiting' = Waiting - c /\ Waiting' \in Nat
  BY <1>1 DEF Waiting
<1>3. ASSUME NEW k \in 1..Waiting', k <= pos - c
      PROVE  At(k)' = At(k + c)
  <2>1. k \in 1..(pos - c) /\ k \in Nat /\ k + c <= pos
    BY <1>1, <1>2, <1>3
  <2>2. Moved(c)[k] = buf[k + c]
    BY <2>1, MovedIs
  <2> QED BY <1>3, <2>1, <2>2 DEF At
<1>4. ASSUME NEW k \in 1..Waiting', ~ (k <= pos - c)
      PROVE  At(k)' = At(k + c)
  <2>1. k \in Nat /\ ~ (k + c <= pos) /\ k - (pos - c) = k + c - pos
    BY <1>1, <1>2, <1>4
  <2>2. At(k)' = pipe[k - (pos - c)]
    BY <1>4 DEF At
  <2>3. \A m : ~ (m <= pos) => At(m) = pipe[m - pos]
    BY DEF At
  <2>4. At(k + c) = pipe[k + c - pos]
    BY <1>1, <2>1, <2>3
  <2> QED BY <2>1, <2>2, <2>4
<1>5. \A k \in 1..Waiting' : k + c \in 1..Waiting
  BY <1>1, <1>2
<1> QED BY <1>1, <1>2, <1>3, <1>4, <1>5

\* A line that is given to a command is executed then, and the others as before.
LEMMA NowExecuted ==
  ASSUME FifoTypes, NEW i \in DOMAIN sent, done' = Append(done, Bytes(i, sent[i] - 1))
  PROVE  /\ Bytes(i, sent[i] - 1) \in Seq(AllBytes) /\ Bytes(i, sent[i] - 1) # << >>
         /\ Bytes(i, sent[i] - 1)[1] = Byte(i, 1) /\ Byte(i, 1).line = i
         /\ Len(done) \in Nat /\ DOMAIN done = 1..Len(done)
         /\ DOMAIN done' = 1..(Len(done) + 1)
         /\ \A n \in DOMAIN done : done'[n] = done[n]
         /\ done'[Len(done) + 1] = Bytes(i, sent[i] - 1)
         /\ \A j : Executed(j)' <=> Executed(j) \/ j = i
<1> DEFINE T == Bytes(i, sent[i] - 1)
<1>1. i \in Nat /\ sent[i] - 1 \in Nat /\ sent[i] - 1 >= 1
  BY SentIs
<1>2. T \in Seq(AllBytes) /\ Len(T) = sent[i] - 1 /\ T[1] = Byte(i, 1)
  <2>1. 1 \in 1..(sent[i] - 1)
    BY <1>1
  <2> QED BY <1>1, <2>1, BytesAre
<1>3. T # << >> /\ Byte(i, 1).line = i
  BY <1>1, <1>2, ByteIs
<1>4. done \in Seq(Seq(AllBytes)) /\ Len(done) \in Nat /\ DOMAIN done = 1..Len(done)
  BY LenProperties DEF FifoTypes
<1> HIDE DEF T
<1>5. /\ DOMAIN Append(done, T) = 1..(Len(done) + 1)
      /\ \A n \in DOMAIN done : Append(done, T)[n] = done[n]
      /\ Append(done, T)[Len(done) + 1] = T
  BY <1>2, <1>4
<1>6. done' = Append(done, T)
  BY DEF T
<1>7. \A j : Executed(j)' <=> Executed(j) \/ j = i
  <2>1. Len(done) + 1 \in DOMAIN done' /\ \A n \in DOMAIN done' : n \in DOMAIN done \/ n = Len(done) + 1
    BY <1>4, <1>5, <1>6
  <2>2. \A n \in DOMAIN done : n \in DOMAIN done'
    BY <1>4, <1>5, <1>6
  <2> QED BY <1>2, <1>3, <1>5, <1>6, <2>1, <2>2 DEF Executed
<1> QED BY <1>2, <1>3, <1>4, <1>5, <1>6, <1>7 DEF T

\* The line taken is the next in order, and what waits then begins with the one
\* behind it.
LEMMA OrderTaken ==
  ASSUME FifoTypes, BufLegit, BytesInOrder, WholeLinesInOrder,
         NEW c \in 1..pos, IsNewline(buf[c]), \A k \in 1..(c - 1) : ~ IsNewline(buf[k]),
         done' = Append(done, Text(c)), buf' = Moved(c), pos' = pos - c,
         UNCHANGED <<pipe, end, sent, lost>>
  PROVE  BytesInOrder' /\ WholeLinesInOrder'
<1> DEFINE i == buf[1].line
<1>1. /\ i \in DOMAIN sent /\ c = sent[i] /\ buf[c] = Byte(i, c)
      /\ done' = Append(done, Bytes(i, sent[i] - 1))
  <2>1. c \in 1..c
    BY WaitingIs
  <2> QED BY <2>1, FirstLine, TextIs
<1>2. /\ i \in Nat /\ Len(sent) \in Nat /\ DOMAIN sent = 1..Len(sent)
      /\ c \in Nat /\ c >= 1 /\ Waiting \in Nat /\ Waiting >= c
      /\ At(1) = buf[1] /\ At(c) = buf[c] /\ At(1).line = i
  <2>1. /\ pos \in Nat /\ Len(pipe) \in Nat /\ Waiting \in Nat
        /\ \A k \in 1..pos : At(k) = buf[k]
    BY WaitingIs
  <2>2. 1 \in 1..pos
    BY <2>1
  <2>3. Waiting >= c
    BY <2>1 DEF Waiting
  <2>4. At(1) = buf[1] /\ At(c) = buf[c] /\ At(1).line = i
    BY <2>1, <2>2
  <2>5. i \in Nat /\ Len(sent) \in Nat /\ DOMAIN sent = 1..Len(sent)
    BY <1>1, SentIs
  <2> QED BY <2>1, <2>3, <2>4, <2>5
<1>3. /\ Waiting' = Waiting - c /\ Waiting' \in Nat
      /\ \A k \in 1..Waiting' : k + c \in 1..Waiting /\ At(k)' = At(k + c)
  BY Shifted
<1>4. \A j \in DOMAIN sent : Executed(j) \/ j \in lost <=> j < i
  <2>1. ~ (Waiting = 0)
    BY <1>2
  <2> QED BY <1>2, <2>1 DEF BytesInOrder
<1>5. \A j : Executed(j)' <=> Executed(j) \/ j = i
  BY <1>1, NowExecuted
<1>6. \A b : IsNewline(b)' = IsNewline(b) /\ After(b)' = After(b)
  BY DEF IsNewline, After
<1>7. ASSUME NEW k \in 1..Waiting'
      PROVE  /\ At(k)'.line \in DOMAIN sent' /\ At(k)'.at \in 1..sent'[At(k)'.line]
             /\ k > 1 => At(k)' = After(At(k - 1))'
  <2>1. At(k)' = At(k + c) /\ k + c \in 1..Waiting
    BY <1>3
  <2>2. At(k + c).line \in DOMAIN sent /\ At(k + c).at \in 1..sent[At(k + c).line]
    BY <2>1 DEF BytesInOrder
  <2>3. ASSUME k > 1 PROVE At(k)' = After(At(k - 1))'
    <3>1. k - 1 \in 1..Waiting' /\ k + c - 1 = k - 1 + c /\ k + c > 1
      BY <1>2, <1>3, <2>3
    <3>2. At(k - 1)' = At(k + c - 1)
      BY <1>3, <3>1
    <3>3. At(k + c) = After(At(k + c - 1))
      BY <2>1, <3>1 DEF BytesInOrder
    <3>4. After(At(k - 1))' = After(At(k - 1)')
      BY DEF After, IsNewline
    <3> QED BY <2>1, <3>2, <3>3, <3>4
  <2> QED BY <2>1, <2>2, <2>3
<1>8. ASSUME Waiting' > 0
      PROVE  At(1)' = Byte(i + 1, 1) /\ At(Waiting)' = At(Waiting)
  <2>1. /\ 1 \in 1..Waiting' /\ Waiting' \in 1..Waiting' /\ Waiting' + c = Waiting
        /\ 1 + c \in 1..Waiting /\ 1 + c > 1 /\ 1 + c - 1 = c
    BY <1>2, <1>3, <1>8
  <2>2. At(1)' = At(1 + c) /\ At(Waiting)' = At(Waiting)
    BY <1>3, <2>1
  <2>3. At(1 + c) = After(At(c))
    BY <2>1 DEF BytesInOrder
  <2>4. After(Byte(i, c)) = Byte(i + 1, 1)
    BY <1>1, <1>2, ByteIs DEF After
  <2> QED BY <1>1, <1>2, <2>2, <2>3, <2>4
<1>9. ASSUME Waiting' = 0 PROVE i = Len(sent)
  <2>1. c = Waiting /\ Waiting > 0
    BY <1>2, <1>3, <1>9
  <2>2. Byte(i, c) = Byte(Len(sent), sent[Len(sent)])
    BY <1>1, <1>2, <2>1 DEF BytesInOrder
  <2> QED BY <2>2 DEF Byte
<1>10. ASSUME NEW j \in DOMAIN sent
       PROVE  Executed(j)' \/ j \in lost <=> Waiting' = 0 \/ j < At(1)'.line
  <2>1. Executed(j)' \/ j \in lost <=> j <= i
    BY <1>2, <1>4, <1>5
  <2>2. CASE Waiting' = 0
    BY <1>2, <1>9, <2>1, <2>2
  <2>3. CASE Waiting' > 0
    <3>1. At(1)'.line = i + 1
      BY <1>2, <1>8, <2>3, ByteIs
    <3> QED BY <1>2, <1>3, <2>1, <2>3, <3>1
  <2> QED BY <1>3, <2>2, <2>3
<1>11. Waiting' > 0 => /\ At(1)'.at = 1
                       /\ At(Waiting)' = Byte(Len(sent), sent[Len(sent)])
  <2>1. SUFFICES ASSUME Waiting' > 0
                 PROVE  /\ At(1)'.at = 1
                        /\ At(Waiting)' = Byte(Len(sent), sent[Len(sent)])
    OBVIOUS
  <2>2. At(Waiting) = Byte(Len(sent), sent[Len(sent)])
    BY <1>2 DEF BytesInOrder
  <2> QED BY <1>2, <1>8, <2>1, <2>2, ByteIs
<1>12. BytesInOrder'
  BY <1>7, <1>10, <1>11 DEF BytesInOrder
<1>13. WholeLinesInOrder'
  <2> DEFINE T == Bytes(i, sent[i] - 1)
             m0 == Len(done) + 1
  <2>1. /\ T # << >> /\ T[1] = Byte(i, 1) /\ T[1].line = i
        /\ m0 \in Nat /\ DOMAIN done = 1..(m0 - 1) /\ DOMAIN done' = 1..m0
        /\ \A n \in DOMAIN done : done'[n] = done[n]
        /\ done'[m0] = T
    <3>1. Len(done) + 1 - 1 = Len(done) /\ Len(done) + 1 \in Nat
      BY <1>1, NowExecuted
    <3> QED BY <1>1, <3>1, NowExecuted
  <2> HIDE DEF m0
  <2>2. \A n \in DOMAIN done' : n \in DOMAIN done \/ n = m0
    BY <2>1
  <2>3. \A n \in DOMAIN done :
          /\ done[n] # << >> /\ done[n][1].line \in DOMAIN sent
          /\ done[n] = Bytes(done[n][1].line, sent[done[n][1].line] - 1)
    BY DEF WholeLinesInOrder
  <2>4. \A n \in DOMAIN done : done[n][1].line < i
    BY <1>4, <2>3 DEF Executed
  <2>5. ASSUME NEW n \in DOMAIN done'
        PROVE  /\ done'[n] # << >> /\ done'[n][1].line \in DOMAIN sent
               /\ done'[n] = Bytes(done'[n][1].line, sent[done'[n][1].line] - 1)
    <3>1. CASE n = m0
      <4>1. done'[n] = T /\ done'[n][1].line = i
        BY <2>1, <3>1
      <4> QED BY <1>1, <2>1, <4>1
    <3>2. CASE n \in DOMAIN done
      <4>1. done'[n] = done[n]
        BY <2>1, <3>2
      <4> QED BY <2>3, <3>2, <4>1
    <3> QED BY <2>2, <3>1, <3>2
  <2>6. ASSUME NEW m \in DOMAIN done', NEW n \in DOMAIN done', m < n
        PROVE  done'[m][1].line < done'[n][1].line
    <3>1. m \in DOMAIN done
      BY <2>1, <2>6
    <3>2. CASE n = m0
      BY <2>1, <2>4, <3>1, <3>2
    <3>3. CASE n \in DOMAIN done
      <4>1. done[m][1].line < done[n][1].line
        BY <2>6, <3>1, <3>3 DEF WholeLinesInOrder
      <4> QED BY <2>1, <3>1, <3>3, <4>1
    <3> QED BY <2>2, <3>2, <3>3
  <2>7. \A k : Bytes(k, sent[k] - 1)' = Bytes(k, sent[k] - 1)
    BY DEF Bytes, Byte
  <2> QED BY <2>5, <2>6, <2>7 DEF WholeLinesInOrder
<1> QED BY <1>12, <1>13

\* The turn leaves the reader as safe from old bytes as it was.
LEMMA SafeTaken ==
  ASSUME FifoTypes, BufLegit, ScanSafe, pc = "scan", NEW c \in 1..pos, c \in 1..end,
         LineEnds(c), buf' = Moved(c), pos' = pos - c, UNCHANGED <<end, sent>>
  PROVE  ScanSafe'
<1>1. /\ pos \in Nat /\ end \in Nat /\ pos <= end /\ end <= BufSize /\ BufSize \in Nat
      /\ c \in Nat /\ c >= 1 /\ c <= pos /\ IsNewline(buf[c])
  BY WaitingIs, SizesAssumption DEF FifoTypes, ScanSafe, LineEnds
<1>2. \A b : IsNewline(b)' = IsNewline(b)
  BY DEF IsNewline
<1>3. CASE pos' = 0
  BY <1>1, <1>3 DEF ScanSafe
<1>4. CASE pos' # 0 /\ IsNewline(buf[pos])
  <2>1. pos - c \in 1..(pos - c) /\ pos - c + c = pos
    BY <1>1, <1>4
  <2>2. buf'[pos'] = buf[pos]
    BY <2>1, MovedIs
  <2> QED BY <1>1, <1>2, <1>4, <2>2 DEF ScanSafe
<1>5. CASE \A d, e \in 1..end : IsNewline(buf[d]) /\ IsNewline(buf[e]) => d = e /\ d <= pos
  <2>1. \A d \in 1..end : IsNewline(buf[d]) => d = c
    BY <1>1, <1>5
  <2>2. ASSUME NEW k \in 1..end PROVE ~ IsNewline(buf'[k])
    <3>1. k \in Nat /\ k >= 1 /\ k \in 1..BufSize
      BY <1>1
    <3>2. CASE k <= pos - c
      <4>1. k \in 1..(pos - c) /\ k + c \in 1..end /\ k + c # c
        BY <1>1, <3>1, <3>2
      <4>2. buf'[k] = buf[k + c]
        BY <4>1, MovedIs
      <4> QED BY <2>1, <4>1, <4>2
    <3>3. CASE k > pos - c /\ k = c
      <4>1. buf'[k] = Nul
        BY <1>1, <3>3, MovedIs
      <4> QED BY <4>1 DEF IsNewline
    <3>4. CASE k > pos - c /\ k # c
      <4>1. buf'[k] = buf[k]
        BY <3>1, <3>4, MovedIs
      <4> QED BY <2>1, <3>4, <4>1
    <3> QED BY <1>1, <3>1, <3>2, <3>3, <3>4
  <2>3. pos' <= end
    BY <1>1
  <2> QED BY <1>2, <2>2, <2>3 DEF ScanSafe
<1>6. \/ pos' = 0 
      \/ pos' # 0 /\ IsNewline(buf[pos])
      \/ \A d, e \in 1..end : IsNewline(buf[d]) /\ IsNewline(buf[e]) => d = e /\ d <= pos
  <2>1. pos # 0
    BY <1>1
  <2> QED BY <2>1 DEF ScanSafe
<1> QED BY <1>3, <1>4, <1>5, <1>6

LEMMA TakeStep ==
  ASSUME Tame, TakeLine
  PROVE  Tame'
<1>1. FifoTypes /\ BufLegit /\ ScanSafe /\ BytesInOrder /\ WholeLinesInOrder
  BY DEF Tame
<1>2. /\ pc = "scan" /\ pos # 0
      /\ UNCHANGED <<pipe, end, sent, lost, mixed>>
  BY DEF TakeLine
<1>0. PICK c \in 1..end :
        /\ LineEnds(c) /\ done' = Append(done, Text(c))
        /\ buf' = IF c = end THEN Parsed(c) ELSE Moved(c)
        /\ pos' = pos - c /\ pc' = IF pos < c /\ c # end THEN "crashed" ELSE "scan"
  BY DEF TakeLine
\* the last byte read is the last one that waits: there is nothing to move
<1>3. /\ LineEnds(c) /\ done' = Append(done, Text(c)) /\ buf' = Moved(c)
      /\ pos' = pos - c /\ pc' = IF pos < c /\ c # end THEN "crashed" ELSE "scan"
  <2>1. CASE c = end
    <3>1. /\ c \in 1..pos /\ pos \in Nat /\ pos <= end /\ end \in Nat /\ c \in Nat
          /\ buf \in [1..BufSize -> AllBytes]
      BY <1>0, <1>1, <1>2, FoundInside, WaitingIs, SizesAssumption DEF ScanSafe, FifoTypes
    <3>2. pos - c = 0
      BY <2>1, <3>1
    <3>3. \A k \in 1..BufSize : ~ (k <= pos - c)
      BY <3>2
    <3>4. Moved(c) = [k \in 1..BufSize |-> Parsed(c)[k]]
      BY <3>3 DEF Moved
    <3>5. Parsed(c) = [k \in 1..BufSize |-> Parsed(c)[k]]
      BY <3>1 DEF Parsed
    <3> QED BY <1>0, <2>1, <3>4, <3>5
  <2>2. CASE c # end
    BY <1>0, <2>2
  <2> QED BY <2>1, <2>2
<1>4. /\ c \in 1..pos /\ IsNewline(buf[c]) /\ \A k \in 1..(c - 1) : ~ IsNewline(buf[k])
      /\ pos \in Nat /\ c \in Nat /\ c >= 1 /\ c <= pos /\ BufSize \in Nat
  <2>1. c \in 1..pos
    BY <1>1, <1>2, <1>3, FoundInside
  <2> QED BY <1>1, <1>3, <2>1, WaitingIs, SizesAssumption DEF LineEnds
<1>5. FifoTypes'
  <2>1. pos' \in 0..BufSize /\ pc' = "scan"
    BY <1>1, <1>3, <1>4 DEF FifoTypes
  <2>2. buf' \in [1..BufSize -> AllBytes]
    BY <1>1, <1>3, <1>4, MovedIs
  <2>3. done' \in Seq(Seq(AllBytes))
    <3>1. Text(c) \in Seq(AllBytes)
      <4> DEFINE i == buf[1].line
      <4>1. Text(c) = Bytes(i, sent[i] - 1)
        BY <1>1, <1>4, TextIs
      <4>2. i \in DOMAIN sent
        BY <1>1, <1>4, FirstLine
      <4> HIDE DEF i
      <4>3. i \in Nat /\ sent[i] - 1 \in Nat
        BY <1>1, <4>2, SentIs
      <4>4. Bytes(i, sent[i] - 1) \in Seq(AllBytes)
        BY <4>3, BytesAre
      <4> QED BY <4>1, <4>4
    <3>2. done \in Seq(Seq(AllBytes))
      BY <1>1 DEF FifoTypes
    <3> QED BY <1>3, <3>1, <3>2
  <2> QED BY <1>1, <1>2, <2>1, <2>2, <2>3 DEF FifoTypes
<1>6. BufLegit'
  <2>1. \A k \in 1..BufSize : buf'[k] = Nul \/ Legit(buf'[k])
    BY <1>1, <1>3, <1>4, MovedIs
  <2>2. \A b : Legit(b)' = Legit(b)
    BY <1>2 DEF Legit
  <2> QED BY <2>1, <2>2 DEF BufLegit, Legit
<1>7. ScanSafe'
  BY <1>1, <1>2, <1>3, <1>4, SafeTaken
<1>8. BytesInOrder' /\ WholeLinesInOrder'
  BY <1>1, <1>2, <1>3, <1>4, OrderTaken
<1> QED BY <1>5, <1>6, <1>7, <1>8 DEF Tame

-----------------------------------------------------------------------------
\* A read moves bytes from the front of the fifo to behind those of the buffer, and
\* unless it mixes, the old bytes behind them stay out of reach.
LEMMA ReadStep ==
  ASSUME Tame, Read, ~ mixed'
  PROVE  Tame'
<1> DEFINE n == ReadSize
<1>1. FifoTypes /\ BufLegit /\ ScanSafe /\ BytesInOrder /\ WholeLinesInOrder
  BY DEF Tame
<1>2. /\ buf' = [k \in 1..BufSize |->
                   IF k > pos /\ k <= pos + n THEN pipe[k - pos] ELSE buf[k]]
      /\ pipe' = SubSeq(pipe, n + 1, Len(pipe))
      /\ pos' = pos + n /\ end' = pos + n /\ pc' = "scan"
      /\ UNCHANGED <<sent, done, lost>> /\ ~ Mixes(buf', pos + n)
  BY DEF Read
<1>3. /\ pos \in Nat /\ pos <= BufSize /\ BufSize \in Nat /\ Len(pipe) \in Nat
      /\ Waiting \in Nat /\ Len(pipe) <= PipeSize /\ PipeSize \in Nat
      /\ pipe \in Seq(AllBytes) /\ buf \in [1..BufSize -> AllBytes]
  BY <1>1, WaitingIs, SizesAssumption DEF FifoTypes
<1>4. n \in Nat /\ n <= Len(pipe) /\ pos + n <= BufSize
  BY <1>3 DEF ReadSize
<1> HIDE DEF n
<1>5. \A k \in 1..Len(pipe) : pipe[k] \in AllBytes
  BY <1>3, ElementOfSeq
<1>6. /\ pipe' \in Seq(AllBytes) /\ Len(pipe') = Len(pipe) - n
      /\ \A k \in 1..(Len(pipe) - n) : pipe'[k] = pipe[k + n]
  <2>1. n + 1 \in Int /\ Len(pipe) \in Int /\ \A k \in (n + 1)..Len(pipe) : k \in 1..Len(pipe)
    BY <1>3, <1>4
  <2>2. \A k \in (n + 1)..Len(pipe) : pipe[k] \in AllBytes
    BY <1>5, <2>1
  <2>3. /\ pipe' \in Seq(AllBytes)
        /\ Len(pipe') = IF n + 1 <= Len(pipe) THEN Len(pipe) - (n + 1) + 1 ELSE 0
        /\ \A k \in 1..(Len(pipe) - (n + 1) + 1) : pipe'[k] = pipe[n + 1 + k - 1]
    BY <1>2, <2>1, <2>2, SubSeqProperties
  <2>4. /\ Len(pipe) - (n + 1) + 1 = Len(pipe) - n
        /\ \A k \in 1..(Len(pipe) - n) : n + 1 + k - 1 = k + n
    BY <1>3, <1>4
  <2>5. Len(pipe') = Len(pipe) - n
    BY <1>3, <1>4, <2>3
  <2> QED BY <2>3, <2>4, <2>5
<1>7. /\ \A k \in 1..BufSize : k <= pos \/ k > pos + n => buf'[k] = buf[k]
      /\ \A k \in 1..BufSize : k > pos /\ k <= pos + n =>
           k - pos \in 1..Len(pipe) /\ buf'[k] = pipe[k - pos]
  <2>1. \A k \in 1..BufSize : ~ (k > pos /\ k <= pos + n) => buf'[k] = buf[k]
    BY <1>2
  <2>2. \A k \in 1..BufSize : k > pos /\ k <= pos + n => buf'[k] = pipe[k - pos]
    BY <1>2
  <2>3. \A k \in 1..BufSize : k <= pos \/ k > pos + n => ~ (k > pos /\ k <= pos + n)
    BY <1>3, <1>4
  <2>4. \A k \in 1..BufSize : k > pos /\ k <= pos + n => k - pos \in 1..Len(pipe)
    BY <1>3, <1>4
  <2> QED BY <2>1, <2>2, <2>3, <2>4
<1>8. \A m : /\ m <= pos => At(m) = buf[m]
             /\ ~ (m <= pos) => At(m) = pipe[m - pos]
             /\ m <= pos + n => At(m)' = buf'[m]
             /\ ~ (m <= pos + n) => At(m)' = pipe'[m - (pos + n)]
  BY <1>2 DEF At
<1>9. Waiting' = Waiting
  <2>1. pos + n + (Len(pipe) - n) = pos + Len(pipe)
    BY <1>3, <1>4
  <2> QED BY <1>2, <1>6, <2>1 DEF Waiting
<1>10. \A k \in 1..Waiting : At(k)' = At(k)
  <2> SUFFICES ASSUME NEW k \in 1..Waiting PROVE At(k)' = At(k)
    OBVIOUS
  <2>1. k \in Nat /\ k >= 1 /\ k <= pos + Len(pipe)
    BY <1>3 DEF Waiting
  <2>2. CASE k <= pos
    <3>1. k \in 1..BufSize /\ k <= pos + n
      BY <1>3, <1>4, <2>1, <2>2
    <3> QED BY <1>7, <1>8, <2>2, <3>1
  <2>3. CASE k > pos /\ k <= pos + n
    <3>1. k \in 1..BufSize /\ ~ (k <= pos)
      BY <1>3, <1>4, <2>1, <2>3
    <3> QED BY <1>7, <1>8, <2>3, <3>1
  <2>4. CASE k > pos + n
    <3>1. /\ k - (pos + n) \in 1..(Len(pipe) - n) /\ k - (pos + n) + n = k - pos
          /\ ~ (k <= pos) /\ ~ (k <= pos + n)
      BY <1>3, <1>4, <2>1, <2>4
    <3> QED BY <1>6, <1>8, <3>1
  <2> QED BY <1>3, <1>4, <2>1, <2>2, <2>3, <2>4
<1>11. BytesInOrder'
  BY <1>1, <1>2, <1>3, <1>9, <1>10, SameBytes
<1>12. FifoTypes'
  <2>1. pos + n \in 0..BufSize /\ Len(pipe') <= PipeSize
    BY <1>3, <1>4, <1>6
  <2>2. buf' \in [1..BufSize -> AllBytes]
    <3>1. \A k \in 1..BufSize : buf[k] \in AllBytes
      BY <1>3
    <3>2. \A k \in 1..BufSize :
            (IF k > pos /\ k <= pos + n THEN pipe[k - pos] ELSE buf[k]) \in AllBytes
      BY <1>5, <1>7, <3>1
    <3> QED BY <1>2, <3>2
  <2> QED BY <1>1, <1>2, <1>6, <2>1, <2>2 DEF FifoTypes
<1>13. BufLegit'
  <2>1. \A b : Legit(b)' = Legit(b)
    BY <1>2 DEF Legit
  <2>2. ASSUME NEW k \in 1..BufSize PROVE buf'[k] = Nul \/ Legit(buf'[k])
    <3>1. CASE k <= pos \/ k > pos + n
      BY <1>1, <1>7, <3>1 DEF BufLegit
    <3>2. CASE k > pos /\ k <= pos + n
      <4>1. k \in 1..Waiting /\ ~ (k <= pos)
        BY <1>3, <1>4, <3>2 DEF Waiting
      <4>2. buf'[k] = At(k)
        BY <1>7, <1>8, <3>2, <4>1
      <4> QED BY <1>1, <4>1, <4>2 DEF BytesInOrder, Legit
    <3> QED BY <1>3, <1>4, <3>1, <3>2
  <2> QED BY <2>1, <2>2 DEF BufLegit
<1>14. ScanSafe'
  <2>1. \A b : IsNewline(b)' = IsNewline(b)
    BY <1>2 DEF IsNewline
  <2>2. \/ pos + n = 0
        \/ IsNewline(buf'[pos + n])
        \/ \A c, d \in 1..(pos + n) :
             IsNewline(buf'[c]) /\ IsNewline(buf'[d]) => c = d /\ c <= pos + n
    <3>1. CASE ~ \E c, d \in 1..(pos + n) :
                   c < d /\ IsNewline(buf'[c]) /\ IsNewline(buf'[d])
      <4> SUFFICES ASSUME NEW c \in 1..(pos + n), NEW d \in 1..(pos + n),
                          IsNewline(buf'[c]), IsNewline(buf'[d])
                   PROVE  c = d /\ c <= pos + n
        OBVIOUS
      <4>1. ~ (c < d) /\ ~ (d < c)
        BY <3>1
      <4> QED BY <1>3, <1>4, <4>1
    <3>2. CASE IsNewline(buf'[pos + n])
      BY <3>2
    <3> QED BY <1>2, <3>1, <3>2 DEF Mixes
  <2>3. pos + n <= pos + n
    BY <1>3, <1>4
  <2> QED BY <1>2, <2>1, <2>2, <2>3 DEF ScanSafe
<1>15. WholeLinesInOrder'
  BY <1>1, <1>2 DEF WholeLinesInOrder, Bytes, Byte
<1> QED BY <1>11, <1>12, <1>13, <1>14, <1>15 DEF Tame

-----------------------------------------------------------------------------
\* The bytes of a line that is sent follow those that wait.
LEMMA SendStep ==
  ASSUME Tame, Send
  PROVE  Tame'
<1> DEFINE L == Len(sent)
<1>0. PICK W : W = Waiting
  OBVIOUS
<1>1. FifoTypes /\ BufLegit /\ ScanSafe /\ BytesInOrder /\ WholeLinesInOrder
  BY DEF Tame
<1>2. PICK n \in Lengths : /\ Len(pipe) + n <= PipeSize /\ sent' = Append(sent, n)
                           /\ pipe' = pipe \o Bytes(Len(sent) + 1, n)
  BY DEF Send
<1>3. UNCHANGED <<buf, pos, end, pc, done, lost>>
  BY DEF Send
<1>4. n \in Nat \ {0, 1} /\ n \in Nat /\ n >= 1
  BY SizesAssumption
<1>5. /\ pos \in Nat /\ pos <= BufSize /\ BufSize \in Nat /\ Len(pipe) \in Nat
      /\ W \in Nat /\ W = pos + Len(pipe) /\ PipeSize \in Nat
      /\ pipe \in Seq(AllBytes)
  BY <1>0, <1>1, WaitingIs, SizesAssumption DEF FifoTypes, Waiting
<1>6. /\ L \in Nat /\ DOMAIN sent = 1..L /\ sent \in Seq(Nat \ {0, 1})
      /\ \A i \in DOMAIN sent : sent[i] \in Nat
  BY <1>1, SentIs DEF FifoTypes
<1> HIDE DEF L
<1>7. /\ sent' \in Seq(Nat \ {0, 1}) /\ Len(sent') = L + 1 /\ DOMAIN sent' = 1..(L + 1)
      /\ \A i \in DOMAIN sent : i \in DOMAIN sent' /\ sent'[i] = sent[i]
      /\ sent'[L + 1] = n
  <2>1. /\ sent' \in Seq(Nat \ {0, 1}) /\ Len(sent') = L + 1
        /\ \A i \in 1..L : sent'[i] = sent[i]
        /\ sent'[L + 1] = n
    BY <1>2, <1>4, <1>6, AppendProperties DEF L
  <2>2. DOMAIN sent' = 1..(L + 1)
    BY <2>1, LenProperties
  <2>3. \A i \in 1..L : i \in 1..(L + 1)
    BY <1>6
  <2> QED BY <1>6, <2>1, <2>2, <2>3
<1>8. /\ pipe' \in Seq(AllBytes) /\ Len(pipe') = Len(pipe) + n
      /\ \A k \in 1..Len(pipe) : pipe'[k] = pipe[k]
      /\ \A k \in 1..n : pipe'[Len(pipe) + k] = Byte(L + 1, k)
  <2> DEFINE B == Bytes(L + 1, n)
  <2>1. B \in Seq(AllBytes) /\ Len(B) = n /\ \A k \in 1..n : B[k] = Byte(L + 1, k)
    <3>1. L + 1 \in Nat
      BY <1>6
    <3> QED BY <1>4, <3>1, BytesAre
  <2>2. pipe' = pipe \o B
    BY <1>2 DEF L
  <2> HIDE DEF B
  <2>3. /\ pipe' \in Seq(AllBytes) /\ Len(pipe') = Len(pipe) + n
        /\ \A k \in 1..(Len(pipe) + n) :
             pipe'[k] = IF k <= Len(pipe) THEN pipe[k] ELSE B[k - Len(pipe)]
    BY <1>5, <2>1, <2>2, ConcatProperties
  <2>4. /\ \A k \in 1..Len(pipe) : k \in 1..(Len(pipe) + n) /\ k <= Len(pipe)
        /\ \A k \in 1..n : /\ Len(pipe) + k \in 1..(Len(pipe) + n)
                           /\ ~ (Len(pipe) + k <= Len(pipe))
                           /\ Len(pipe) + k - Len(pipe) = k
    BY <1>4, <1>5
  <2>5. \A k \in 1..Len(pipe) : pipe'[k] = pipe[k]
    BY <2>3, <2>4
  <2>6. \A k \in 1..n : pipe'[Len(pipe) + k] = B[k]
    BY <2>3, <2>4
  <2> QED BY <2>1, <2>3, <2>5, <2>6
<1>9. /\ Waiting' = W + n
      /\ \A k \in 1..W : At(k)' = At(k)
      /\ \A j \in 1..n : At(W + j)' = Byte(L + 1, j)
  <2>1. Waiting' = W + n
    BY <1>3, <1>4, <1>5, <1>8 DEF Waiting
  <2>2. \A m : /\ m <= pos => At(m) = buf[m] /\ At(m)' = buf[m]
               /\ ~ (m <= pos) => At(m) = pipe[m - pos] /\ At(m)' = pipe'[m - pos]
    BY <1>3 DEF At
  <2>3. ASSUME NEW k \in 1..W PROVE At(k)' = At(k)
    <3>1. CASE k <= pos
      BY <2>2, <3>1
    <3>2. CASE ~ (k <= pos)
      <4>1. k - pos \in 1..Len(pipe)
        BY <1>5, <3>2
      <4> QED BY <1>8, <2>2, <3>2, <4>1
    <3> QED BY <3>1, <3>2
  <2>4. ASSUME NEW j \in 1..n PROVE At(W + j)' = Byte(L + 1, j)
    <3>1. ~ (W + j <= pos) /\ W + j - pos = Len(pipe) + j
      BY <1>4, <1>5
    <3>2. At(W + j)' = pipe'[W + j - pos]
      BY <1>4, <1>5, <2>2, <3>1
    <3>3. pipe'[Len(pipe) + j] = Byte(L + 1, j)
      BY <1>8
    <3> QED BY <3>1, <3>2, <3>3
  <2> QED BY <2>1, <2>3, <2>4
<1>10. /\ \A b : Legit(b) => /\ Legit(b)' /\ IsNewline(b)' = IsNewline(b)
                             /\ After(b)' = After(b)
       /\ IsNewline(Nul)' = IsNewline(Nul)
  <2>1. ASSUME NEW b, Legit(b)
        PROVE  Legit(b)' /\ sent'[b.line] = sent[b.line]
    BY <1>7, <2>1 DEF Legit
  <2> QED BY <2>1 DEF IsNewline, After
<1>11. \A k \in 1..W : Legit(At(k)) /\ At(k) \in AllBytes
  BY <1>0, <1>1, WaitingIs DEF BytesInOrder, Legit
<1>12. FifoTypes'
  <2>1. Len(pipe') <= PipeSize
    BY <1>2, <1>8
  <2>2. lost \subseteq DOMAIN sent'
    BY <1>1, <1>7 DEF FifoTypes
  <2> QED BY <1>1, <1>3, <1>7, <1>8, <2>1, <2>2 DEF FifoTypes
<1>13. BufLegit'
  <2>1. \A k \in 1..BufSize : buf[k] = Nul \/ Legit(buf[k])'
    BY <1>1, <1>3, <1>10 DEF BufLegit
  <2> QED BY <1>3, <2>1 DEF BufLegit, Legit
<1>14. ScanSafe'
  <2>1. \A k \in 1..BufSize : IsNewline(buf[k])' = IsNewline(buf[k])
    <3>1. \A b : b = Nul \/ Legit(b) => IsNewline(b)' = IsNewline(b)
      BY <1>10
    <3> QED BY <1>1, <1>3, <3>1 DEF BufLegit, IsNewline
  <2>2. \A k \in 1..end : k \in 1..BufSize
    BY <1>1, <1>5 DEF FifoTypes
  <2>3. pos = 0 \/ pos \in 1..BufSize
    BY <1>5
  <2> QED BY <1>1, <1>3, <2>1, <2>2, <2>3 DEF ScanSafe
<1>15. WholeLinesInOrder'
  <2>1. \A m : DOMAIN done' = DOMAIN done /\ done'[m] = done[m]
    BY <1>3
  <2>2. ASSUME NEW m \in DOMAIN done
        PROVE  /\ done[m] # << >> /\ done[m][1].line \in DOMAIN sent'
               /\ done[m] = Bytes(done[m][1].line, sent'[done[m][1].line] - 1)
    BY <1>1, <1>7 DEF WholeLinesInOrder
  <2> QED BY <1>1, <1>3, <2>2 DEF WholeLinesInOrder, Bytes, Byte
<1>16. W > 0 => /\ At(1)' = At(1) /\ At(1).at = 1 /\ At(1).line \in 1..L
                /\ At(W)' = Byte(L, sent[L]) /\ L \in DOMAIN sent
  <2> SUFFICES ASSUME W > 0
               PROVE  /\ At(1)' = At(1) /\ At(1).at = 1 /\ At(1).line \in 1..L
                      /\ At(W)' = Byte(L, sent[L]) /\ L \in DOMAIN sent
    OBVIOUS
  <2>1. 1 \in 1..W /\ W \in 1..W
    BY <1>5
  <2>2. At(1).at = 1 /\ At(W) = Byte(L, sent[L])
    BY <1>0, <1>1 DEF BytesInOrder, L
  <2>3. At(1).line \in 1..L
    BY <1>6, <1>11, <2>1 DEF Legit
  <2> QED BY <1>6, <1>9, <2>1, <2>2, <2>3
<1>17. ASSUME NEW k \in 1..(W + n)
       PROVE  /\ At(k)'.line \in DOMAIN sent' /\ At(k)'.at \in 1..sent'[At(k)'.line]
              /\ k > 1 => At(k)' = After(At(k - 1))'
  <2>1. CASE k <= W
    <3>1. k \in 1..W /\ At(k)' = At(k) /\ Legit(At(k))
      BY <1>5, <1>9, <1>11, <2>1
    <3>2. ASSUME k > 1 PROVE At(k)' = After(At(k - 1))'
      <4>1. k - 1 \in 1..W
        BY <1>5, <2>1, <3>2
      <4>2. At(k - 1)' = At(k - 1) /\ Legit(At(k - 1))
        BY <1>9, <1>11, <4>1
      <4>3. At(k) = After(At(k - 1))
        BY <1>0, <1>1, <3>1, <3>2 DEF BytesInOrder
      <4>4. sent'[At(k - 1).line] = sent[At(k - 1).line]
        BY <1>7, <4>2 DEF Legit
      <4> QED BY <3>1, <4>2, <4>3, <4>4 DEF After, IsNewline
    <3>3. sent'[At(k).line] = sent[At(k).line] /\ At(k).line \in DOMAIN sent'
      BY <1>7, <3>1 DEF Legit
    <3> QED BY <3>1, <3>2, <3>3 DEF Legit
  <2>2. CASE ~ (k <= W)
    <3> DEFINE j == k - W
    <3>1. j \in 1..n /\ j \in Nat /\ k = W + j /\ n \in Nat
      BY <1>4, <1>5, <2>2
    <3>2. At(k)' = Byte(L + 1, j) /\ Byte(L + 1, j).line = L + 1 /\ Byte(L + 1, j).at = j
      <4>1. L + 1 \in Nat
        BY <1>6
      <4> QED BY <1>9, <3>1, <4>1, ByteIs
    <3>3. L + 1 \in DOMAIN sent'
      BY <1>6, <1>7
    <3>4. ASSUME j > 1 PROVE At(k)' = After(At(k - 1))'
      <4>1. j - 1 \in 1..n /\ j - 1 \in Nat /\ j - 1 # n /\ k - 1 = W + (j - 1) /\ L + 1 \in Nat
            /\ j - 1 + 1 = j
        BY <1>5, <1>6, <3>1, <3>4
      <4>2. At(k - 1)' = Byte(L + 1, j - 1)
        BY <1>9, <4>1
      <4>3. At(k - 1)'.line = L + 1 /\ At(k - 1)'.at = j - 1
        BY <4>1, <4>2, ByteIs
      <4>4. ~ IsNewline(At(k - 1))'
        BY <1>7, <4>1, <4>3 DEF IsNewline
      <4>5. After(At(k - 1))' = Byte(L + 1, j)
        BY <4>1, <4>3, <4>4 DEF After
      <4> QED BY <3>2, <4>5
    <3>5. ASSUME j = 1, k > 1 PROVE At(k)' = After(At(k - 1))'
      <4>1. k - 1 = W /\ W > 0
        BY <1>5, <3>1, <3>5
      <4>2. At(k - 1)'.line = L /\ At(k - 1)'.at = sent'[L] /\ L \in Nat /\ L # 0
        <5>1. sent[L] \in Nat /\ L \in Nat /\ L # 0 /\ sent'[L] = sent[L]
          <6>1. L \in DOMAIN sent
            BY <1>16, <4>1
          <6> QED BY <1>6, <1>7, <6>1
        <5>2. At(k - 1)' = Byte(L, sent[L])
          BY <1>16, <4>1
        <5> QED BY <5>1, <5>2, ByteIs
      <4>3. IsNewline(At(k - 1))'
        <5>1. At(k - 1)' # Nul
          BY <4>2, ByteIs DEF Nul
        <5> QED BY <4>2, <5>1 DEF IsNewline, Nul, Byte
      <4>4. After(At(k - 1))' = Byte(L + 1, 1)
        BY <4>2, <4>3 DEF After
      <4> QED BY <3>2, <3>5, <4>4
    <3>6. k > 1 => j > 1 \/ j = 1
      BY <3>1
    <3>7. j \in 1..sent'[L + 1]
      BY <1>7, <3>1
    <3> QED BY <3>2, <3>3, <3>4, <3>5, <3>6, <3>7
  <2> QED BY <2>1, <2>2
<1>18. /\ At(1)'.at = 1 /\ (W = 0 => At(1)'.line = L + 1)
       /\ At(Waiting)' = Byte(L + 1, n)
  <2>1. 1 \in 1..n /\ n \in 1..n /\ L + 1 \in Nat /\ 1 \in Nat
    BY <1>4, <1>6
  <2>2. W = 0 => At(1)' = Byte(L + 1, 1)
    <3>1. W = 0 => W + 1 = 1
      OBVIOUS
    <3> QED BY <1>9, <2>1, <3>1
  <2>3. W = 0 => At(1)'.at = 1 /\ At(1)'.line = L + 1
    BY <2>1, <2>2, ByteIs
  <2>4. At(Waiting)' = Byte(L + 1, n)
    BY <1>9, <2>1
  <2> QED BY <1>5, <1>16, <2>3, <2>4
<1>19. ASSUME NEW i \in DOMAIN sent'
       PROVE  (Executed(i)' \/ i \in lost') <=> i < At(1)'.line
  <2>1. Executed(i)' <=> Executed(i)
    BY <1>3 DEF Executed
  <2>2. CASE i = L + 1
    <3>1. i \notin DOMAIN sent
      BY <1>6, <2>2
    <3>2. ~ Executed(i) /\ i \notin lost
      BY <1>1, <3>1 DEF Executed, WholeLinesInOrder, FifoTypes
    <3>3. ~ (i < At(1)'.line)
      BY <1>5, <1>6, <1>16, <1>18, <2>2
    <3> QED BY <1>3, <2>1, <3>2, <3>3
  <2>3. CASE i \in DOMAIN sent
    <3>1. Executed(i) \/ i \in lost <=> W = 0 \/ i < At(1).line
      BY <1>0, <1>1, <2>3 DEF BytesInOrder
    <3>2. W = 0 => i < At(1)'.line
      BY <1>6, <1>18, <2>3
    <3>3. W # 0 => At(1)' = At(1)
      BY <1>5, <1>16
    <3> QED BY <1>3, <2>1, <3>1, <3>2, <3>3
  <2> QED BY <1>6, <1>7, <2>2, <2>3
<1>20. BytesInOrder'
  <2>1. ~ (Waiting' = 0)
    BY <1>4, <1>5, <1>9
  <2> QED BY <1>7, <1>9, <1>17, <1>18, <1>19, <2>1 DEF BytesInOrder
<1> QED BY <1>12, <1>13, <1>14, <1>15, <1>20 DEF Tame

\* A re-exec loses the lines that wait, and those only.
LEMMA ReExecStep ==
  ASSUME Tame, ReExec
  PROVE  Tame'
<1>1. FifoTypes /\ WholeLinesInOrder
  BY DEF Tame
<1>2. /\ pipe' = << >> /\ buf' = Fresh /\ pos' = 0 /\ end' = 0 /\ pc' = "poll"
      /\ lost' = lost \cup {i \in DOMAIN sent : ~ Executed(i)}
      /\ UNCHANGED <<sent, done>>
  BY DEF ReExec
<1>3. << >> \in Seq(AllBytes) /\ Len(<< >>) = 0 /\ Len(<< >>) <= PipeSize
  BY EmptySeq, SizesAssumption
<1>4. /\ Fresh \in [1..BufSize -> AllBytes]
      /\ \A k \in 1..BufSize : Fresh[k] = Nul
  BY ByteIs DEF Fresh
<1>5. FifoTypes'
  <2>1. lost' \subseteq DOMAIN sent
    BY <1>1, <1>2 DEF FifoTypes
  <2>2. 0 \in 0..BufSize
    BY SizesAssumption
  <2> QED BY <1>1, <1>2, <1>3, <1>4, <2>1, <2>2 DEF FifoTypes
<1>6. BufLegit' /\ ScanSafe'
  BY <1>2, <1>4 DEF BufLegit, ScanSafe
<1>7. BytesInOrder'
  <2>1. Waiting' = 0
    BY <1>2, <1>3 DEF Waiting
  <2>2. \A i \in DOMAIN sent : Executed(i)' \/ i \in lost'
    BY <1>2 DEF Executed
  <2> QED BY <1>2, <2>1, <2>2 DEF BytesInOrder
<1>8. WholeLinesInOrder'
  BY <1>1, <1>2 DEF WholeLinesInOrder, Bytes, Byte
<1> QED BY <1>5, <1>6, <1>7, <1>8 DEF Tame

LEMMA ScanDoneStep ==
  ASSUME Tame, ScanDone
  PROVE  Tame'
<1>1. pc' = "poll" /\ UNCHANGED <<pipe, buf, pos, end, sent, done, lost>>
  BY DEF ScanDone
<1>2. FifoTypes' /\ BufLegit' /\ ScanSafe'
  BY <1>1 DEF Tame, FifoTypes, BufLegit, Legit, ScanSafe
<1>3. BytesInOrder'
  <2>1. Waiting' = Waiting /\ \A k : At(k)' = At(k)
    BY <1>1 DEF Waiting, At
  <2> QED BY <1>1, <2>1, SameBytes, WaitingIs DEF Tame
<1>4. WholeLinesInOrder'
  BY <1>1 DEF Tame, WholeLinesInOrder, Bytes, Byte
<1> QED BY <1>2, <1>3, <1>4 DEF Tame

LEMMA StutterStep ==
  ASSUME Tame, UNCHANGED vars
  PROVE  Tame'
<1>1. UNCHANGED <<pipe, buf, pos, end, pc, sent, done, lost>>
  BY DEF vars
<1>2. FifoTypes' /\ BufLegit' /\ ScanSafe'
  BY <1>1 DEF Tame, FifoTypes, BufLegit, Legit, ScanSafe, IsNewline
<1>3. BytesInOrder'
  <2>1. Waiting' = Waiting /\ \A k : At(k)' = At(k)
    BY <1>1 DEF Waiting, At
  <2> QED BY <1>1, <2>1, SameBytes, WaitingIs DEF Tame
<1>4. WholeLinesInOrder'
  BY <1>1 DEF Tame, WholeLinesInOrder, Bytes, Byte
<1> QED BY <1>2, <1>3, <1>4 DEF Tame

LEMMA InitTame ==
  ASSUME Init
  PROVE  Tame
<1>1. /\ pipe = << >> /\ buf = Fresh /\ pos = 0 /\ end = 0 /\ pc = "poll"
      /\ sent = << >> /\ done = << >> /\ lost = {}
  BY DEF Init
<1>2. /\ \A S : << >> \in Seq(S) 
      /\ Len(<< >>) = 0 /\ DOMAIN << >> = {} /\ Len(<< >>) <= PipeSize
  BY EmptySeq, SizesAssumption
<1>3. /\ Fresh \in [1..BufSize -> AllBytes]
      /\ \A k \in 1..BufSize : Fresh[k] = Nul
  BY ByteIs DEF Fresh
<1>4. FifoTypes
  <2>1. 0 \in 0..BufSize
    BY SizesAssumption
  <2> QED BY <1>1, <1>2, <1>3, <2>1 DEF FifoTypes
<1>5. BufLegit /\ ScanSafe /\ WholeLinesInOrder
  BY <1>1, <1>2, <1>3 DEF BufLegit, ScanSafe, WholeLinesInOrder
<1>6. Waiting = 0
  BY <1>1, <1>2 DEF Waiting
<1>7. BytesInOrder
  BY <1>1, <1>2, <1>6 DEF BytesInOrder
<1> QED BY <1>4, <1>5, <1>7 DEF Tame

-----------------------------------------------------------------------------
\* A read that has mixed is never undone, so what holds until then is invariant.
LEMMA StepInvariant ==
  ASSUME FInv, [Next]_vars
  PROVE  FInv'
<1>1. CASE mixed
  <2>1. mixed'
    BY <1>1 DEF Next, Send, Read, TakeLine, ScanDone, ReExec, vars
  <2> QED BY <2>1 DEF FInv
<1>2. CASE mixed'
  BY <1>2 DEF FInv
<1>3. CASE ~ mixed /\ ~ mixed'
  <2>1. Tame
    BY <1>3 DEF FInv
  <2>2. CASE Send
    BY <2>1, <2>2, SendStep DEF FInv
  <2>3. CASE Read
    BY <1>3, <2>1, <2>3, ReadStep DEF FInv
  <2>4. CASE TakeLine
    BY <2>1, <2>4, TakeStep DEF FInv
  <2>5. CASE ScanDone
    BY <2>1, <2>5, ScanDoneStep DEF FInv
  <2>6. CASE ReExec
    BY <2>1, <2>6, ReExecStep DEF FInv
  <2>7. CASE UNCHANGED vars
    BY <2>1, <2>7, StutterStep DEF FInv
  <2> QED BY <2>2, <2>3, <2>4, <2>5, <2>6, <2>7 DEF Next
<1> QED BY <1>1, <1>2, <1>3

LEMMA FifoInvariant == Spec => []FInv
<1>1. Init => FInv
  BY InitTame DEF FInv
<1>2. FInv /\ [Next]_vars => FInv'
  BY StepInvariant
<1> QED BY <1>1, <1>2, PTL DEF Spec

-----------------------------------------------------------------------------
\* No memmove of read_control has a wrong size and no address is formed out of the
\* buffer, however the bytes of the lines are cut into reads.
THEOREM PositionCorrect == Spec => []PosInBuffer
<1>1. FInv => PosInBuffer
  BY DEF FInv, Tame, FifoTypes, PosInBuffer
<1> QED BY <1>1, FifoInvariant, PTL

\* The bytes in the buffer and in the fifo are those of the lines that were sent and
\* are neither executed nor lost, in order and once: no byte is invented, dropped or
\* read again by the way from writev through read to memmove.
THEOREM BytesCorrect == Spec => []NothingInvented
<1>1. FInv => NothingInvented
  BY DEF FInv, Tame, NothingInvented
<1> QED BY <1>1, FifoInvariant, PTL

\* Each command is one whole line, and the commands come in the order of the lines.
THEOREM LinesCorrect == Spec => []CommandsAreLines
<1>1. FInv => CommandsAreLines
  BY DEF FInv, Tame, CommandsAreLines
<1> QED BY <1>1, FifoInvariant, PTL

\* A read mixes only when more bytes wait than the buffer holds: otherwise it takes
\* all of them, and the last one is a newline.  Users whose commands, until bossd has
\* read them, are no more than MAX_COMMANDLINE bytes together rely on all of the above.
THEOREM OnlyLongQueuesMix == Spec => [][~ mixed /\ mixed' => Waiting > BufSize]_vars
<1>1. FInv /\ [Next]_vars => [~ mixed /\ mixed' => Waiting > BufSize]_vars
  <2>1. SUFFICES ASSUME FInv, Next, ~ mixed, mixed', ~ (Waiting > BufSize)
                 PROVE  FALSE
    OBVIOUS
  <2>2. Tame /\ Read
    BY <2>1 DEF FInv, Next, Send, TakeLine, ScanDone, ReExec
  <2>3. /\ pos \in Nat /\ Len(pipe) \in Nat /\ Waiting \in Nat /\ BufSize \in Nat
        /\ pos <= BufSize /\ pipe \in Seq(AllBytes)
    BY <2>2, WaitingIs, SizesAssumption DEF Tame, FifoTypes
  <2>4. Waiting = pos + Len(pipe) /\ Waiting <= BufSize /\ Len(pipe) > 0
    <3>1. Len(pipe) \in Nat \ {0}
      BY <2>2, <2>3, EmptySeq DEF Read
    <3> QED BY <2>1, <2>3, <3>1 DEF Waiting
  <2>5. ReadSize = Len(pipe)
    BY <2>3, <2>4 DEF ReadSize
  <2>6. /\ buf'[Waiting] = pipe[Len(pipe)] /\ At(Waiting) = pipe[Len(pipe)]
        /\ Mixes(buf', Waiting)
    <3>1. Waiting \in 1..BufSize /\ Waiting > pos /\ Waiting - pos = Len(pipe)
      BY <2>3, <2>4
    <3>2. buf' = [k \in 1..BufSize |->
                    IF k > pos /\ k <= Waiting THEN pipe[k - pos] ELSE buf[k]]
      BY <2>2, <2>4, <2>5 DEF Read
    <3>3. Mixes(buf', Waiting)
      BY <2>1, <2>2, <2>4, <2>5 DEF Read
    <3>4. Waiting <= Waiting
      BY <2>3
    <3>5. buf'[Waiting] = pipe[Waiting - pos]
      BY <3>1, <3>2, <3>4
    <3>6. At(Waiting) = pipe[Waiting - pos]
      <4>1. ~ (Waiting <= pos)
        BY <2>3, <3>1
      <4> QED BY <4>1 DEF At
    <3> QED BY <3>1, <3>3, <3>5, <3>6
  <2>7. IsNewline(At(Waiting))
    <3>1. At(Waiting) = Byte(Len(sent), sent[Len(sent)]) /\ Waiting \in 1..Waiting
      BY <2>2, <2>3, <2>4 DEF Tame, BytesInOrder
    <3>2. At(Waiting).line \in DOMAIN sent
      BY <2>2, <3>1 DEF Tame, BytesInOrder
    <3>3. /\ Len(sent) \in Nat
          /\ \A i \in DOMAIN sent : i # 0 /\ sent[i] \in Nat
      BY <2>2, SentIs DEF Tame
    <3>4. /\ At(Waiting).line = Len(sent) /\ At(Waiting).at = sent[Len(sent)]
          /\ At(Waiting) # Nul
      BY <3>1, <3>2, <3>3 DEF Byte, Nul
    <3> QED BY <3>4 DEF IsNewline
  <2> QED BY <2>6, <2>7 DEF Mixes
<1> QED BY <1>1, FifoInvariant, PTL DEF Spec
=============================================================================
