---------------------------- MODULE ControlFifo ----------------------------
(***************************************************************************)
(* The control fifo (control.c) between the writers, bossctl and bossrc,   *)
(* and read_control: which bytes reach a command, in a buffer of fixed     *)
(* size that lines are taken from the front of.  A byte is the place it    *)
(* has in the line it was written in; text has no more meaning than that,  *)
(* and the spaces between its words are not told from other bytes.         *)
(* Positions of the buffer are counted from 1, so position pos is the last *)
(* byte read and not the first free one.                                   *)
(***************************************************************************)
EXTENDS Integers, Sequences

CONSTANTS
  BufSize,   \* MAX_COMMANDLINE
  PipeSize,  \* bytes the kernel keeps in the fifo
  Lengths,   \* lengths of the lines written, with their newline
  MaxLines   \* bound: lines written in a behaviour

ASSUME SizesAssumption ==
  /\ BufSize \in Nat /\ PipeSize \in Nat /\ MaxLines \in Nat
  /\ Lengths \subseteq Nat \ {0, 1}

VARIABLES
  pipe,  \* the bytes in the fifo
  buf,   \* fifobuf
  pos,   \* fifobuf_pos
  end,   \* the local variable of read_control
  pc,    \* "poll", "scan" (the while loop of read_control), "crashed"
  sent,  \* history: the lengths of the lines written
  done,  \* history: the texts that parse_spaces was given as a command
  lost,  \* history: lines a re-exec dropped
  mixed  \* history: a read has left a part of a line behind two whole ones

vars == <<pipe, buf, pos, end, pc, sent, done, lost, mixed>>

Byte(i, k) == [line |-> i, at |-> k]
Nul == Byte(0, 0)
Bytes(i, n) == [k \in 1..n |-> Byte(i, k)]
IsNewline(b) == b # Nul /\ b.at = sent[b.line]
Fresh == [k \in 1..BufSize |-> Nul]

Init ==
  /\ pipe = << >> /\ buf = Fresh /\ pos = 0 /\ end = 0 /\ pc = "poll"
  /\ sent = << >> /\ done = << >> /\ lost = {} /\ mixed = FALSE

\* One writev of bossctl or bossrc, which waits for room: no longer than PIPE_BUF
\* it is atomic, and so is a longer one that finds the room at once.
Send == \E n \in Lengths :
  /\ Len(sent) < MaxLines /\ Len(pipe) + n <= PipeSize
  /\ sent' = Append(sent, n)
  /\ pipe' = pipe \o Bytes(Len(sent) + 1, n)
  /\ UNCHANGED <<buf, pos, end, pc, done, lost, mixed>>

-----------------------------------------------------------------------------
\* mutant: the room is not reduced by what is in the buffer
ReadFull == IF Len(pipe) < BufSize THEN Len(pipe) ELSE BufSize
ReadSize == IF Len(pipe) < BufSize - pos THEN Len(pipe) ELSE BufSize - pos

\* The first n bytes of b are two whole lines or more, and a part of another one.
Mixes(b, n) ==
  /\ \E c, d \in 1..n : c < d /\ IsNewline(b[c]) /\ IsNewline(b[d])
  /\ ~ IsNewline(b[n])

\* the read at the beginning of read_control: of nothing when the buffer is full
\* of a line without an end, and poll finds the same bytes at once again
Read ==
  /\ pc = "poll" /\ pipe # << >>
  /\ LET n == ReadSize IN
     /\ buf' = [k \in 1..BufSize |->
                  IF k > pos /\ k <= pos + n THEN pipe[k - pos] ELSE buf[k]]
     /\ pipe' = SubSeq(pipe, n + 1, Len(pipe))
     /\ pos' = pos + n /\ end' = pos + n
     /\ mixed' = (mixed \/ Mixes(buf', pos + n))
  /\ pc' = "scan"
  /\ UNCHANGED <<sent, done, lost>>

\* mutant: the last newline
LastLineEnds(c) ==
  c \in 1..end /\ IsNewline(buf[c]) /\ \A k \in (c + 1)..end : ~ IsNewline(buf[k])
\* the first newline from the start of the buffer up to end
LineEnds(c) ==
  c \in 1..end /\ IsNewline(buf[c]) /\ \A k \in 1..(c - 1) : ~ IsNewline(buf[k])

\* parse_spaces ends the last word of the line by a NUL, over the newline
Parsed(c) == [buf EXCEPT ![c] = Nul]
\* What a command is given of a line: its bytes up to the first NUL.
TextEnds(c, n) ==
  /\ n = c - 1 \/ buf[n + 1] = Nul
  /\ \A k \in 1..n : buf[k] # Nul
Text(c) == SubSeq(buf, 1, CHOOSE n \in 0..(c - 1) : TextEnds(c, n))

\* mutant: the newline is moved too
MovedFrom(c) ==
  [k \in 1..BufSize |-> IF k <= pos - c THEN Parsed(c)[k + c - 1]
                                        ELSE Parsed(c)[k]]
\* memmove of the pos - c bytes behind the line; nothing else is cleared
Moved(c) ==
  [k \in 1..BufSize |-> IF k <= pos - c THEN Parsed(c)[k + c] ELSE Parsed(c)[k]]

\* One turn of the while loop, which moves nothing when the newline is the last byte
\* read.  end is not moved with the bytes, so the newline may be a stale one behind
\* pos: the size given to memmove is then negative.
TakeLine ==
  /\ pc = "scan" /\ pos # 0
  /\ \E c \in 1..end :
       /\ LineEnds(c)
       /\ done' = Append(done, Text(c))
       /\ buf' = IF c = end THEN Parsed(c) ELSE Moved(c)
       /\ pos' = pos - c
       /\ pc' = IF pos < c /\ c # end THEN "crashed" ELSE "scan"
  /\ UNCHANGED <<pipe, end, sent, lost, mixed>>

\* mutant: read_control is done after one line
NoLineLeft == pos = 0 \/ Len(done) > 0
\* the two ways out of the while loop
NoLine == pos = 0 \/ \A c \in 1..end : ~ IsNewline(buf[c])

ScanDone ==
  /\ pc = "scan" /\ NoLine
  /\ pc' = "poll"
  /\ UNCHANGED <<pipe, buf, pos, end, sent, done, lost, mixed>>

\* explode, reload, SIGQUIT or the crash: the buffer goes with the memory, and
\* init_control makes another fifo.
Executed(i) == \E n \in DOMAIN done : done[n] # << >> /\ done[n][1].line = i
ReExec ==
  /\ pipe' = << >> /\ buf' = Fresh /\ pos' = 0 /\ end' = 0 /\ pc' = "poll"
  /\ lost' = lost \cup {i \in DOMAIN sent : ~ Executed(i)}
  /\ UNCHANGED <<sent, done, mixed>>

Next == Send \/ Read \/ TakeLine \/ ScanDone \/ ReExec
Spec == Init /\ [][Next]_vars
FairSpec == Spec /\ WF_vars(Read \/ TakeLine \/ ScanDone)

-----------------------------------------------------------------------------
(***************************************************************************)
(* What read_control promises holds as long as no read leaves a part of a  *)
(* line behind two whole ones, in reads of whatever size.                  *)
(***************************************************************************)
\* fifobuf_pos stays a position of the buffer, which its address is added to, and
\* no newline is found behind it: the size of each memmove is right.
PosInBuffer ==
  mixed \/ /\ pos \in 0..BufSize /\ end \in 0..BufSize /\ Len(pipe) <= PipeSize
           /\ pc # "crashed"

\* The bytes that wait: those in the buffer, then those in the fifo.
Waiting == pos + Len(pipe)
At(k) == IF k <= pos THEN buf[k] ELSE pipe[k - pos]
\* what is written after a byte of a line that was sent
After(b) == IF IsNewline(b) THEN Byte(b.line + 1, 1) ELSE Byte(b.line, b.at + 1)

\* The bytes that wait are those of the lines that were sent and neither executed
\* nor lost, all of them, in order and once.
BytesInOrder ==
  /\ \A k \in 1..Waiting :
       /\ At(k).line \in DOMAIN sent /\ At(k).at \in 1..sent[At(k).line]
       /\ k > 1 => At(k) = After(At(k - 1))
  /\ Waiting > 0 =>
       At(1).at = 1 /\ At(Waiting) = Byte(Len(sent), sent[Len(sent)])
  /\ \A i \in DOMAIN sent :
       Executed(i) \/ i \in lost <=> Waiting = 0 \/ i < At(1).line
NothingInvented == mixed \/ BytesInOrder

\* "Maximum bytes in single commandline" (constants.h) promises it of each line
\* that is shorter: a command is one whole line as it was written, and the
\* commands come in the order of the lines, none twice.
WholeLinesInOrder ==
  /\ \A n \in DOMAIN done :
       /\ done[n] # << >> /\ done[n][1].line \in DOMAIN sent
       /\ done[n] = Bytes(done[n][1].line, sent[done[n][1].line] - 1)
  /\ \A m, n \in DOMAIN done : m < n => done[m][1].line < done[n][1].line
\* the same of reads that do not mix
CommandsAreLines == mixed \/ WholeLinesInOrder

\* A line without room for its newline stays in front of the buffer.
HeldUp(i) ==
  \E j \in DOMAIN sent : j <= i /\ sent[j] > BufSize /\ j \notin lost

\* Every line is executed in the end, without another one being sent, unless a
\* re-exec dropped it or a read mixed: but for a line longer than the buffer, which
\* is never executed, cut or skipped, and those behind it, which wait for the re-exec.
EveryLineDone ==
  \A i \in 1..MaxLines :
    i <= Len(sent) ~> Executed(i) \/ i \in lost \/ HeldUp(i) \/ mixed
=============================================================================
