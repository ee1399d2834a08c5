------------------------------- MODULE Streams -------------------------------
(***************************************************************************)
(* Streams on files (stream.c) and the predicates that read and write them *)
(* (foreign_impl.c): code points as UTF-8, through a buffer that only       *)
(* reading fills, since no stream is ever flagged to be buffered.  One file, *)
(* which also is where console output goes, and one stream on it at a time. *)
(***************************************************************************)
EXTENDS Integers, Sequences

CONSTANTS
  Codes,       \* the code points that are put
  BufferSize,  \* STREAM_BUFFER_SIZE
  MaxCodes     \* bound: code points put in a file

ASSUME StreamsAssumption == Codes \subseteq {c \in Nat : c <= 1114111} /\ BufferSize \in Nat \ {0} /\ MaxCodes \in Nat

VARIABLES
  file,    \* the bytes of the file
  access,  \* how it is open: "closed", "read", "write", "append", "console"
  handle,  \* the struct stream, and the position of its FILE
  put,     \* history: the code points put in the file
  lost,    \* history: whether something in it is none, or was written over
  given,   \* history: what was read since the stream was opened
  strayed  \* history: whether not all that was read were code points in a row

streamVars == <<file, access, handle, put, lost, given, strayed>>

EOF == -1

\* allocStream: what the buffer holds at first is whatever was there
NewStream(at) == [buffer |-> [i \in 1..BufferSize |-> 0], filled |-> 0, ptr |-> 0, at |-> at]

\* putch: the bytes of a code point; of 2048 it makes two, and four of 65535
Bytes(c) ==
  LET low(n) == 128 + ((c \div n) % 64)
  IN  CASE c <= 127                -> <<c>>
        [] c > 127 /\ c <= 2048    -> <<192 + c \div 64, low(1)>>
        [] c > 2048 /\ c < 65535   -> <<224 + c \div 4096, low(64), low(1)>>
        [] c >= 65535              -> <<240 + c \div 262144, low(4096), low(64), low(1)>>

\* The bits of a first byte from 0x20 down
Bit(i) == <<32, 16, 8, 4>>[i]

\* How many bytes follow the first: as many as bits are set from 0x20 down, and one
TooLong(b) == b > 127 /\ b % 64 >= 60   \* bound: more than four are not read
Following(b) ==
  LET clear == {i \in 1..4 : (b \div Bit(i)) % 2 = 0}
  IN  CHOOSE i \in clear : \A j \in clear : i <= j

\* The code point that bytes make, of which the first is above 0x7f
Decoded(bytes) ==
  LET n == Len(bytes) - 1
      value[i \in 0..n] ==
        IF i = 0 THEN bytes[1] % Bit(n) ELSE 64 * value[i - 1] + (bytes[i + 1] % 64)
  IN  value[n]

\* peekb and getb, where the buffer is used up: file_read
Refilled(s) ==
  IF s.ptr # s.filled THEN s
  ELSE LET n == IF Len(file) - s.at > BufferSize THEN BufferSize ELSE Len(file) - s.at
       IN  [s EXCEPT !.buffer = [i \in 1..BufferSize |-> IF i <= n THEN file[s.at + i] ELSE @[i]],
                     !.filled = n, !.at = @ + n, !.ptr = 0]

\* What an operation gives, and the stream after it
Gives(v, s) == [value |-> v, stream |-> s]

peekb(s) ==
  LET t == Refilled(s) IN Gives(IF t.filled = 0 THEN EOF ELSE t.buffer[t.ptr + 1], t)
getb(s) ==
  LET p == peekb(s)
  IN  IF p.value = EOF THEN p ELSE [p EXCEPT !.stream.ptr = @ + 1]

\* _getch: the n bytes after the first, or fewer at the end of the file
Taken(first, n) ==
  LET take[i \in 0..n] ==
        IF i = 0 THEN [bytes |-> <<first.value>>, stream |-> first.stream]
        ELSE LET b == getb(take[i - 1].stream)
             IN  IF take[i - 1].bytes[i] = EOF
                   THEN [take[i - 1] EXCEPT !.bytes = Append(@, EOF)]
                 ELSE [bytes |-> Append(take[i - 1].bytes, b.value), stream |-> b.stream]
  IN  take[n]
getch(s) ==
  LET first == getb(s)
      n == Following(first.value)
      taken == Taken(first, n)
  IN  IF first.value <= 127 THEN first
      ELSE Gives(IF EOF \in {taken.bytes[i] : i \in 1..n + 1} THEN EOF ELSE Decoded(taken.bytes),
                 taken.stream)

\* Mutation of Ahead: the first byte is taken again
AheadLess(s, i) == s.buffer[i]

\* peekch: the bytes after the first are those from the start of the buffer on
Ahead(s, i) == IF i < BufferSize THEN s.buffer[i + 1] ELSE 0

peekch(s) ==
  LET first == peekb(s)
      n == Following(first.value)
  IN  IF first.value <= 127 THEN first
      ELSE IF n - 1 > first.stream.filled THEN Gives(EOF, first.stream)
      ELSE Gives(Decoded(<<first.value>> \o [i \in 1..n |-> Ahead(first.stream, i)]), first.stream)

-----------------------------------------------------------------------------
StreamsInit ==
  /\ file = <<>> /\ access = "closed" /\ handle = NewStream(0)
  /\ put = <<>> /\ lost = FALSE /\ given = <<>> /\ strayed = FALSE

Writing == access \in {"write", "append", "console"}

\* open for writing, and the console's output redirected
OpenWrite ==
  /\ access = "closed"
  /\ access' \in {"write", "console"} /\ file' = <<>> /\ handle' = NewStream(0)
  /\ put' = <<>> /\ lost' = FALSE
  /\ UNCHANGED <<given, strayed>>

OpenAppend ==
  /\ access = "closed"
  /\ access' = "append" /\ handle' = NewStream(Len(file))
  /\ UNCHANGED <<file, put, lost, given, strayed>>

OpenRead ==
  /\ access = "closed"
  /\ access' = "read" /\ handle' = NewStream(0)
  /\ UNCHANGED <<file, put, lost, given, strayed>>

\* close/1 is defined twice, and this is the second: what it takes for its options
\* is any word, and it drops what it finds there
Close ==
  /\ access # "closed"
  /\ access' = "closed" /\ handle' = NewStream(0)
  /\ given' = <<>> /\ strayed' = FALSE
  /\ UNCHANGED <<file, put, lost>>

\* putch and putb on an output stream: each byte goes through the buffer to the file
\* at once, where the file is, or at its end.  On a file flush_stream returns what
\* fflush does, 0, and putch takes it for a failure: it stops after one byte.
ToFile(bytes) == IF access = "console" THEN bytes ELSE <<bytes[1]>>
Write(bytes) ==
  LET at == IF access = "write" THEN handle.at ELSE Len(file)
      n  == at + Len(bytes)
  IN  /\ file' = [i \in 1..(IF n > Len(file) THEN n ELSE Len(file)) |->
                    IF i > at /\ i <= n THEN bytes[i - at] ELSE file[i]]
      /\ handle' = [handle EXCEPT !.at = n]

\* ... on an input stream it is an error, but the first byte is in the buffer then,
\* and will be read.  Bound: once, and where the buffer has room
PutToInput(byte) ==
  /\ access = "read" /\ handle.filled < BufferSize /\ ~strayed
  /\ handle' = [handle EXCEPT !.buffer[handle.filled + 1] = byte, !.filled = @ + 1]
  /\ strayed' = TRUE
  /\ UNCHANGED <<file, access, put, lost, given>>

\* Bytes put for code point c.  Bound: until something is lost
Put(c, bytes, whole) ==
  \/ /\ Writing /\ Len(put) < MaxCodes /\ ~lost
     /\ Write(ToFile(bytes))
     /\ put' = Append(put, c)
     /\ lost' = (lost \/ ~whole \/ Len(ToFile(bytes)) < Len(bytes) \/ (access = "write" /\ handle.at # Len(file)))
     /\ UNCHANGED <<access, given, strayed>>
  \/ PutToInput(bytes[1])

put_code(c) == Put(c, Bytes(c), c # 2048)
\* Of the atom, the first byte
put_char(c) == Put(c, <<Bytes(c)[1]>>, c <= 127)
put_byte(b) == Put(b, <<b>>, b <= 127)

\* What reading gave
Given(g) ==
  /\ access = "read" /\ Len(given) <= MaxCodes
  /\ handle' = g.stream /\ given' = Append(given, g.value)
  /\ UNCHANGED <<file, access, put, lost>>

\* get_code, and get_char, which gives the last byte of the code point
get_code == ~TooLong(peekb(handle).value) /\ Given(getch(handle)) /\ UNCHANGED strayed
get_byte == Given(getb(handle)) /\ strayed' = (strayed \/ getb(handle).value > 127)

\* peek_code, peek_byte, at_end_of_stream: the buffer is filled.  (What is answered is not
\* kept; at_end_of_stream answers the opposite of what its name says.)
Peek ==
  /\ access = "read" /\ handle' = peekb(handle).stream
  /\ UNCHANGED <<file, access, put, lost, given, strayed>>

\* set_stream_position: the file moves, the buffer is left as it is; the console has
\* no position
set_stream_position(i) ==
  /\ access \notin {"closed", "console"}
  /\ handle' = [handle EXCEPT !.at = i]
  /\ IF access = "read"
       THEN /\ given' = <<>> /\ strayed' = (strayed \/ i # 0 \/ handle.ptr # handle.filled)
       ELSE UNCHANGED <<given, strayed>>
  /\ UNCHANGED <<file, access, put, lost>>

\* Mutation of Position: what is in the buffer and was not read counts as read
PositionOfFile == handle.at

\* stream_property(_, position(_))
Position == handle.at - (handle.filled - handle.ptr)

StreamsNext ==
  \/ OpenWrite \/ OpenAppend \/ OpenRead \/ Close
  \/ \E c \in Codes : put_code(c) \/ put_char(c)
  \/ \E b \in Codes \cap 0..255 : put_byte(b)
  \/ get_code \/ get_byte \/ Peek
  \/ \E i \in {0, Len(file)} : set_stream_position(i)

StreamsSpec == StreamsInit /\ [][StreamsNext]_streamVars

\* What was put in a file is read from it, code point by code point, to its end,
\* wherever the buffer ends and whatever is peeked at in between, and the stream's
\* position is after what was read (_getch, getb, putch, get_stream_position).
WrittenReadsBack ==
  access = "read" /\ ~lost /\ ~strayed =>
    LET read[i \in 0..Len(given)] ==
          IF i = 0 THEN 0
          ELSE read[i - 1] + (IF given[i] = EOF THEN 0 ELSE Len(Bytes(given[i])))
    IN  /\ \A i \in DOMAIN given : given[i] = IF i <= Len(put) THEN put[i] ELSE EOF
        /\ Position = read[Len(given)]

\* A code point that is peeked at is the next one that is read (peekch and _getch):
\* if it is of one byte, or begins the buffer and ends in it.  Of any other, peekch
\* takes the wrong bytes.
PeekIsNext ==
  LET s == peekb(handle).stream
      b == peekb(handle).value
  IN  access = "read" /\ (b > 127 => s.ptr = 0 /\ ~TooLong(b) /\ Following(b) < s.filled)
        => peekch(handle).value = getch(handle).value
===============================================================================
