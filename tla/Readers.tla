-------------------------------- MODULE Readers --------------------------------
(***************************************************************************)
(* The values that a file or list provider gives: LineReader, JsonReader   *)
(* and CsvReader (src/providers), the iterators of a list and a range      *)
(* (lib/config), the thread that runs a reader (into_stream), and the task *)
(* that forwards its values to the provider's channel (file).              *)
(*                                                                         *)
(* A file is a sequence of bytes; for "csv", whose rows the csv crate      *)
(* finds, and for "list", whose values are in the configuration, it is a   *)
(* sequence of values.  A value of a file is the bytes it is written in.   *)
(***************************************************************************)
EXTENDS Integers, Sequences, FiniteSets, SequencesExt

CONSTANTS Files,    \* what is read: [format, bytes, random, repeat, headers]
          KB8,      \* bytes that one read of a file asks for: 8192 in the code
          QueueMax  \* values between the thread and the task: the channel of 5 and a place for its sender

ASSUME ReadersAssumption == KB8 \in Nat \ {0} /\ QueueMax \in Nat \ {0}

\* A value is not the error a reader sends in its place.  Only a csv
\* file can have a header, and then it has one.
ASSUME FilesAssumption ==
  \A f \in Files :
    /\ f.bytes \in Seq({f.bytes[i] : i \in DOMAIN f.bytes})
    /\ f.format \in {"line", "json", "csv", "list"} /\ {f.random, f.repeat, f.headers} \subseteq BOOLEAN
    /\ f.format \in {"line", "json"} => \A i \in DOMAIN f.bytes : f.bytes[i] # "error"
    /\ f.format = "list" => \A i \in DOMAIN f.bytes : f.bytes[i] # <<"error">>
    /\ f.headers => f.format = "csv" /\ f.bytes # <<>> /\ f.bytes[1] # <<"error">>

VARIABLES file,      \* the provider that is read, one of Files
          offset,    \* the position of the file handle (csv: of the row to be read next)
          buffer,    \* the bytes that were read and not used (list: the values in the order of the iterator)
          eof,       \* get_value of LineReader: the last read gave nothing
          position,  \* where in the file the reader takes itself to be
          positions, \* where the values are: [at, size]
          random,    \* `random` of the readers is set
          again,     \* the value is asked for after a return to the first position
          thread,    \* "scanning", "next", "reading", "yield", "done", "stopped" (its value was refused), "failed"
          value,     \* the value or error it sends next
          queue,     \* between the thread and the task
          closed,    \* the task has ended
          killed,    \* it ended the test with FileReading
          pass       \* for the properties: the values given since the last return to the beginning

reader == <<offset, buffer, eof, position, positions, random, again>>
task == <<queue, closed, killed>>
vars == <<file, reader, thread, value, task, pass>>

LF == "lf"  CR == "cr"  Space == " "
Error == <<"error">>
Least(S) == CHOOSE i \in S : \A j \in S : i <= j

-----------------------------------------------------------------------------
(* What get_value finds in a buffer: the value, the size that is kept for  *)
(* it and the bytes the reader moves on by; Nothing if more must be read.  *)
Found(v, size, moved) == [value |-> v, size |-> size, moved |-> moved]
Nothing == Found(<<>>, -1, 0)
Malformed == Found(Error, -1, 0)

WithoutCR(s) == SubSeq(s, 1, Least({i \in 0..Len(s) : \A j \in i + 1..Len(s) : s[j] = CR}))

FindLine(buf, ended) ==
  LET newlines == {i \in DOMAIN buf : buf[i] = LF} IN
  IF newlines # {} THEN LET i == Least(newlines) IN Found(WithoutCR(SubSeq(buf, 1, i - 1)), i - 1, i)
  ELSE IF ended THEN Found(WithoutCR(buf), Len(buf), Len(buf) + 1)
  ELSE Nothing

\* json::Deserializer, for values that are arrays of arrays or numbers of digits.
Depth(b, i, j) == Cardinality({k \in i..j : b[k] = "["}) - Cardinality({k \in i..j : b[k] = "]"})
FindJson(buf) ==
  LET written == {i \in DOMAIN buf : buf[i] # Space} IN
  IF written = {} THEN Nothing ELSE
  LET s == Least(written)
      ends == IF buf[s] = "[" THEN {j \in s..Len(buf) : Depth(buf, s, j) = 0}
              ELSE {j \in s..Len(buf) : j = Len(buf) \/ buf[j + 1] \in {Space, "[", "]"}}
  IN IF buf[s] = "]" THEN Malformed
     ELSE IF ends = {} THEN Nothing
     ELSE Found(SubSeq(buf, s, Least(ends)), Least(ends), Least(ends))

Find == IF file.format = "line" THEN FindLine(buffer, eof) ELSE FindJson(buffer)

-----------------------------------------------------------------------------
At(at, size) == [at |-> at, size |-> size]
FirstRow(f) == IF f.headers THEN 1 ELSE 0
Bytewise == file.format \in {"line", "json"}

\* LineReader::new, JsonReader::new and CsvReader::new, up to the search for the positions
\* of the values; ListProvider::into_iter.
Init ==
  /\ file \in Files
  /\ offset = IF file.format = "csv" THEN FirstRow(file) ELSE 0
  /\ buffer \in IF file.format # "list" THEN {<<>>}
                ELSE IF file.random /\ ~file.repeat
                  THEN {[i \in DOMAIN file.bytes |-> file.bytes[p[i]]] :
                          p \in {q \in [DOMAIN file.bytes -> DOMAIN file.bytes] : \A i, j \in DOMAIN q : i # j => q[i] # q[j]}}
                ELSE {file.bytes}
  /\ eof = FALSE /\ position = 0 /\ random = FALSE /\ again = FALSE
  /\ positions = IF file.repeat /\ ~file.random /\ ~file.headers THEN <<At(0, 0)>> ELSE <<>>
  /\ thread = IF file.format # "list" /\ (file.random \/ (file.repeat /\ file.headers)) THEN "scanning" ELSE "next"
  /\ value = <<>> /\ queue = <<>> /\ closed = FALSE /\ killed = FALSE /\ pass = <<>>

\* Slip: seek does not forget what was read.
SeekUncleared(p) ==
  /\ offset' = p.at + p.size
  /\ buffer' = buffer \o SubSeq(file.bytes, p.at + 1, p.at + p.size)
  /\ position' = p.at + p.size
  /\ eof' = FALSE
\* Seek::seek, and the read_exact of the hint that follows it.
SeekTo(p) ==
  /\ offset' = p.at + p.size
  /\ buffer' = SubSeq(file.bytes, p.at + 1, p.at + p.size)
  /\ position' = p.at + p.size
  /\ eof' = FALSE

\* next() has a value or an error to send; a random value from a repeated file is a pass of its own.
Yield(v) ==
  /\ value' = v
  /\ thread' = "yield"
  /\ pass' = IF file.random /\ file.repeat THEN <<v>> ELSE Append(pass, v)

-----------------------------------------------------------------------------
(* LineReader and JsonReader.                                              *)
Searching == Bytewise /\ thread \in {"scanning", "reading"}

Take(found) ==
  /\ buffer' = SubSeq(buffer, found.moved + 1, Len(buffer))
  /\ position' = position + found.moved
  /\ eof' = FALSE

\* get_value returns a value: new keeps its position, next gives it out.
GetValue ==
  /\ Searching /\ ~(eof /\ buffer = <<>>)
  /\ Find.size # -1
  /\ Take(Find)
  /\ IF thread = "scanning"
       THEN /\ positions' = Append(positions, At(position, Find.size))
            /\ UNCHANGED <<thread, value, pass>>
       ELSE Yield(Find.value) /\ UNCHANGED positions
  /\ UNCHANGED <<file, offset, random, again, task>>

\* get_value returns an error: the provider cannot be made, or the error is sent.
GetError ==
  /\ Searching /\ Find = Malformed
  /\ IF thread = "scanning" THEN thread' = "failed" /\ UNCHANGED <<value, pass>> ELSE Yield(Error)
  /\ UNCHANGED <<file, reader, task>>

\* get_value reads on; a read of a file gives what it likes of what there is.
Refill ==
  /\ Searching /\ Find = Nothing
  /\ offset < Len(file.bytes)
  /\ \E n \in 1..KB8 :
       /\ offset + n <= Len(file.bytes)
       /\ offset' = offset + n
       /\ buffer' = buffer \o SubSeq(file.bytes, offset + 1, offset + n)
  /\ UNCHANGED <<file, eof, position, positions, random, again, thread, value, task, pass>>

ReadNothing ==
  /\ Searching /\ ~eof /\ Find = Nothing
  /\ offset = Len(file.bytes)
  /\ file.format = "line"
  /\ eof' = TRUE
  /\ UNCHANGED <<file, offset, buffer, position, positions, random, again, thread, value, task, pass>>

\* get_value returns None.
AtTheEnd ==
  /\ Searching
  /\ IF file.format = "line" THEN eof /\ buffer = <<>>
     ELSE Find = Nothing /\ offset = Len(file.bytes)

\* new has all positions and seeks to any of them.
Scanned ==
  /\ AtTheEnd /\ thread = "scanning"
  /\ thread' = "next"
  /\ random' = (positions # <<>>)
  /\ IF positions = <<>> THEN eof' = FALSE /\ UNCHANGED <<offset, buffer, position>>
     ELSE \E i \in DOMAIN positions : SeekTo(At(positions[i].at, 0))
  /\ UNCHANGED <<file, positions, again, value, task, pass>>

\* next at the end of the file goes back to the first position, once.
Return ==
  /\ AtTheEnd /\ thread = "reading"
  /\ file.repeat /\ ~again /\ positions # <<>>
  /\ again' = TRUE
  /\ SeekTo(positions[1])
  /\ pass' = <<>>
  /\ UNCHANGED <<file, positions, random, thread, value, task>>

End ==
  /\ AtTheEnd /\ thread = "reading"
  /\ ~file.repeat \/ again \/ positions = <<>>
  /\ thread' = "done"
  /\ UNCHANGED <<file, reader, value, task, pass>>

\* The beginning of next: the place of a random value.
NextRandom ==
  /\ Bytewise /\ thread = "next" /\ random /\ positions # <<>>
  /\ \E i \in DOMAIN positions :
       /\ SeekTo(positions[i])
       /\ positions' = IF file.repeat THEN positions ELSE RemoveAt(positions, i)
  /\ thread' = "reading" /\ again' = FALSE
  /\ UNCHANGED <<file, random, value, task, pass>>

NextInOrder ==
  /\ Bytewise /\ thread = "next" /\ ~random
  /\ thread' = "reading" /\ again' = FALSE /\ eof' = FALSE
  /\ UNCHANGED <<file, offset, buffer, position, positions, random, value, task, pass>>

NoMoreRandom ==
  /\ file.format # "list" /\ thread = "next" /\ random /\ positions = <<>>
  /\ thread' = "done"
  /\ UNCHANGED <<file, reader, value, task, pass>>

-----------------------------------------------------------------------------
(* CsvReader: offset is the row the csv reader is at.                      *)
Row == file.bytes[offset + 1]
RowsLeft == offset < Len(file.bytes)
Seek(row) == offset' = row
rest == <<buffer, eof, position, again>>

\* The scan reads rows as bytes; one that is no text and fails only in next is left out.
ScanRow ==
  /\ file.format = "csv" /\ thread = "scanning"
  /\ RowsLeft /\ (file.random \/ positions = <<>>)
  /\ IF Row = Error THEN thread' = "failed" /\ UNCHANGED <<offset, positions>>
     ELSE /\ positions' = Append(positions, At(offset, 0))
          /\ Seek(offset + 1)
          /\ UNCHANGED thread
  /\ UNCHANGED <<file, rest, random, value, task, pass>>

RowsScanned ==
  /\ file.format = "csv" /\ thread = "scanning"
  /\ ~RowsLeft \/ (~file.random /\ positions # <<>>)
  /\ thread' = "next"
  /\ random' = (file.random /\ positions # <<>>)
  /\ IF positions = <<>> THEN UNCHANGED offset
     ELSE \E i \in IF file.random THEN DOMAIN positions ELSE {1} : Seek(positions[i].at)
  /\ UNCHANGED <<file, rest, positions, value, task, pass>>

NextRandomRow ==
  /\ file.format = "csv" /\ thread = "next" /\ random /\ positions # <<>>
  /\ \E i \in DOMAIN positions :
       /\ Seek(positions[i].at + 1)
       /\ positions' = IF file.repeat THEN positions ELSE RemoveAt(positions, i)
       /\ Yield(file.bytes[positions[i].at + 1])
  /\ UNCHANGED <<file, rest, random, task>>

NextRow ==
  /\ file.format = "csv" /\ thread = "next" /\ ~random
  /\ RowsLeft
  /\ Yield(Row) /\ Seek(offset + 1)
  /\ UNCHANGED <<file, rest, positions, random, task>>

\* next at the end of the rows: it seeks the first and calls itself.
ReturnToRow ==
  /\ file.format = "csv" /\ thread = "next" /\ ~random
  /\ ~RowsLeft /\ file.repeat /\ positions # <<>>
  /\ Seek(positions[1].at)
  /\ pass' = <<>>
  /\ UNCHANGED <<file, rest, positions, random, thread, value, task>>

EndOfRows ==
  /\ file.format = "csv" /\ thread = "next" /\ ~random
  /\ ~RowsLeft /\ (file.repeat => positions = <<>>)
  /\ thread' = "done"
  /\ UNCHANGED <<file, reader, value, task, pass>>

-----------------------------------------------------------------------------
(* A list, or a range, whose values come in order: offset counts those     *)
(* that were given.                                                        *)
ListNext ==
  /\ file.format = "list" /\ thread = "next"
  /\ IF file.random /\ file.repeat
       THEN \E v \in Range(buffer) : Yield(v) /\ UNCHANGED offset
       ELSE /\ offset < Len(buffer)
            /\ Yield(buffer[offset + 1]) /\ offset' = offset + 1
  /\ UNCHANGED <<file, buffer, eof, position, positions, random, again, task>>

\* The end of the list, which Cycle starts anew.
ListEnd ==
  /\ file.format = "list" /\ thread = "next"
  /\ offset = Len(buffer) /\ ~(file.random /\ file.repeat)
  /\ IF file.repeat /\ buffer # <<>>
       THEN offset' = 0 /\ pass' = <<>> /\ UNCHANGED thread
       ELSE thread' = "done" /\ UNCHANGED <<offset, pass>>
  /\ UNCHANGED <<file, buffer, eof, position, positions, random, again, value, task>>

-----------------------------------------------------------------------------
(* The thread of into_stream and the task of the provider.                 *)
\* Forward itself asks a list for its values, and keeps one while the channel is full.
Room == Len(queue) < IF file.format = "list" THEN 1 ELSE QueueMax

Send ==
  /\ thread = "yield" /\ ~closed /\ Room
  /\ queue' = Append(queue, value)
  /\ thread' = "next" /\ value' = <<>>
  /\ UNCHANGED <<file, reader, closed, killed, pass>>

\* Slip: the thread goes on although nobody takes its values.
SendIgnored ==
  /\ thread = "yield" /\ closed
  /\ thread' = "next" /\ value' = <<>>
  /\ UNCHANGED <<file, reader, task, pass>>
SendRefused ==
  /\ thread = "yield" /\ closed
  /\ thread' = "stopped" /\ value' = <<>>
  /\ UNCHANGED <<file, reader, task, pass>>

\* primer_task: a value goes to the channel, whose receivers may all be gone; an error ends the test.
Forward ==
  /\ ~closed /\ queue # <<>>
  /\ IF Head(queue) = Error THEN killed' = TRUE /\ closed' = TRUE /\ queue' = <<>>
     ELSE queue' = Tail(queue) /\ UNCHANGED <<closed, killed>>
  /\ UNCHANGED <<file, reader, thread, value, pass>>

ReceiversGone ==
  /\ ~closed /\ thread # "scanning"
  /\ closed' = TRUE /\ queue' = <<>>
  /\ UNCHANGED <<file, reader, thread, value, killed, pass>>

Over == thread \in {"done", "stopped", "failed"} /\ (queue = <<>> \/ closed)
Ended == Over /\ UNCHANGED vars

Thread ==
  \/ GetValue \/ GetError \/ Refill \/ ReadNothing \/ Scanned \/ Return \/ End
  \/ NextRandom \/ NextInOrder \/ NoMoreRandom
  \/ ScanRow \/ RowsScanned \/ NextRandomRow \/ NextRow \/ ReturnToRow \/ EndOfRows
  \/ ListNext \/ ListEnd \/ Send \/ SendRefused
Next == Thread \/ Forward \/ ReceiversGone \/ Ended

\* The thread and the task run; nobody need drop the receivers.
Fairness == WF_vars(Thread) /\ WF_vars(Forward)
Spec == Init /\ [][Next]_vars /\ Fairness

-----------------------------------------------------------------------------
(* What the formats mean: the values of the whole file.                    *)
Starts(b) ==
  CASE file.format = "line" -> {i \in DOMAIN b : i = 1 \/ b[i - 1] = LF}
    [] file.format = "json" -> {i \in DOMAIN b : /\ b[i] \notin {Space, "]"} /\ Depth(b, 1, i - 1) = 0
                                                /\ (b[i] = "[" \/ i = 1 \/ b[i - 1] \in {Space, "]"})}
    [] OTHER -> FirstRow(file) + 1..Len(b)
IsEnd(b, s, e) ==
  CASE file.format = "line" -> e = Len(b) + 1 \/ b[e] = LF
    [] file.format = "json" -> IF e > Len(b) THEN FALSE ELSE IF b[s] = "[" THEN Depth(b, s, e) = 0
                               ELSE e = Len(b) \/ b[e + 1] \in {Space, "[", "]"}
    [] OTHER -> TRUE
Ends(b, s) == {e \in s..Len(b) + 1 : IsEnd(b, s, e)}
ValueAt(b, s) ==
  CASE file.format = "line" -> WithoutCR(SubSeq(b, s, Least(Ends(b, s)) - 1))
    [] file.format = "json" -> SubSeq(b, s, Least(Ends(b, s)))
    [] OTHER -> b[s]
Complete(b) == {s \in Starts(b) : Ends(b, s) # {}}
Nth(S, n) == CHOOSE s \in S : Cardinality({t \in S : t < s}) = n - 1
ValuesOf(b) == [n \in 1..Cardinality(Complete(b)) |-> ValueAt(b, Nth(Complete(b), n))]

\* The part of a file before the first byte or row that is wrong.
Wrong(b, i) == \/ file.format = "json" /\ Depth(b, 1, i) < 0
               \/ file.format = "csv" /\ b[i] = Error
Good == LET wrong == {i \in DOMAIN file.bytes : Wrong(file.bytes, i)} IN
        IF wrong = {} THEN file.bytes ELSE SubSeq(file.bytes, 1, Least(wrong) - 1)
WellFormed == Good = file.bytes
Values == ValuesOf(Good)

AtLast == \/ AtTheEnd /\ thread = "reading" /\ ~again
          \/ file.format = "csv" /\ thread = "next" /\ ~RowsLeft
          \/ file.format = "list" /\ thread = "next" /\ offset = Len(buffer)
UpToError(s) == SubSeq(s, 1, Least({i - 1 : i \in {j \in DOMAIN s : s[j] = Error}} \cup {Len(s)}))
Count(s, v) == Cardinality({i \in DOMAIN s : s[i] = v})

\* A provider gives the values of its file or list, however the reads cut the file: in order from
\* the first to the last, again from the first only after the last if it repeats; each once in any
\* order if it is random; and the end comes after all of them, or never.
ValuesAsWritten ==
  /\ ~file.random => /\ IsPrefix(UpToError(pass), Values)
                     /\ AtLast /\ WellFormed => pass = Values
  /\ file.random => \A v \in Range(pass) : Count(pass, v) <= Count(Values, v)
  /\ thread = "done" /\ WellFormed => IF file.repeat THEN Values = <<>> ELSE Len(pass) = Len(Values)
  /\ thread = "failed" \/ killed => ~WellFormed

\* The thread that blocks on a provider nobody reads any more ends, and the provider of a repeated
\* file or list never runs dry.
ReaderServes ==
  /\ closed ~> Over
  /\ (file.repeat /\ WellFormed /\ Values # <<>>) => []<>(thread = "yield" \/ closed)
===============================================================================
