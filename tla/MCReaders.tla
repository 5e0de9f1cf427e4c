------------------------------- MODULE MCReaders -------------------------------
(* Short files of every format for Readers. *)
EXTENDS Readers

Of(formats, contents, headers) ==
  [format : formats, bytes : contents, random : BOOLEAN, repeat : BOOLEAN, headers : headers]
UpTo(n, S) == UNION {[1..k -> S] : k \in 0..n}

\* Numbers of one digit, and at most two brackets that do not match.
JsonFiles == {b \in UpTo(4, {"[", "]", "1", Space}) :
                /\ \A i \in 2..Len(b) : ~(b[i] = "1" /\ b[i - 1] = "1")}
Rows == UpTo(3, {<<"x">>, <<"y">>})
MCFiles ==
  LET LineFiles == UpTo(4, {"a", LF, CR})
  IN   Of({"line"}, LineFiles, {FALSE})
  \cup Of({"json"}, JsonFiles, {FALSE})
  \cup {f \in Of({"csv"}, Rows \cup {<<<<"x">>, Error>>, <<<<"x">>, Error, <<"y">>>>}, BOOLEAN) :
          \* the first row must be there to be the header, and a repeated file without one has a row
          f.bytes # <<>>}
  \cup {f \in Of({"list"}, {<<>>, <<<<"x">>>>, <<<<"x">>, <<"x">>, <<"y">>>>}, {FALSE}) : f.bytes # <<>> \/ ~f.random}
===============================================================================
