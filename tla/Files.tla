------------------------------- MODULE Files -------------------------------
(***************************************************************************)
(* The files of vfs.c: the stream functions over a file handle with its    *)
(* read buffer (io_private), the functions on whole files, and the file    *)
(* device of Unix below them.  Wrong kinds of arguments, devices without a *)
(* method and the search of the include path are left out; a call answers  *)
(* <<"bool", _>>, <<"int", _>>, <<"str", _>> or <<"array", _>>.            *)
(***************************************************************************)
EXTENDS Format, Encodings

CONSTANTS Chunk,        \* bytes that are read at a time, 8192 in the code
          EofChunk,     \* bytes that feof() and fread() read, 4096 in the code
          MaxFile,      \* bytes that a file can hold
          Paths         \* the paths there are, sequences of names

Truth(b) == <<"bool", b>>
Number(n) == <<"int", n>>
Chars(s) == <<"str", s>>
StrOrFalse(s) == IF s = <<>> THEN Truth(FALSE) ELSE Chars(s)
Answer(io, out) == [io |-> io, out |-> out]

(* The state: the inode of each path (0: none), the inodes, the handle of  *)
(* the script with its buffer, and its directory handle.                   *)
Closed == [ino |-> 0, pos |-> 0, can |-> {}, buf |-> <<>>, off |-> 0]
File(data) == [kind |-> "file", data |-> data, to |-> <<>>]
Data(io) == io.node[io.h.ino].data
SetData(io, data) == [io EXCEPT !.node[io.h.ino].data = data]

(* A path after the symbolic links on it, <<>> when they form a loop.      *)
OnLink(io, p) == p # <<>> /\ io.at[p] # 0 /\ io.node[io.at[p]].kind = "link"
Follow(io, p) == IF OnLink(io, p) THEN io.node[io.at[p]].to ELSE p
Final(io, p) == LET q == Follow(io, Follow(io, p)) IN IF OnLink(io, q) THEN <<>> ELSE q
Kind(io, p) == IF p = <<>> \/ io.at[p] = 0 THEN "none" ELSE io.node[io.at[p]].kind
InDir(io, p) == Len(p) = 1 \/ Kind(io, Front(p)) = "dir"
Created(io, p, n) == [io EXCEPT !.node = Append(@, n), !.at[p] = Len(io.node) + 1]
----------------------------------------------------------------------------
(* The device                                                              *)

(* Only an 'x' makes a file exclusively, 'c' and 'a' keep what is in it.   *)
UnixFile_Open(io, path, mode) ==
    LET p == Final(io, path)
        creates == mode \cap {"create", "excl"} # {}
        writes == mode \cap {"rdwr", "wronly"} # {}
        fits == CASE "excl" \in mode /\ Kind(io, path) # "none" -> FALSE
                  [] Kind(io, p) = "none" -> creates /\ p # <<>> /\ InDir(io, p)
                  [] Kind(io, p) = "dir" -> ~ creates /\ ~ writes
                  [] OTHER -> TRUE
        made == IF Kind(io, p) = "none" THEN Created(io, p, File(<<>>)) ELSE io
        open == [made EXCEPT !.h = [Closed EXCEPT !.ino = made.at[p],
                     !.can = (IF "wronly" \in mode THEN {} ELSE {"read"})
                             \cup (IF writes THEN {"write"} ELSE {}) \cup (mode \cap {"append"})]]
    IN  IF ~ fits THEN [ok |-> FALSE, io |-> io]
        ELSE [ok |-> TRUE, io |-> IF "trunc" \in mode THEN SetData(open, <<>>) ELSE open]

UnixFile_Read(io, n) ==
    LET s == IF "read" \in io.h.can THEN Take(Drop(Data(io), io.h.pos), Min({n, Max({0, Len(Data(io)) - io.h.pos})})) ELSE <<>>
    IN  [io |-> [io EXCEPT !.h.pos = @ + Len(s)], s |-> s]

(* A hole is filled with NULs; a disk that is full keeps the first part of *)
(* what is written, and the call fails.                                    *)
UnixFile_Write(io, z) ==
    LET old == Data(io)
        at == IF "append" \in io.h.can THEN Len(old) ELSE io.h.pos
        n == Min({Len(z), Max({0, MaxFile - at})})
        new == [i \in 1 .. Max({Len(old), at + n}) |->
                  IF i \in at + 1 .. at + n THEN z[i - at]
                  ELSE IF i <= Len(old) THEN old[i] ELSE "NUL"]
    IN  IF "write" \notin io.h.can THEN [io |-> io, n |-> -1]
        ELSE [io |-> IF n = 0 THEN io ELSE [SetData(io, new) EXCEPT !.h.pos = at + n],
              n |-> IF n < Len(z) THEN -1 ELSE n]

UnixFile_Seek(io, n, whence) ==
    LET new == n + (CASE whence = 1 -> io.h.pos [] whence = 2 -> Len(Data(io)) [] OTHER -> 0)
    IN  [ok |-> new >= 0, io |-> IF new >= 0 THEN [io EXCEPT !.h.pos = new] ELSE io]

UnixFile_Trunc(io, n) ==
    LET new == [i \in 1 .. n |-> IF i <= Len(Data(io)) THEN Data(io)[i] ELSE "NUL"]
    IN  IF "write" \in io.h.can /\ n \in 0 .. MaxFile THEN [ok |-> TRUE, io |-> SetData(io, new)]
        ELSE [ok |-> FALSE, io |-> io]

UnixFile_Tell(io) == io.h.pos
----------------------------------------------------------------------------
(* The buffer of a handle                                                  *)

Buffered(io) == Drop(io.h.buf, io.h.off)
ResetIOPrivate(io) == [io EXCEPT !.h.buf = <<>>, !.h.off = 0]
Advance(io, n) == [io EXCEPT !.h.off = @ + n]
Emptied(io) == IF io.h.off >= Len(io.h.buf) THEN ResetIOPrivate(io) ELSE io

(* Mutation: the read offset is left where it was. *)
StreamReadAgain(io, n) ==
    LET s == Take(Buffered(io), Min({n, Len(Buffered(io))}))
        more == UnixFile_Read(io, n - Len(s))
    IN  IF s # <<>> /\ Len(s) = n THEN [io |-> io, s |-> s]
        ELSE [io |-> more.io, s |-> s \o more.s]

(* First what is in the buffer, then the rest from the device.             *)
StreamRead(io, n) ==
    LET s == Take(Buffered(io), Min({n, Len(Buffered(io))}))
        left == IF s = <<>> THEN io ELSE Emptied(Advance(io, Len(s)))
        more == UnixFile_Read(left, n - Len(s))
    IN  IF s # <<>> /\ Len(s) = n THEN [io |-> left, s |-> s]
        ELSE [io |-> more.io, s |-> s \o more.s]

GetLine(io) ==
    LET s == Buffered(io)
        ends == {i \in DOMAIN s : s[i] = "\n"}
    IN  IF ends = {} THEN <<>> ELSE Take(s, Min(ends))

AllBuffered(io) == [io |-> ResetIOPrivate(io), s |-> Buffered(io)]

(* Chunks are put into the buffer until there is a line in it, the device  *)
(* has no more, or the limit is reached (then all that is there is given). *)
RECURSIVE ReadTillLine(_, _)
LineTaken(io, line) == [io |-> Advance(io, Len(line)), s |-> line]
LineOrMore(io, line, max) ==
    IF line # <<>> THEN LineTaken(io, line)
    ELSE IF max > 0 /\ Len(Buffered(io)) >= max THEN AllBuffered(io)
    ELSE ReadTillLine(io, max)
Filled(r, max) ==
    LET more == [r.io EXCEPT !.h.buf = @ \o r.s]
    IN  IF r.s = <<>> THEN AllBuffered(r.io) ELSE LineOrMore(more, GetLine(more), max)
ReadTillLine(io, max) ==
    Filled(UnixFile_Read(io, IF max \in 1 .. Chunk - 1 THEN max ELSE Chunk), max)

StreamReadLine(io, max) ==
    LET First(a, line) == IF line # <<>> THEN LineTaken(a, line) ELSE ReadTillLine(a, max)
    IN  First(Emptied(io), GetLine(Emptied(io)))
----------------------------------------------------------------------------
(* Functions of a handle; a closed one answers FALSE (feof() TRUE).        *)

Opened(io, r, out) == IF io.h.ino = 0 THEN Answer(io, out) ELSE r

(* r, w, a, x and c with a sign that asks for the other direction too.     *)
StrModeToFlags(mode) ==
    LET c == IF mode = <<>> THEN "r" ELSE mode[1]
        both == Len(mode) > 1 /\ mode[2] \in {"+"} \cup (IF c \in {"w", "x"} THEN {"r"} ELSE {})
                                              \cup (IF c = "r" THEN {"w"} ELSE {})
    IN  CASE c = "w" -> {"trunc", "create", IF both THEN "rdwr" ELSE "wronly"}
          [] c = "a" -> {"append", "create", IF both THEN "rdwr" ELSE "wronly"}
          [] c = "x" -> {"excl", IF both THEN "rdwr" ELSE "wronly"}
          [] c = "c" -> {"create", IF both THEN "rdwr" ELSE "wronly"}
          [] OTHER -> {IF c = "r" /\ both THEN "rdwr" ELSE "rdonly"}

fopen(io, p, mode) ==
    LET o == UnixFile_Open(io, p, StrModeToFlags(mode)) IN Answer(o.io, Truth(o.ok))
fclose(io) == Opened(io, Answer([io EXCEPT !.h = Closed], Truth(TRUE)), Truth(FALSE))

Given(io, r) == Opened(io, Answer(r.io, StrOrFalse(r.s)), Truth(FALSE))
fgetc(io) == Given(io, StreamRead(io, 1))
fread(io, n) == Given(io, StreamRead(io, IF n < 1 THEN EofChunk ELSE n))
fgets(io, max) == Given(io, StreamReadLine(io, max))
fgetcsv(io, max) ==
    LET Fields(r) == Answer(r.io, IF r.s = <<>> THEN Truth(FALSE) ELSE <<"array", str_getcsv(r.s)>>)
    IN  Opened(io, Fields(StreamReadLine(io, max)), Truth(FALSE))
fgetss(io, max) ==
    LET Stripped(r) == Answer(r.io, IF r.s = <<>> THEN Truth(FALSE) ELSE Chars(strip_tags(r.s, <<>>)))
    IN  Opened(io, Stripped(StreamReadLine(io, max)), Truth(FALSE))

(* The end of a file is found by reading on into the buffer.               *)
feof(io) ==
    LET r == UnixFile_Read(io, EofChunk)
    IN  Opened(io, IF Buffered(io) # <<>> THEN Answer(io, Truth(FALSE))
                   ELSE Answer([r.io EXCEPT !.h.buf = @ \o r.s], Truth(r.s = <<>>)), Truth(TRUE))

(* Every chunk prints as many bytes as have been read so far: from the     *)
(* second on more than were read, up to bytes behind zBuf ("?").           *)
RECURSIVE PassOn(_, _, _, _)
PassChunk(r, z, n, text) ==
    IF r.s = <<>> THEN [io |-> r.io, out |-> Number(n), text |-> text]
    ELSE PassOn(r.io, z, n, text \o [i \in 1 .. n |-> IF i <= Chunk THEN z[i] ELSE "?"])
PassOn(io, zBuf, nRead, text) ==
    LET Chunked(r) == PassChunk(r, r.s \o Drop(zBuf, Len(r.s)), nRead + Len(r.s), text)
    IN  Chunked(StreamRead(io, Chunk))
fpassthru(io) ==
    Opened(io, PassOn(io, [i \in 1 .. Chunk |-> "?"], 0, <<>>),
           [io |-> io, out |-> Truth(FALSE), text |-> <<>>])

(* Where a handle is: the place of the device, whatever is buffered.       *)
ftell(io) == Opened(io, Answer(io, Number(UnixFile_Tell(io))), Truth(FALSE))
fseek(io, n, whence) ==
    LET r == UnixFile_Seek(io, n, whence)
    IN  Opened(io, IF r.ok THEN Answer(ResetIOPrivate(r.io), Number(0)) ELSE Answer(io, Number(-1)), Number(-1))
rewind(io) == Opened(io, Answer(ResetIOPrivate(UnixFile_Seek(io, 0, 0).io), Truth(TRUE)), Truth(FALSE))
ftruncate(io, n) ==
    LET r == UnixFile_Trunc(io, n)
    IN  Opened(io, IF r.ok THEN Answer(ResetIOPrivate(r.io), Truth(TRUE)) ELSE Answer(io, Truth(FALSE)), Truth(FALSE))
fflush(io) == Opened(io, Answer(io, Truth(TRUE)), Truth(FALSE))
fstat_size(io) == Opened(io, Answer(io, Number(Len(Data(io)))), Truth(FALSE))

(* What is written goes to the place of the device, past the buffer.       *)
fwrite(io, z) ==
    LET w == UnixFile_Write(io, z)
    IN  Opened(io, IF z = <<>> THEN Answer(io, Number(0))
                   ELSE Answer(w.io, IF w.n < 0 THEN Truth(FALSE) ELSE Number(w.n)), Truth(FALSE))

(* An empty field is not written at all; one with a comma or a quote in it *)
(* is enclosed, and enclosed twice when it begins with the quote.          *)
csv_field(field, first) ==
    LET quoted == SyByteFind(field, "\"") = 0 /\ SyByteFind(field, ",") < 0
        e == IF quoted THEN <<"\"", "\"">>
             ELSE IF ToSet(field) \cap {",", "\""} # {} THEN <<"\"">> ELSE <<>>
    IN  IF field = <<>> THEN <<>> ELSE (IF first THEN <<>> ELSE <<",">>) \o e \o field \o e
RECURSIVE csv_write_callback(_, _)
csv_write_callback(fields, first) ==
    IF fields = <<>> THEN <<>>
    ELSE csv_field(fields[1], first) \o csv_write_callback(Tail(fields), first /\ fields[1] = <<>>)
fputcsv(io, fields) ==
    Opened(io, Answer(UnixFile_Write(io, csv_write_callback(fields, TRUE) \o <<"\n">>).io, <<"null">>), Truth(FALSE))

fprintf(io, format, args) ==
    LET w == UnixFile_Write(io, sprintf(format, args))
    IN  Opened(io, Answer(w.io, Number(Max({0, w.n}))), Number(0))
----------------------------------------------------------------------------
(* Functions of whole files: each opens a handle of its own.               *)

Alone(io, r) == [r EXCEPT !.h = io.h]

RECURSIVE ReadOn(_, _, _)
ReadOn(io, max, got) ==
    LET r == UnixFile_Read(io, IF max \in 1 .. Chunk - 1 THEN max ELSE Chunk)
        all == got \o r.s
    IN  IF r.s = <<>> \/ (max > 0 /\ Len(all) >= max) THEN all ELSE ReadOn(r.io, max, all)
PH7_StreamReadWholeFile(io) == ReadOn(io, 0, <<>>)

file_get_contents(io, p, from, max) ==
    LET o == UnixFile_Open(io, p, {"rdonly"})
        s == ReadOn(IF from > 0 THEN UnixFile_Seek(o.io, from, 0).io ELSE o.io, max, <<>>)
    IN  Answer(io, IF o.ok THEN StrOrFalse(s) ELSE Truth(FALSE))

readfile(io, p) ==
    LET o == UnixFile_Open(io, p, {"rdonly"})
        s == ReadOn(o.io, 0, <<>>)
    IN  IF o.ok THEN [io |-> io, out |-> Number(Len(s)), text |-> s]
        ELSE [io |-> io, out |-> Truth(FALSE), text |-> <<>>]

parse_ini_file(io, p, sections) ==
    LET o == UnixFile_Open(io, p, {"rdonly"})
        s == PH7_StreamReadWholeFile(o.io)
    IN  IF o.ok /\ s # <<>> THEN Answer(io, <<"array", PH7_ParseIniString(s, sections)>>)
        ELSE Answer(io, Truth(FALSE))

(* Nothing to write is an error, and the file is not touched.              *)
file_put_contents(io, p, z, append) ==
    LET o == UnixFile_Open(io, p, {"create", "rdwr", IF append THEN "append" ELSE "trunc"})
        w == UnixFile_Write(o.io, z)
    IN  IF z = <<>> \/ ~ o.ok THEN Answer(io, Truth(FALSE))
        ELSE Answer(Alone(io, w.io), IF w.n < 1 THEN Truth(FALSE) ELSE Number(w.n))

(* The lines of a file, without their ends (flag 2), without blank ones    *)
(* (flag 4).                                                               *)
RECURSIVE LinesOn(_, _)
LinesOn(io, flags) ==
    LET Chomped(s) == IF Bit(flags, 2) THEN Take(s, Len(s) - Trailing(s, {"\n"})) ELSE s
        Kept(line) == IF Bit(flags, 4) /\ ToSet(line) \subseteq Space THEN <<>> ELSE <<line>>
        Listing(r) == IF r.s = <<>> THEN <<>> ELSE Kept(Chomped(r.s)) \o LinesOn(r.io, flags)
    IN  Listing(StreamReadLine(io, -1))
file(io, p, flags) ==
    LET o == UnixFile_Open(io, p, {"rdonly"})
    IN  Answer(io, IF o.ok THEN <<"array", LinesOn(o.io, flags)>> ELSE Truth(FALSE))

(* The source is opened before the destination is made empty; an error in  *)
(* writing ends the copy, which succeeds all the same.                     *)
RECURSIVE CopyOn(_, _, _)
CopyOn(io, in, out) ==
    LET Written2(r, w) == IF w.n < 1 THEN w.io ELSE CopyOn(w.io, r.io.h, w.io.h)
        Wrote(r) == IF r.s = <<>> THEN r.io
                    ELSE Written2(r, UnixFile_Write([r.io EXCEPT !.h = out], r.s))
    IN  Wrote(UnixFile_Read([io EXCEPT !.h = in], Chunk))
copy(io, p, q) ==
    LET in == UnixFile_Open(io, p, {"rdonly"})
        out == UnixFile_Open(in.io, q, {"create", "trunc", "rdwr"})
    IN  IF in.ok /\ out.ok THEN Answer(Alone(io, CopyOn(out.io, in.io.h, out.io.h)), Truth(TRUE))
        ELSE Answer(io, Truth(FALSE))
=============================================================================
