-------------------------------- MODULE Vfs --------------------------------
(***************************************************************************)
(* The file system functions of vfs.c: the PH7_vfs_* functions that hand a *)
(* call to the virtual file system, UnixVfs below them, directories, and   *)
(* the functions that only look at the text of a path.  What Unix does in  *)
(* stat(), rename() and the like is taken from how UnixVfs uses it; owners *)
(* permissions and times are left out, and no link is a directory on the   *)
(* way to another path.                                                    *)
(***************************************************************************)
EXTENDS Files

CONSTANT VfsMethods         \* the methods of the VFS that is installed

(* A function whose method the VFS lacks answers FALSE.                    *)
Asked(method, io, answer) ==
    IF method \in VfsMethods THEN answer ELSE Answer(io, Truth(FALSE))
Done(r) == Answer(r.io, Truth(r.ok))

Step(ok, old, new) == [ok |-> ok, io |-> IF ok THEN new ELSE old]
Below(p) == {q \in Paths : Len(q) = Len(p) + 1 /\ IsPrefix(p, q)}
Children(io, p) == {q \in Below(p) : io.at[q] # 0}
Seen(io, p) == Kind(io, Final(io, p))

(* The device                                                              *)
UnixVfs_mkdir(io, p) ==
    Step(Kind(io, p) = "none" /\ InDir(io, p), io,
         Created(io, p, [File(<<>>) EXCEPT !.kind = "dir"]))
UnixVfs_rmdir(io, p) ==
    Step(Kind(io, p) = "dir" /\ Children(io, p) = {}, io, [io EXCEPT !.at[p] = 0])
UnixVfs_unlink(io, p) ==
    Step(Kind(io, p) \in {"file", "link"}, io, [io EXCEPT !.at[p] = 0])

(* What is below a directory moves with it; a file gives way to a file, an *)
(* empty directory to a directory.                                         *)
UnixVfs_Rename(io, p, q) ==
    LET moved == [io EXCEPT !.at = [x \in Paths |->
                    IF IsPrefix(q, x) THEN LET y == p \o Drop(x, Len(q))
                                           IN  IF y \in Paths THEN io.at[y] ELSE 0
                    ELSE IF IsPrefix(p, x) THEN 0 ELSE io.at[x]]]
        same == io.at[p] = io.at[q]
        gives == CASE Kind(io, q) = "none" -> InDir(io, q)
                   [] Kind(io, q) = "dir" -> Kind(io, p) = "dir" /\ Children(io, q) = {}
                   [] OTHER -> Kind(io, p) # "dir"
    IN  IF io.at[p] # 0 /\ same THEN Step(TRUE, io, io)
        ELSE Step(io.at[p] # 0 /\ gives /\ ~ IsPrefix(p, q), io, moved)

UnixVfs_link(io, p, q, sym) ==
    Step(Kind(io, q) = "none" /\ InDir(io, q) /\ (sym \/ Kind(io, p) \in {"file", "link"}), io,
         IF sym THEN Created(io, q, [kind |-> "link", data |-> <<>>, to |-> p])
         ELSE [io EXCEPT !.at[q] = io.at[p]])

(* No file is made by touching it.                                         *)
UnixVfs_Touch(io, p) == Step(Seen(io, p) # "none", io, io)
UnixVfs_isdir(io, p) == Seen(io, p) = "dir"
UnixVfs_isfile(io, p) == Seen(io, p) = "file"
UnixVfs_FileExists(io, p) == Seen(io, p) # "none"

(* stat() follows links, so nothing is ever seen to be one.                *)
UnixVfs_islink(io, p) == Seen(io, p) = "link"
UnixVfs_Filetype(io, p) == IF Seen(io, p) = "none" THEN "unknown" ELSE Seen(io, p)
Size(io, p) == Len(io.node[io.at[p]].data)
UnixVfs_FileSize(io, p) == IF Seen(io, p) = "none" THEN -1 ELSE Size(io, Final(io, p))
UnixVfs_Stat(io, p) ==
    IF Seen(io, p) = "none" THEN <<>> ELSE <<Seen(io, p), Size(io, Final(io, p))>>
UnixVfs_lStat(io, p) == IF Kind(io, p) = "none" THEN <<>> ELSE <<Kind(io, p), Size(io, p)>>

(* The functions of scripts                                                *)
mkdir(io, p) == Asked("mkdir", io, Done(UnixVfs_mkdir(io, p)))
rmdir(io, p) == Asked("rmdir", io, Done(UnixVfs_rmdir(io, p)))
unlink(io, p) == Asked("unlink", io, Done(UnixVfs_unlink(io, p)))
rename(io, p, q) == Asked("rename", io, Done(UnixVfs_Rename(io, p, q)))
link(io, p, q) == Asked("link", io, Done(UnixVfs_link(io, p, q, FALSE)))
symlink(io, p, q) == Asked("link", io, Done(UnixVfs_link(io, p, q, TRUE)))
touch(io, p) == Asked("touch", io, Done(UnixVfs_Touch(io, p)))
is_dir(io, p) == "isdir" \in VfsMethods /\ UnixVfs_isdir(io, p)
is_file(io, p) == "isfile" \in VfsMethods /\ UnixVfs_isfile(io, p)
is_link(io, p) == "islink" \in VfsMethods /\ UnixVfs_islink(io, p)
file_exists(io, p) == "exists" \in VfsMethods /\ UnixVfs_FileExists(io, p)
filetype(io, p) == IF "filetype" \in VfsMethods THEN Chars(UnixVfs_Filetype(io, p)) ELSE Truth(FALSE)
filesize(io, p) == IF "size" \in VfsMethods THEN Number(UnixVfs_FileSize(io, p)) ELSE Truth(FALSE)
Fields(method, s) == IF method \in VfsMethods /\ s # <<>> THEN <<"array", s>> ELSE Truth(FALSE)
stat(io, p) == Fields("stat", UnixVfs_Stat(io, p))
lstat(io, p) == Fields("lstat", UnixVfs_lStat(io, p))
----------------------------------------------------------------------------
(* Directories: a handle is the names that the device still has.           *)

NoDir == [open |-> FALSE, all |-> <<>>, left |-> <<>>]
UnixDir_Open(io, p) ==
    LET names == <<".", "..">> \o SetToSeq({Last(q) : q \in Children(io, Final(io, p))})
    IN  IF Seen(io, p) = "dir" THEN [open |-> TRUE, all |-> names, left |-> names] ELSE NoDir
opendir(io, p) == LET d == UnixDir_Open(io, p) IN [dir |-> d, ok |-> d.open]
UnixDir_Read(d) ==
    LET left == Drop(d.left, Lead(d.left, {".", ".."}))
    IN  IF left = <<>> THEN [dir |-> [d EXCEPT !.left = left], out |-> Truth(FALSE)]
        ELSE [dir |-> [d EXCEPT !.left = Tail(left)], out |-> Chars(Head(left))]
readdir(d) == IF d.open THEN UnixDir_Read(d) ELSE [dir |-> d, out |-> Truth(FALSE)]
rewinddir(d) == [d EXCEPT !.left = d.all]
closedir(d) == NoDir
----------------------------------------------------------------------------
(* The text of a path                                                      *)

LastSlash(s) == IF "/" \in ToSet(s) THEN Max({i \in DOMAIN s : s[i] = "/"}) ELSE 0

(* A slash at the end counts.                                              *)
PH7_ExtractDirName(s) ==
    CASE LastSlash(s) = 0 -> <<".">> [] LastSlash(s) = 1 -> <<"/">> [] OTHER -> Take(s, LastSlash(s) - 1)
dirname(s) == IF s = <<>> THEN <<".">> ELSE PH7_ExtractDirName(s)

(* A slash that is the first character stays; a suffix longer than the     *)
(* name takes nothing away, but gives the slashes at the end back.         *)
basename(s, suffix) ==
    LET n == Max({1, Len(s) - Trailing(s, {"/"})})
        slash == LastSlash(Take(s, n))
        base == IF slash > 1 THEN slash ELSE 0
        cut == suffix # <<>> /\ Len(suffix) < n /\ IsSuffix(suffix, Take(s, n))
        size == n - base - (IF cut THEN Len(suffix) ELSE 0)
    IN  IF s = <<>> THEN <<>> ELSE IF size < 0 THEN Drop(s, base) ELSE Take(Drop(s, base), size)

ExtractPathInfo(s) ==
    LET start == IF LastSlash(s) > 1 THEN LastSlash(s) ELSE 0
        dir == Take(s, start)
        raw == Drop(s, start)
        base == Drop(raw, Lead(raw, {"/"}))
        dots == {i \in 2 .. Len(base) : base[i] = "."}
        ext == IF dots = {} THEN <<>> ELSE Drop(base, Max(dots))
    IN  IF s = <<"/">> THEN [dirname |-> s, basename |-> <<>>, extension |-> <<>>, filename |-> <<>>]
        ELSE [dirname |-> IF Len(dir) > 1 THEN Take(dir, Len(dir) - Trailing(dir, {"/"}))
                          ELSE IF s[1] = "/" THEN <<"/">> ELSE dir,
              basename |-> base, extension |-> ext,
              filename |-> IF dots = {} THEN base ELSE Take(base, Max(dots) - 1)]

(* All parts that are not empty, or the one that was asked for.            *)
pathinfo(s, part) ==
    LET info == ExtractPathInfo(s)
    IN  IF s = <<>> THEN <<>>
        ELSE IF part # "" THEN info[part]
        ELSE Restrict(info, {k \in DOMAIN info : info[k] # <<>>})
----------------------------------------------------------------------------
(* Patterns                                                                *)

(* The characters in the order of their codes.                             *)
Codes == <<"*", "-", ".", "/", "?", "A", "B", "[", "\\", "]", "^", "a", "b", "c">>
Code(c) == CHOOSE i \in DOMAIN Codes : Codes[i] = c

(* The rest of a set behind its head: whether c is in it.                  *)
RECURSIVE InSet(_, _, _, _)
InSet(p, c, prior, seen) ==
    IF p = <<>> THEN [closed |-> FALSE, seen |-> seen, rest |-> p]
    ELSE IF p[1] = "]" THEN [closed |-> TRUE, seen |-> seen, rest |-> Tail(p)]
    ELSE IF p[1] = "-" /\ Len(p) > 1 /\ p[2] # "]" /\ prior # ""
         THEN InSet(Drop(p, 2), c, "", seen \/ Code(c) \in Code(prior) .. Code(p[2]))
    ELSE InSet(Tail(p), c, p[1], seen \/ c = p[1])

SetOf(p, c) ==
    LET invert == p # <<>> /\ p[1] = "^"
        q == IF invert THEN Tail(p) ELSE p
        r == IF q # <<>> /\ q[1] = "]" THEN InSet(Tail(q), c, "", c = "]") ELSE InSet(q, c, "", FALSE)
    IN  [matches |-> r.closed /\ r.seen # invert, rest |-> r.rest]

(* A set behind a star never matches, nor does any set when nothing can be *)
(* escaped; a set is not escaped by what stands before it, which goes on   *)
(* to the next character.                                                  *)
RECURSIVE patternCompare(_, _, _, _, _)
patternCompare(p, s, esc, nocase, prev) ==
    LET Same(a, b) == a = b \/ (nocase /\ ToLower(a) = ToLower(b))
        run == Lead(Tail(p), {"*", "?"})
        ones == Len(SelectSeq(Take(Tail(p), run), LAMBDA c : c = "?"))
        next == Drop(Tail(p), run)
        from == Drop(s, ones)
        lit == IF next[1] = esc THEN Tail(next) ELSE next
        set == SetOf(Tail(p), s[1])
    IN  IF p = <<>> THEN s = <<>>
        ELSE IF p[1] = "*" /\ ~ prev THEN
             /\ Len(s) >= ones
             /\ \/ next = <<>>
                \/ /\ next # <<>> /\ next[1] # "[" /\ lit # <<>>
                   /\ \E i \in DOMAIN from :
                        Same(from[i], lit[1]) /\ patternCompare(Tail(lit), Drop(from, i), esc, nocase, FALSE)
        ELSE IF p[1] = esc /\ ~ prev THEN patternCompare(Tail(p), s, esc, nocase, TRUE)
        ELSE IF s = <<>> THEN FALSE
        ELSE IF p[1] = "[" THEN esc # "" /\ set.matches /\ patternCompare(set.rest, Tail(s), esc, nocase, prev)
        ELSE /\ Same(p[1], s[1]) \/ (p[1] = "?" /\ ~ prev)
             /\ patternCompare(Tail(p), Tail(s), esc, nocase, FALSE)

Glob(p, s, esc, nocase) == patternCompare(p, s, esc, nocase, FALSE)
fnmatch(p, s, flags) == Glob(p, s, IF Bit(flags, 1) THEN "" ELSE "\\", Bit(flags, 8))
strglob(p, s) == Glob(p, s, "\\", FALSE)
============================================================================
