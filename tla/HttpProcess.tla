----------------------------- MODULE HttpProcess -----------------------------
(***************************************************************************)
(* http_process() of http_server.hpp and the directory listing it writes,  *)
(* against a file system that other programs change while it looks.  The   *)
(* function asks for the kind of one path up to five times; each look is a *)
(* step, and so is each piece of a file that it reads.  Text is a sequence *)
(* of characters (strings of length one, and the word download=1).  An     *)
(* exception that leaves the function ends the server: nothing in          *)
(* http_server() or main() catches it.                                     *)
(***************************************************************************)
EXTENDS Integers, Sequences, SequencesExt, FiniteSetsExt

CONSTANTS
    Chars,      \* the characters of texts
    Paths,      \* paths that may exist, relative to the served directory
    Contents,   \* contents of files
    Requests    \* [get, target]: whether it parses as a GET, and of what

\* Relative paths of a file system: no name is empty, and none is "." .
ASSUME PathsAssumption ==
    /\ Paths \subseteq Seq(Chars) /\ IsFiniteSet(Paths)
    /\ Paths # {} /\ <<".">> \notin Paths
    /\ \A p \in Paths : /\ p # <<>> /\ p[Len(p)] # "/"
                        /\ p[1] = "." /\ Len(p) > 1 => p[2] # "/"
ASSUME ContentsAssumption == {"none", "dir"} \cap Contents = {}
ASSUME RequestsAssumption == \A r \in Requests : r.get \in BOOLEAN /\ r.target \in Seq(Chars)

VARIABLES
    nodes,      \* path -> "none", "dir" or the contents of a file
    pc,         \* idle; the look that comes next; done; threw, overflow (ended)
    request,
    file,       \* what the open stream's file holds, "none" when none is open
    body,       \* the local body, as [kind, of]
    status,     \* 200, 404 or 400
    attachment, \* whether there is a Content-Disposition
    seen        \* history: what the path was at some moment of this request

vars == <<nodes, pc, request, file, body, status, attachment, seen>>

-----------------------------------------------------------------------------
(* Text: url_encode, url_decode, html_escape. *)

Special == {"%", "+", "?", "&", " "}
Hex == [c \in Special |-> CASE c = "%" -> <<"2", "5">> [] c = "+" -> <<"2", "b">>
                            [] c = "?" -> <<"3", "f">> [] c = "&" -> <<"2", "6">>
                            [] c = " " -> <<"2", "0">>]
HexDigits == {"0", "2", "3", "5", "6", "a", "b", "d", "f"}

ASSUME CharsAssumption ==
    Special \cup HexDigits \cup {"/", ".", "other", "download=1"} \subseteq Chars

\* Mutant: a name goes into a link as it is.
NotEncoded(str) == str

url_encode(str) ==
    FlattenSeq([i \in DOMAIN str |->
        IF str[i] \in Special THEN <<"%">> \o Hex[str[i]] ELSE <<str[i]>>])

\* istringstream >> std::hex on two characters: a lone first digit is a value, too.
Decodes(c1, c2) == c1 \in HexDigits
Decoded(c1, c2) == LET of == {c \in Special : Hex[c] = <<c1, c2>>}
                   IN  IF of # {} THEN CHOOSE c \in of : TRUE ELSE "other"

url_decode(str) ==
    LET from[i \in 1 .. Len(str) + 1] ==
            IF i > Len(str) THEN <<>>
            ELSE IF str[i] = "%" /\ i + 2 <= Len(str) /\ Decodes(str[i + 1], str[i + 2])
                 THEN <<Decoded(str[i + 1], str[i + 2])>> \o from[i + 3]
            ELSE <<IF str[i] = "+" THEN " " ELSE str[i]>> \o from[i + 1]
    IN  from[1]

\* Length of html_escape(str): an ampersand becomes five characters.
EscapedLength(str) == Len(str) + 4 * Cardinality({i \in DOMAIN str : str[i] = "&"})

-----------------------------------------------------------------------------
(* The request. *)

\* The target from its first question mark on.
Query(target) ==
    LET marks == {i \in DOMAIN target : target[i] = "?"}
    IN  IF marks = {} THEN <<>> ELSE SubSeq(target, Min(marks), Len(target))
is_download(target) == Contains(Query(target), "download=1")

Path(target) ==
    LET noQuery == SubSeq(target, 1, Len(target) - Len(Query(target)))
        decoded == url_decode(IF noQuery # <<>> /\ Head(noQuery) = "/"
                              THEN Tail(noQuery) ELSE noQuery)
    IN  IF decoded = <<>> THEN <<".">> ELSE decoded

path == Path(request.target)

EndsWithSlash(p) == p # <<>> /\ Last(p) = "/"
Node(p) == IF EndsWithSlash(p) THEN Front(p) ELSE p

\* What a look at p finds in a tree: a trailing slash names directories only.  A target
\* that spells a path of the tree in another way, with // or /./ in it, finds nothing.
Look(tree, p) ==
    IF p = <<".">> THEN "dir"
    ELSE IF Node(p) \notin Paths THEN "none"
    ELSE IF EndsWithSlash(p) /\ tree[Node(p)] # "dir" THEN "none"
    ELSE tree[Node(p)]
Now == Look(nodes, path)

-----------------------------------------------------------------------------
(* The file system. *)

Slashes(p) == {i \in DOMAIN p : p[i] = "/"}
Name(p) == SubSeq(p, Max(Slashes(p) \cup {0}) + 1, Len(p))
Parent(p) == IF Slashes(p) = {} THEN <<".">> ELSE SubSeq(p, 1, Max(Slashes(p)) - 1)

Children(tree, p) == {q \in Paths : Parent(q) = p /\ tree[q] # "none"}
IsTree(tree) == \A p \in Paths : tree[p] # "none" =>
                    Parent(p) = <<".">> \/ (Parent(p) \in Paths /\ tree[Parent(p)] = "dir")

Trees == {tree \in [Paths -> Contents \cup {"none", "dir"}] : IsTree(tree)}

-----------------------------------------------------------------------------
(* The listing. *)

IsDirectory(p) == nodes[p] = "dir"

\* Bytes of an entry's name in the text column, and of that name as it is shown.
NameLength(p)    == Len(Name(p)) + (IF IsDirectory(p) THEN 1 ELSE 0)
DisplayLength(p) == EscapedLength(Name(p)) + (IF IsDirectory(p) THEN 1 ELSE 0)

get_max_name_length(entries) == Max({NameLength(p) : p \in entries} \cup {0})

\* Mutant: the space is taken off instead of added.
PaddingShort(p, entries) == get_max_name_length(entries) - DisplayLength(p) - 1

\* A negative padding is a size_t that wrapped: std::string throws length_error.
Padding(p, entries) ==
    get_max_name_length(entries) - DisplayLength(p) + (IF IsDirectory(p) THEN 0 ELSE 1)

\* The link of entry p in the listing of dir.
Href(dir, p) ==
    LET base == IF dir = <<".">> THEN <<"/">> ELSE <<"/">> \o dir
    IN  base \o (IF EndsWithSlash(base) THEN <<>> ELSE <<"/">>) \o url_encode(Name(p))
            \o (IF IsDirectory(p) THEN <<"/">> ELSE <<>>)

Links(dir, entries) ==
    {[href |-> Href(dir, p), to |-> p] : p \in entries}
    \cup {[href |-> Href(dir, p) \o <<"?", "download=1">>, to |-> p] :
              p \in {q \in entries : ~IsDirectory(q)}}

\* generate_breadcrumb: a link for each directory on the way to path.
Breadcrumb(dir) ==
    {[href |-> <<"/">> \o SubSeq(dir, 1, i) \o <<"/">>, to |-> SubSeq(dir, 1, i)] :
        i \in IF dir = <<".">> THEN {}
              ELSE {j \in 1 .. Len(dir) : dir[j] # "/" /\ (j = Len(dir) \/ dir[j + 1] = "/")}}

-----------------------------------------------------------------------------
(* http_process(), one step per look. *)

NoBody == [kind |-> "none", of |-> {}]
Idle == [get |-> FALSE, target |-> <<>>]

Init ==
    /\ nodes \in Trees
    /\ pc = "idle" /\ request = Idle /\ file = "none" /\ body = NoBody
    /\ status = 0 /\ attachment = FALSE /\ seen = {}

Accept(r) ==
    /\ pc = "idle"
    /\ request' = r
    /\ IF r.get
       THEN /\ pc' = "exists" /\ seen' = {Look(nodes, Path(r.target))}
            /\ UNCHANGED <<body, status>>
       ELSE /\ pc' = "done" /\ status' = 400 /\ body' = [kind |-> "400", of |-> {}]
            /\ UNCHANGED seen
    /\ UNCHANGED <<nodes, file, attachment>>

Exists ==
    /\ pc = "exists"
    /\ IF Now # "none"
       THEN pc' = "is_directory" /\ UNCHANGED body
       ELSE pc' = "status" /\ body' = [kind |-> "404", of |-> {}]
    /\ UNCHANGED <<nodes, request, file, status, attachment, seen>>

Is_directory ==
    /\ pc = "is_directory"
    /\ pc' = IF Now = "dir" THEN "list" ELSE "open"
    /\ UNCHANGED <<nodes, request, file, body, status, attachment, seen>>

\* list_directory() swallows an error: it returns what it had read until then.
Listed(entries) ==
    IF \E p \in entries : Padding(p, entries) < 0
    THEN pc' = "overflow" /\ body' = [kind |-> "unfinished", of |-> entries]
    ELSE /\ pc' = "status"
         /\ body' = [kind |-> "listing", of |-> Links(path, entries) \cup Breadcrumb(path)]

List ==
    /\ pc = "list"
    /\ \E entries \in SUBSET Children(nodes, Node(path)) : Listed(entries)
    /\ UNCHANGED <<nodes, request, file, status, attachment, seen>>

\* The stream is opened; nobody asks whether it is.  A path that is no file any more, or
\* a file that cannot be opened, gives an empty body.
Open ==
    /\ pc = "open"
    /\ \/ /\ Now \in Contents
          /\ pc' = "read" /\ file' = Now /\ body' = [kind |-> "part", of |-> {}]
       \/ /\ pc' = "status" /\ UNCHANGED file
          /\ body' = [kind |-> IF Now \in Contents THEN "failed" ELSE "empty", of |-> {}]
    /\ UNCHANGED <<nodes, request, status, attachment, seen>>

\* file.rdbuf() is read a piece at a time: each is of what the file holds by then.
ReadPiece ==
    /\ pc = "read"
    /\ body' = [kind |-> "part", of |-> body.of \cup {file}]
    /\ UNCHANGED <<nodes, pc, request, file, status, attachment, seen>>

\* The end of the file; or an error, which nobody asks for either, and the body is what
\* was read before it.
ReadEnds ==
    /\ pc = "read" /\ pc' = "status" /\ file' = "none"
    /\ \/ body.of # {} /\ body' = [kind |-> "file", of |-> body.of]
       \/ body' = [kind |-> "failed", of |-> body.of]
    /\ UNCHANGED <<nodes, request, status, attachment, seen>>

StatusNow == IF Now # "none" THEN 200 ELSE 404

Status ==
    /\ pc = "status"
    /\ status' = StatusNow
    /\ pc' = IF is_download(request.target) THEN "download" ELSE "done"
    /\ UNCHANGED <<nodes, request, file, body, attachment, seen>>

\* Mutant: the second exists() of a download is left out.
OffersAnything == TRUE

\* fs::exists(path), the first of the two looks of the condition on a download.
OffersNow == Now # "none"

Download ==
    /\ pc = "download"
    /\ pc' = IF OffersNow THEN "disposition" ELSE "done"
    /\ UNCHANGED <<nodes, request, file, body, status, attachment, seen>>

Disposition ==
    /\ pc = "disposition"
    /\ attachment' = (Now # "dir")
    /\ pc' = "done"
    /\ UNCHANGED <<nodes, request, file, body, status, seen>>

Answered ==
    /\ pc = "done"
    /\ pc' = "idle" /\ request' = Idle /\ body' = NoBody
    /\ status' = 0 /\ attachment' = FALSE /\ seen' = {}
    /\ UNCHANGED <<nodes, file>>

\* exists() and is_directory() throw on any error but a missing path.
LookThrows ==
    /\ pc \in {"exists", "is_directory", "status", "download", "disposition"}
    /\ pc' = "threw"
    /\ UNCHANGED <<nodes, request, file, body, status, attachment, seen>>

\* Another program creates, removes, renames or rewrites.  A file that is open stays what
\* it was when its path gets another one, and changes when it is rewritten in place.
Change(p, node) ==
    /\ nodes[p] # node
    /\ nodes' = [nodes EXCEPT ![p] = node]
    /\ IsTree(nodes')
    /\ seen' = IF seen = {} THEN {} ELSE seen \cup {Look(nodes', path)}
    /\ \/ UNCHANGED file
       \/ /\ pc = "read" /\ p = Node(path) /\ nodes[p] = file /\ node \in Contents
          /\ file' = node
    /\ UNCHANGED <<pc, request, body, status, attachment>>

Process == \/ Exists \/ Is_directory \/ List \/ Open \/ ReadPiece \/ ReadEnds
           \/ Status \/ Download \/ Disposition \/ Answered \/ LookThrows

Next == \/ \E r \in Requests : Accept(r)
        \/ Process
        \/ \E p \in Paths, node \in Contents \cup {"none", "dir"} : Change(p, node)

Spec == Init /\ [][Next]_vars

-----------------------------------------------------------------------------
\* Whatever happens to the path between the looks, each part of the answer was true
\* of it at some moment of the request: every piece of the contents sent is of contents it
\* had, a listing is of a directory, a 404 of what was missing; and a body that has
\* nothing of a file whose stream did not fail, like a status and a body that disagree,
\* only comes from a path that changed meanwhile.  (A stream that fails is not noticed:
\* what it gave until then is sent with a 200, http_server.hpp:339-342.)
\* A path that stays a file is offered as an attachment exactly if that was asked for.
AnswerWasTrue ==
    pc = "done" /\ request.get =>
        /\ body.kind \in {"file", "failed", "empty", "listing", "404"}
        /\ body.kind \in {"file", "failed"} => body.of \subseteq seen \cap Contents
        /\ body.kind = "file"    => body.of # {}
        /\ body.kind = "listing" => "dir" \in seen
        /\ body.kind = "404"     => "none" \in seen
        /\ body.kind = "empty"   => seen \cap {"none", "dir"} # {} /\ \E x, y \in seen : x # y
        /\ status = 200          => seen # {"none"}
        /\ status = 404          => "none" \in seen
        /\ attachment            => is_download(request.target) /\ seen \notin {{"dir"}, {"none"}}
        /\ seen \subseteq Contents => (attachment <=> is_download(request.target))

\* The links of a page lead back to what they are shown for, whatever characters the
\* entries' names have, as long as the names of the directories above them have none
\* that mean something in a URL: those are not encoded.
LinksLeadBack ==
    body.kind = "listing" /\ (\A i \in DOMAIN path : path[i] \notin Special) =>
        \A link \in body.of : Node(Path(link.href)) = link.to

\* Only a name that grows when it is escaped makes the padding wrap and ends the
\* server while it lists a directory.
OnlyEscapesOverflow ==
    pc = "overflow" => \E p \in body.of : EscapedLength(Name(p)) > Len(Name(p))
=============================================================================
