---------------------------- MODULE RequestHandling ----------------------------
(***************************************************************************)
(* What is done with a request once it is parsed: Connection::handleRequest*)
(* (src/core/connection.cpp), the pages and listings of StaticFile         *)
(* (src/core/static_file.cpp), the entry to the accounts and to an upload, *)
(* and the response.  One worker handles one request after another, of     *)
(* browsers that keep a cookie and follow redirects; what other workers,   *)
(* and an administrator, do meanwhile is in EndSession and ChangeTree.     *)
(*                                                                         *)
(* The drive has one directory with names, some of which may be (empty)    *)
(* directories.  DriveFiles has the contents of files and the steps of the *)
(* cache and of the parts of an upload, UserAccounts those of the accounts.*)
(***************************************************************************)
EXTENDS RequestParsing, UrlCodec

CONSTANTS
    Clients,           \* browsers
    Cookies,           \* session ids
    Owner,             \* the user each session id is created for, if it is
    FirstJar,          \* the cookies the browsers may have at first
    Names,             \* names in the drive, strings of UrlCodec
    HtmlNames,         \* those of text/html
    DriveUrl,          \* drive_url_, as it is configured
    DrivePaths,        \* what clients ask for in the drive, before decode
    InitialTrees,
    MaxRequests,       \* requests beside those that follow a redirect
    MaxChanges         \* what others may change

Order == SetToSeq(Names)     \* the order in which the directory is read

\* The rows of the redirect maps, by what they lead to, and other paths.
AuthPages     == {"/login", "/register", "/reset-password"}
LoggedInPages == {"/login", "/register"}
HtmlPages     == {"/"} \cup AuthPages
SitePages     == HtmlPages \cup {"/logo", "/nothing", "/styles", "/outside"}

Site(p) == [area |-> "site", page |-> p]
\* /prefix/segment, with a slash at the end or none.
Drive(x, s, b) == [area |-> "drive", prefix |-> x, segment |-> s, slash |-> b]
DriveRoot      == Drive(DriveUrl, <<>>, TRUE)
Slashed(p)     == Drive(p.prefix, p.segment, TRUE)

ASSUME HandlingAssumption ==
    /\ Clients # {} /\ None \notin Cookies
    /\ Owner \in [Cookies -> Clients]
    /\ FirstJar \subseteq [Clients -> Cookies \cup {None}]
    /\ IsFiniteSet(Names) /\ Names \subseteq Seq(Alphabet)
    /\ HtmlNames \subseteq Names
    /\ DriveUrl \in Seq(Alphabet) /\ Decode(DriveUrl) = DriveUrl
    /\ DriveRoot \in DrivePaths
    /\ \A p \in DrivePaths :
          /\ p.area = "drive" /\ Slashed(p) \in DrivePaths
          /\ p.segment = <<>> \/ Decode(p.segment) \in Names
    /\ InitialTrees \subseteq [Names -> {"none", "file", "dir"}]
    /\ MaxSections >= 1
    /\ MaxRequests \in Nat /\ MaxChanges \in Nat

Paths == [area : {"site"}, page : SitePages] \cup DrivePaths

\* full_path, under which the cache keeps a page, however the client writes it.
FileOf(p) == IF p.area = "site" THEN p ELSE Drive(DriveUrl, Decode(p.segment), FALSE)
Files     == {FileOf(p) : p \in Paths}

\* Paths such as /../data/files/x lead to the drive, but are not in its URL.
IsDriveUrl(p) == p.area = "drive" /\ Decode(p.prefix) = DriveUrl

Get(c, k, p) ==
    [op |-> "get", client |-> c, cookie |-> k, path |-> p, form |-> "good"]

\* The requests of client c with cookie k.  A form is checked by its fields only;
\* that of an upload is good if it has a boundary.
RequestsOf(c, k) ==
    LET Of(ops, paths, forms) ==
            [op : ops, client : {c}, cookie : {k}, path : paths, form : forms]
        root == {Site("/")}
    IN Of({"get"}, Paths, {"good"})
       \cup Of({"login", "register", "reset"}, root, {"bad", "mismatch", "good"})
       \cup Of({"logout", "other"}, root, {"good"})
       \cup Of({"upload"}, root \cup {p \in Paths : p.area = "drive" /\ p.slash},
               {"bad", "good"})

VARIABLES
    request, phase,
    response,          \* the HttpResponse under construction
    entries, at,       \* generateDirectoryListing: what was read, and the position
    jar,               \* the cookie each browser has
    sessions, issued,  \* the session ids that are valid, and that ever were
    tree,              \* what each name in the drive is
    cache,             \* the raw pages kept by updateCache and still valid
    stood, seen,       \* auxiliary: entries that were there throughout the listing,
                       \* and at some time of it
    requests, changes  \* counters, for the bounds

world == <<sessions, issued, tree, cache>>
handling == <<request, phase, response, entries, at, jar, world, stood, seen,
              requests, changes>>

R(status, body) ==
    [status |-> status, body |-> body, header |-> "none", clear |-> FALSE,
     cookie |-> None, location |-> None]

Redirect(p)  == [R(302, "text") EXCEPT !.location = p]
Alert        == R(200, "alert")
AlertTo(p)   == [Alert EXCEPT !.location = p]
Cleared(r)   == [r EXCEPT !.clear = TRUE]
NoResponse   == R(0, "none")

\* A request without a body of sections, and an upload of one file.
Plain     == [error |-> None, length |-> 0, body |-> <<>>]
OneFile   == [error |-> None, length |-> 1,
              body |-> <<[headed |-> TRUE, disposition |-> "file", type |-> None]>>]
MessageOf(r) == IF r.op = "upload" THEN OneFile ELSE Plain

\* At first a request of any kind, of one of the clients; or an upload with any message,
\* which then is to an empty drive by a client that is logged in, and meets no changes:
\* what is sent and what it is handled in vary one at a time.
HandlingInit ==
    /\ Init
    /\ phase = "parse"
    /\ response = NoResponse
    /\ entries = <<>> /\ at = 0
    /\ jar \in FirstJar
    /\ issued = {jar[c] : c \in Clients} \ {None}
    /\ sessions \in SUBSET issued
    /\ tree \in InitialTrees
    /\ cache = [f \in Files |-> NoResponse]
    /\ stood = {} /\ seen = {}
    /\ LET c == CHOOSE b \in Clients : TRUE IN request \in RequestsOf(c, jar[c])
    /\ \/ message = MessageOf(request) /\ requests = 1 /\ changes = 0
       \/ /\ request.op = "upload" /\ request.path = DriveRoot /\ request.form = "good"
          /\ request.cookie \in sessions /\ sessions = issued
          /\ \A n \in Names : tree[n] = "none"
          /\ requests = MaxRequests /\ changes = MaxChanges
-----------------------------------------------------------------------------
Goto(l) == phase' = l

\* The response is built and sent; the browser keeps its Set-Cookie.
Finish(r) ==
    /\ response' = r
    /\ Goto("done")
    /\ jar' = [jar EXCEPT ![request.client] = IF r.cookie # None THEN r.cookie
                                              ELSE IF r.clear THEN None ELSE @]
    /\ entries' = IF r.body = "listing" THEN entries ELSE <<>>
    /\ at' = 0
    /\ stood' = IF r.body = "listing" THEN stood ELSE {}
    /\ seen' = IF r.body = "listing" THEN seen ELSE {}

\* Handling goes on at l and changes nothing but what it says.
OnlyGoto(l) == Goto(l) /\ UNCHANGED <<response, entries, at, jar, stood, seen>>

\* serveRaw returns r, serve looks whether it is to be rendered.
ToRender(r) == /\ response' = r
               /\ Goto("render")
               /\ UNCHANGED <<entries, at, jar, stood, seen>>

\* In every step of a handler:
Handler(l) == phase = l
Frame == UNCHANGED <<vars, request, requests, changes>>

LoggedIn == request.cookie \in sessions
-----------------------------------------------------------------------------
(* Connection.                                                             *)

\* tryParse, until the request is complete; then a parse error is answered.
ReadRequest ==
    /\ phase = "parse"
    /\ SendUnits \/ TryParse
    /\ IF answer' = None
       THEN OnlyGoto("parse")
       ELSE IF answer'.status = 200
            THEN OnlyGoto("route")
            ELSE Finish(R(answer'.status, "error"))
    /\ UNCHANGED <<request, world, requests, changes>>

\* handleRequest and handlePostRequest.
Route ==
    /\ Handler("route")
    /\ CASE request.op \in {"get", "login", "register", "logout", "upload"} ->
                OnlyGoto("session")
         [] request.op = "reset" -> OnlyGoto("form")
         [] request.op = "other" -> Finish(R(405, "error"))
    /\ Frame /\ UNCHANGED world

\* A mistake to be caught: a client with a cookie is taken for logged in.
CheckGet_AnyCookie ==
    /\ Handler("session") /\ request.op = "get"
    /\ LET p == request.path IN
       CASE p.area = "site" /\ request.cookie # None /\ p.page \in LoggedInPages ->
                Finish(Redirect(DriveRoot))
         [] IsDriveUrl(p) /\ ~LoggedIn -> Finish(Redirect(Site("/login")))
         [] OTHER -> OnlyGoto("serve")
    /\ Frame /\ UNCHANGED world

\* handleGetRequest.
CheckGet ==
    /\ Handler("session") /\ request.op = "get"
    /\ LET p == request.path IN
       CASE p.area = "site" /\ LoggedIn /\ p.page \in LoggedInPages ->
                Finish(Redirect(DriveRoot))
         [] IsDriveUrl(p) /\ ~LoggedIn -> Finish(Redirect(Site("/login")))
         [] OTHER -> OnlyGoto("serve")
    /\ Frame /\ UNCHANGED world

\* The first lines of loginUser, registerUser and logoutUser, and of an upload.
CheckPost ==
    /\ Handler("session") /\ request.op # "get"
    /\ CASE request.op \in {"login", "register"} /\ LoggedIn -> Finish(AlertTo(Site("/")))
         [] request.op \in {"login", "register"} /\ ~LoggedIn -> OnlyGoto("form")
         [] request.op = "logout" /\ LoggedIn -> OnlyGoto("remove")
         [] request.op = "logout" /\ ~LoggedIn -> Finish(Cleared(AlertTo(Site("/login"))))
         [] request.op = "upload" /\ LoggedIn -> OnlyGoto("parts")
         [] request.op = "upload" /\ ~LoggedIn -> Finish(R(401, "error"))
    /\ Frame /\ UNCHANGED world
-----------------------------------------------------------------------------
(* The accounts, as far as the response shows them.                        *)

\* HttpFormData::check, the comparison of the two passwords, and the look-up of
\* the user, which is left open.
CheckForm ==
    /\ Handler("form")
    /\ \/ request.form = "bad" /\ Finish(R(400, "error"))
       \/ /\ request.form = "mismatch" /\ request.op # "login"
          /\ Finish(Alert)
       \/ /\ request.form = "good" \/ (request.form = "mismatch" /\ request.op = "login")
          /\ \/ Finish(Alert)
             \/ OnlyGoto(IF request.op = "reset" THEN "remove" ELSE "create")
    /\ Frame /\ UNCHANGED world

\* createSession, and the redirect to the drive.
CreateSession ==
    /\ Handler("create")
    /\ \E k \in Cookies \ issued :
         /\ sessions' = sessions \cup {k}
         /\ issued' = issued \cup {k}
         /\ Finish([Redirect(DriveRoot) EXCEPT !.cookie = k])
    /\ Frame /\ UNCHANGED <<tree, cache>>

\* A mistake to be caught: only logout ends the session.
RemoveSession_LogoutOnly ==
    /\ Handler("remove")
    /\ IF request.op = "logout"
       THEN sessions' = sessions \ {request.cookie} /\ Finish(Cleared(Redirect(Site("/"))))
       ELSE UNCHANGED sessions /\ Finish(Cleared(AlertTo(Site("/login"))))
    /\ Frame /\ UNCHANGED <<issued, tree, cache>>

\* The ends of logoutUser and, after the save, of changePassword, which has a
\* session to end only if its client is logged in.
RemoveSession ==
    /\ Handler("remove")
    /\ sessions' = sessions \ {request.cookie}
    /\ Finish(Cleared(IF request.op = "logout" THEN Redirect(Site("/"))
                      ELSE AlertTo(Site("/login"))))
    /\ Frame /\ UNCHANGED <<issued, tree, cache>>
-----------------------------------------------------------------------------
(* UploadFile::handle up to its loop over the parts, and a summary of it.  *)

Kind(p) == IF p.segment = <<>> THEN "dir" ELSE tree[Decode(p.segment)]

FilesOf(a) == SelectSeq(a.items, LAMBDA i : i.kind = "file")

SetTree(n, k) ==
    LET now == {<<m, tree'[m]>> : m \in Names}
    IN /\ tree' = [tree EXCEPT ![n] = k]
       /\ cache' = [f \in Files |->
                       IF f.area = "drive" /\ f.segment = n THEN NoResponse ELSE cache[f]]
       /\ IF phase \in {"read", "stat", "template"}
          THEN stood' = stood \cap now /\ seen' = seen \cup now
          ELSE UNCHANGED <<stood, seen>>

\* No boundary, no files, or a directory outside the drive.
CheckParts ==
    /\ Handler("parts")
    /\ CASE request.form = "bad" \/ FilesOf(answer) = <<>> -> Finish(R(400, "error"))
         [] request.form = "good" /\ FilesOf(answer) # <<>> /\ request.path.area = "site" ->
                Finish(R(403, "error"))
         [] OTHER -> OnlyGoto("exists")
    /\ Frame /\ UNCHANGED world

\* checkPath, in its three looks at the file system.
DirExists == /\ Handler("exists")
             /\ OnlyGoto(IF Kind(request.path) = "none" THEN "mkdir" ELSE "isdir")
             /\ Frame /\ UNCHANGED world

\* create_directories: another worker may have been faster, with a directory or
\* with a file, for which it throws.
CreateDirectory ==
    /\ Handler("mkdir")
    /\ LET n == Decode(request.path.segment) IN
       \/ /\ Kind(request.path) = "none"
          /\ SetTree(n, "dir")
          /\ Goto("isdir")
          /\ UNCHANGED <<response, entries, at, jar, sessions, issued>>
       \/ /\ Kind(request.path) = "dir"
          /\ OnlyGoto("isdir") /\ UNCHANGED world
       \/ /\ Kind(request.path) = "file"
          /\ Finish(R(500, "error")) /\ UNCHANGED world
    /\ Frame

IsDirectory == /\ Handler("isdir")
               /\ IF Kind(request.path) = "dir" THEN OnlyGoto("store")
                  ELSE Finish(R(403, "error"))
               /\ Frame /\ UNCHANGED world

\* Every part is stored or reported in the JSON, unless the file system throws for
\* one; of those stored in the root one may have a name we follow.
Store ==
    /\ Handler("store")
    /\ \/ UNCHANGED <<tree, cache>>
       \/ /\ request.path.segment = <<>>
          /\ \E n \in Names :
               /\ tree[n] = "none"
               /\ tree' = [tree EXCEPT ![n] = "file"]
               /\ UNCHANGED cache
    /\ Finish(R(200, "json")) \/ Finish(R(500, "error"))
    /\ Frame /\ UNCHANGED <<sessions, issued>>
-----------------------------------------------------------------------------
(* StaticFile::serveRaw.                                                   *)

\* isPathSafe, and the first is_directory, which only counts in the drive's URL.
ServeRaw ==
    /\ Handler("serve")
    /\ LET p == request.path IN
       CASE p.area = "site" /\ p.page = "/outside" -> ToRender(R(403, "error"))
         [] IsDriveUrl(p) /\ Kind(p) = "dir" /\ ~p.slash -> Finish(Redirect(Slashed(p)))
         [] IsDriveUrl(p) /\ Kind(p) = "dir" /\ p.slash -> OnlyGoto("opendir")
         [] OTHER -> OnlyGoto("again")
    /\ Frame /\ UNCHANGED world

\* The second is_directory.
ServeFile ==
    /\ Handler("again")
    /\ LET p == request.path IN
       IF (p.area = "site" /\ p.page = "/styles") \/ (p.area = "drive" /\ Kind(p) = "dir")
       THEN ToRender(R(404, "error"))
       ELSE OnlyGoto("lookup")
    /\ Frame /\ UNCHANGED world

\* A file is there; behind a slash there never is one.
HasFile(p) == IF p.area = "site" THEN p.page \in HtmlPages \cup {"/logo"}
              ELSE Kind(p) = "file" /\ ~p.slash

IsHtml(p) == IF p.area = "site" THEN p.page \in HtmlPages
             ELSE Decode(p.segment) \in HtmlNames

ReadFromCache ==
    /\ Handler("lookup")
    /\ LET c == cache[FileOf(request.path)] IN
       IF c # NoResponse /\ HasFile(request.path) THEN ToRender(c) ELSE OnlyGoto("open")
    /\ Frame /\ UNCHANGED world

\* The header of a page for this client, when it asks for it with a cookie.
ReaderHeader == IF LoggedIn THEN Owner[request.cookie] ELSE "guest"

\* A mistake to be caught: the page is kept after it was rendered.
ReadFile_RenderFirst ==
    /\ Handler("open")
    /\ LET p == request.path
           r == R(200, IF IsHtml(p) THEN "page" ELSE "file") IN
       IF HasFile(p)
       THEN /\ cache' = [cache EXCEPT ![FileOf(p)] = [r EXCEPT !.header = ReaderHeader]]
            /\ ToRender(r)
       ELSE ToRender(R(404, "error")) /\ UNCHANGED cache
    /\ Frame /\ UNCHANGED <<sessions, issued, tree>>

\* The file is read and the raw page kept.
ReadFile ==
    /\ Handler("open")
    /\ LET p == request.path
           r == R(200, IF IsHtml(p) THEN "page" ELSE "file") IN
       IF HasFile(p)
       THEN cache' = [cache EXCEPT ![FileOf(p)] = r] /\ ToRender(r)
       ELSE ToRender(R(404, "error")) /\ UNCHANGED cache
    /\ Frame /\ UNCHANGED <<sessions, issued, tree>>
-----------------------------------------------------------------------------
(* generateDirectoryListing.                                               *)

InOrder == IF request.path.segment = <<>> THEN Order ELSE <<>>

\* directory_iterator, which throws if the directory has gone.
OpenDirectory ==
    /\ Handler("opendir")
    /\ IF Kind(request.path) = "dir"
       THEN /\ Goto("read")
            /\ at' = 1
            /\ stood' = {<<n, tree[n]>> : n \in Names}
            /\ seen' = stood'
            /\ UNCHANGED <<response, entries, jar>>
       ELSE Finish(R(500, "error"))
    /\ Frame /\ UNCHANGED world

\* The entries of each kind in an order that is that of their names, not that in
\* which they were read.
DirectoriesFirst(es) ==
    LET Of(kind) == SetToSeq({e \in Range(es) : e[2] = kind})
    IN Of("dir") \o Of("file")

\* One entry, if there is one at this place; after the last place they are sorted.
ReadEntry ==
    /\ Handler("read")
    /\ IF at <= Len(InOrder)
       THEN /\ LET n == InOrder[at] IN
               entries' = IF tree[n] = "none" THEN entries
                          ELSE Append(entries, <<n, tree[n]>>)
            /\ at' = at + 1
            /\ UNCHANGED phase
       ELSE /\ entries' = DirectoriesFirst(entries)
            /\ at' = 1
            /\ Goto("stat")
    /\ UNCHANGED <<response, jar, stood, seen>>
    /\ Frame /\ UNCHANGED world

\* A mistake to be caught: an entry that has gone ends the listing, not the request.
StatEntry_StopsEarly ==
    /\ Handler("stat")
    /\ IF at > Len(entries)
       THEN Goto("template") /\ UNCHANGED <<at, entries>>
       ELSE LET e == entries[at] IN
            IF tree[e[1]] = e[2]
            THEN at' = at + 1 /\ UNCHANGED <<phase, entries>>
            ELSE Goto("template") /\ entries' = SubSeq(entries, 1, at - 1) /\ UNCHANGED at
    /\ UNCHANGED <<response, jar, stood, seen>>
    /\ Frame /\ UNCHANGED world

\* last_write_time throws for an entry that has gone, file_size also for a file
\* that has become a directory; nobody catches it before tryParse.
StatEntry ==
    /\ Handler("stat")
    /\ IF at > Len(entries)
       THEN OnlyGoto("template")
       ELSE LET e == entries[at] IN
            IF tree[e[1]] = "none" \/ (e[2] = "file" /\ tree[e[1]] = "dir")
            THEN Finish(R(500, "error"))
            ELSE at' = at + 1 /\ UNCHANGED <<response, phase, entries, jar, stood, seen>>
    /\ Frame /\ UNCHANGED world

\* The template may be missing, or not open for want of descriptors.
ListingTemplate ==
    /\ Handler("template")
    /\ ToRender(R(200, "listing")) \/ ToRender(R(500, "error"))
    /\ Frame /\ UNCHANGED world

\* A mistake to be caught: the slash before the prefix is not counted.
Link_OffByOne(p, e) ==
    Drive(DriveUrl \o SubSeq(p.prefix, Len(DriveUrl), Len(p.prefix)),
          Encode(HtmlEscape(e[1])), e[2] = "dir")

\* What entry e of the listing at path p, the root of the drive, links to: as many
\* characters as DriveUrl has are taken off the path as the client wrote it.
Link(p, e) ==
    Drive(DriveUrl \o SubSeq(p.prefix, Len(DriveUrl) + 1, Len(p.prefix)),
          Encode(HtmlEscape(e[1])), e[2] = "dir")
-----------------------------------------------------------------------------
(* StaticFile::render, for text/html; error pages have no place for a      *)
(* header, and one that is already filled in stays.                        *)
Render ==
    /\ Handler("render")
    /\ LET r == response
           auth == request.path.area = "site" /\ request.path.page \in AuthPages
           With(h) == IF r.body \in {"page", "listing"} /\ r.header = "none"
                      THEN [r EXCEPT !.header = h] ELSE r
       IN CASE r.body = "file" -> Finish(r)
            [] r.body # "file" /\ auth -> Finish(With("auth"))
            [] r.body # "file" /\ ~auth /\ request.cookie = None -> Finish(With("guest"))
            [] r.body # "file" /\ ~auth /\ request.cookie # None /\ ~LoggedIn ->
                   Finish(Cleared(With("guest")))
            [] r.body # "file" /\ ~auth /\ LoggedIn -> Finish(With(ReaderHeader))
    /\ Frame /\ UNCHANGED world
-----------------------------------------------------------------------------
(* The browsers, and the others.                                           *)

Start(r) ==
    /\ request' = r
    /\ message' = MessageOf(r)
    /\ sent' = 0 /\ buffered' = 0 /\ parsed' = FALSE /\ answer' = None
    /\ response' = NoResponse
    /\ phase' = "parse"
    /\ entries' = <<>> /\ stood' = {} /\ seen' = {}
    /\ UNCHANGED <<at, jar, world, changes>>

\* The location of a redirect, or of an alert, is asked for on a new connection.
Follow ==
    /\ phase = "done" /\ response.location # None
    /\ Start(Get(request.client, jar[request.client], response.location))
    /\ UNCHANGED requests

NextRequest ==
    /\ phase = "done" /\ response.location = None
    /\ requests < MaxRequests
    /\ requests' = requests + 1
    /\ \E c \in Clients : \E r \in RequestsOf(c, jar[c]) : Start(r)

Changing == changes < MaxChanges /\ changes' = changes + 1

\* Another worker handles a logout or a change of password.
EndSession(k) ==
    /\ Changing
    /\ k \in sessions
    /\ sessions' = sessions \ {k}
    /\ UNCHANGED <<vars, request, phase, response, entries, at, jar, issued, tree, cache,
                   stood, seen, requests>>

\* Another worker's upload makes a file or a directory, or somebody removes one.
ChangeTree(n, k) ==
    /\ Changing
    /\ tree[n] # k /\ (tree[n] = "none" \/ k = "none")
    /\ SetTree(n, k)
    /\ UNCHANGED <<vars, request, phase, response, entries, at, jar, sessions, issued,
                   requests>>

HandlerStep ==
    \/ ReadRequest \/ Route \/ CheckGet \/ CheckPost \/ CheckForm
    \/ CreateSession \/ RemoveSession
    \/ CheckParts \/ DirExists \/ CreateDirectory \/ IsDirectory \/ Store
    \/ ServeRaw \/ ServeFile \/ ReadFromCache \/ ReadFile
    \/ OpenDirectory \/ ReadEntry \/ StatEntry \/ ListingTemplate \/ Render

HandlingNext ==
    \/ HandlerStep
    \/ Follow
    \/ NextRequest
    \/ \E k \in Cookies : EndSession(k)
    \/ \E n \in Names, k \in {"none", "file", "dir"} : ChangeTree(n, k)

\* The client sends what it has to send and follows redirects; the worker runs.
HandlingSpec ==
    /\ HandlingInit
    /\ [][HandlingNext]_<<vars, handling>>
    /\ WF_<<vars, handling>>(HandlerStep)
    /\ WF_<<vars, handling>>(Follow)
-----------------------------------------------------------------------------
\* A page names nobody but the client that asked for it, and calls a client that
\* sent a cookie a guest only when it takes the cookie away: what the cache keeps
\* for all clients has no reader's name in it (static_file.cpp:113-117,169-190,210).
PageShowsItsReader ==
    phase = "done" /\ response.header \notin {"none", "auth"} =>
        IF request.cookie # None /\ ~response.clear
        THEN response.header = Owner[request.cookie]
        ELSE response.header = "guest"

\* A cookie is only taken away from a browser when its session is over, in every
\* handler that does so: none is left without its client (user_manager.cpp:153-178,
\* static_file.cpp:210-215).
ClearedCookieIsDead ==
    phase = "done" /\ response.clear => request.cookie \notin sessions

\* A listing has every entry that was there all the while, and none that was not
\* there at some time of it; files that come and go make it fail as a whole, not
\* shorten it (static_file.cpp:241-302).
ListingIsSnapshot ==
    phase = "done" /\ response.body = "listing" /\ request.path.segment = <<>> =>
        LET listed == Range(entries) IN
        /\ {e \in stood : e[2] # "none"} \subseteq listed
        /\ listed \subseteq seen

\* The link of entry e of this listing is in the drive's URL, and what the drive
\* makes of it is e.
LeadsBack(e) ==
    LET link == Link(request.path, e) IN
    IsDriveUrl(link) /\ Decode(link.segment) = e[1] /\ link.slash = (e[2] = "dir")

\* In a listing that was asked for by the drive's URL as it is configured, as the
\* redirects and links of the site do, the links of all entries lead back, although
\* they are made of what the client wrote and of encoded names; except for names
\* with a character that htmlEscape replaces, the entity of which is encoded
\* (static_file.cpp:126,153,268-274,289-290, url.h:11-44).
LinksLeadBack ==
    phase = "done" /\ response.body = "listing" /\ request.path.prefix = DriveUrl =>
        \A e \in Range(entries) : Range(e[1]) \cap DOMAIN Entity = {} => LeadsBack(e)

\* A browser that follows the redirects comes to an end, however sessions end in
\* between: the login page and the drive never send it back and forth
\* (connection.cpp:194-214, static_file.cpp:139-148).
RedirectsEnd ==
    (phase = "done" /\ response.location # None)
        ~> (phase = "done" /\ response.location = None)
=============================================================================
