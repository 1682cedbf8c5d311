------------------------------ MODULE DriveFiles ------------------------------
(***************************************************************************)
(* The files of the drive: StaticFile::serveRaw with its cache             *)
(* (src/core/static_file.cpp) and UploadFile (src/utils/upload_file.cpp),  *)
(* run by several workers on one file system that an administrator may     *)
(* change as well.                                                         *)
(*                                                                         *)
(* A file is a sequence of units; reading and writing go unit by unit.     *)
(* Paths are canonical and inside the served directories (the 403 and      *)
(* directory branches of serveRaw and checkPath change nothing here).      *)
(***************************************************************************)
EXTENDS Naturals, FiniteSets, Sequences, SequencesExt

CONSTANTS Paths,
          BadNames,      \* paths whose file name checkFilename refuses
          Data,          \* what uploads and edits write
          Hole,          \* what a write beyond the end leaves before it
          NoFile,        \* the content of a path without a file
          NoEntry, NoJob,
          Units,         \* length of a whole file
          Workers,
          Coarse,        \* modifications may have the same time
          MaxRequests, MaxEdits   \* bounds

ASSUME FilesAssumption ==
    /\ BadNames \cap Paths = {}
    /\ Hole \notin Data
    /\ NoFile \notin Seq(Data \cup {Hole})
    /\ Units \in Nat \ {0}
    /\ Coarse \in BOOLEAN
    /\ MaxRequests \in Nat /\ MaxEdits \in Nat

VARIABLES
    \* the file system
    content, mtime,
    blurred,    \* auxiliary: files modified more than once at their time
    \* StaticFile
    cache,      \* cache_: body and last_modified, by path
    \* the workers
    job,        \* the request each handles: a path to serve or files to upload
    pc,
    body,       \* serveRaw: what has been read
    stamp,      \* updateCache: the time it took
    written,    \* UploadFile::write: units written
    \* auxiliary
    steady,     \* the file a worker reads was not modified since it was opened
    finished,   \* uploads counted as successful
    contested,  \* paths that two uploads checked at once, that were edited, or
                \* for which the disk was full
    requests, edits

fsVars == <<content, mtime, blurred, steady>>
vars == <<fsVars, cache, job, pc, body, stamp, written, finished, contested,
          requests, edits>>

Whole(d) == [i \in 1..Units |-> d]
Part == [path : Paths \cup BadNames, data : Data]
Upload == [op : {"upload"}, files : UNION {[1..n -> Part] : n \in 1..2}]
Get == [op : {"get"}, path : Paths]

Init ==
    /\ \E S \in SUBSET Paths, d \in Data :
         content = [p \in Paths |-> IF p \in S THEN Whole(d) ELSE NoFile]
    /\ mtime = [p \in Paths |-> 0]
    /\ blurred = {}
    /\ cache = [p \in Paths |-> NoEntry]
    /\ job = [w \in Workers |-> NoJob]
    /\ pc = [w \in Workers |-> "idle"]
    /\ body = [w \in Workers |-> <<>>]
    /\ stamp = [w \in Workers |-> 0]
    /\ written = [w \in Workers |-> 0]
    /\ steady = [w \in Workers |-> FALSE]
    /\ finished = {}
    /\ contested = {}
    /\ requests = 0
    /\ edits = 0

Exists(p) == content[p] # NoFile
Goto(w, l) == pc' = [pc EXCEPT ![w] = l]

\* The part of its request a worker is busy with.
Current(w) == Head(job[w].files)

\* The file of p becomes s.  The kernel's clock may not have ticked since the last
\* modification.  Only times of one file are compared, so each file counts its own.
Modify(p, s) ==
    /\ content' = [content EXCEPT ![p] = s]
    /\ \/ /\ mtime' = [mtime EXCEPT ![p] = @ + 1]
          /\ blurred' = blurred \ {p}
       \/ /\ Coarse
          /\ blurred' = blurred \cup {p}
          /\ UNCHANGED mtime
    /\ steady' = [w \in Workers |->
                     steady[w] /\ ~(pc[w] \in {"read", "stamp"} /\ job[w].path = p)]

Return(w) == /\ Goto(w, "idle")
             /\ job' = [job EXCEPT ![w] = NoJob]

\* What was read goes out of scope.
DropBody(w) == /\ body' = [body EXCEPT ![w] = <<>>]
               /\ steady' = [steady EXCEPT ![w] = FALSE]
-----------------------------------------------------------------------------
\* A request starts on a worker.  One that serveRaw refuses or redirects, or that
\* lists a directory, changes nothing and is left out.
Receive(w, r) ==
    /\ pc[w] = "idle" /\ requests < MaxRequests
    /\ job' = [job EXCEPT ![w] = r]
    /\ Goto(w, IF r.op = "get" THEN "lookup" ELSE "check")
    /\ requests' = requests + 1
    /\ UNCHANGED <<fsVars, cache, body, stamp, written, finished, contested, edits>>

\* A mistake to be caught: the modification time is not compared.
Fresh_AnyTime(p) == cache[p] # NoEntry /\ Exists(p)

\* There is an entry, and its time is the file's.
Fresh(p) == /\ cache[p] # NoEntry
            /\ Exists(p)
            /\ cache[p].last_modified = mtime[p]

\* readFromCache, under cache_mutex_: a missing file erases its entry, and an
\* entry of another modification time is left to be replaced.
ReadFromCache(w) ==
    /\ pc[w] = "lookup"
    /\ LET p == job[w].path IN
       \/ /\ Fresh(p)
          /\ Return(w)
          /\ UNCHANGED cache
       \/ /\ cache[p] # NoEntry /\ ~Exists(p)
          /\ cache' = [cache EXCEPT ![p] = NoEntry]
          /\ Goto(w, "open")
          /\ UNCHANGED job
       \/ /\ ~Fresh(p) /\ (cache[p] # NoEntry => Exists(p))
          /\ Goto(w, "open")
          /\ UNCHANGED <<cache, job>>
    /\ UNCHANGED <<fsVars, body, stamp, written, finished, contested, requests, edits>>

\* std::ifstream: 404 if there is no file.
OpenFile(w) ==
    /\ pc[w] = "open"
    /\ IF Exists(job[w].path)
       THEN /\ Goto(w, "read")
            /\ body' = [body EXCEPT ![w] = <<>>]
            /\ steady' = [steady EXCEPT ![w] = TRUE]
            /\ UNCHANGED job
       ELSE Return(w) /\ UNCHANGED <<body, steady>>
    /\ UNCHANGED <<content, mtime, blurred, cache, stamp, written, finished,
                   contested, requests, edits>>

\* oss << file.rdbuf(), up to the end of the file as it is found then.
ReadUnit(w) ==
    /\ pc[w] = "read"
    /\ LET s == content[job[w].path]
           n == Len(body[w]) + 1
       IN IF n <= Len(s)
          THEN body' = [body EXCEPT ![w] = Append(@, s[n])] /\ UNCHANGED pc
          ELSE Goto(w, "stamp") /\ UNCHANGED body
    /\ UNCHANGED <<fsVars, cache, job, stamp, written, finished, contested,
                   requests, edits>>

\* updateCache takes the modification time now, after the content was read; if
\* the file is gone, nothing is cached.
StampEntry(w) ==
    /\ pc[w] = "stamp"
    /\ IF Exists(job[w].path)
       THEN /\ stamp' = [stamp EXCEPT ![w] = mtime[job[w].path]]
            /\ Goto(w, "insert")
            /\ UNCHANGED <<job, body, steady>>
       ELSE Return(w) /\ DropBody(w) /\ UNCHANGED stamp
    /\ UNCHANGED <<content, mtime, blurred, cache, written, finished, contested, requests,
                   edits>>

\* Under cache_mutex_.  clean (auxiliary): the body is of the time it carries.
InsertEntry(w) ==
    /\ pc[w] = "insert"
    /\ cache' = [cache EXCEPT ![job[w].path] =
                    [body |-> body[w], last_modified |-> stamp[w],
                     clean |-> steady[w]]]
    /\ stamp' = [stamp EXCEPT ![w] = 0]
    /\ Return(w) /\ DropBody(w)
    /\ UNCHANGED <<content, mtime, blurred, written, finished, contested, requests,
                   edits>>
-----------------------------------------------------------------------------
(* UploadFile::handle, part by part.                                       *)

\* The next part, or the response after the last one.
NextPart(w) ==
    IF Len(job[w].files) = 1
    THEN Return(w)
    ELSE /\ job' = [job EXCEPT ![w].files = Tail(@)]
         /\ Goto(w, "check")

\* Another worker has passed its check for p and not finished.
BeingUploaded(p, w) ==
    \E v \in Workers \ {w} : pc[v] \in {"create", "write"} /\ Current(v).path = p

\* A mistake to be caught: the part is not refused when the file exists.
CheckPart_Overwrites(w) ==
    /\ pc[w] = "check"
    /\ LET p == Current(w).path IN
       IF p \in BadNames
       THEN NextPart(w) /\ UNCHANGED contested
       ELSE /\ Goto(w, "create")
            /\ contested' = IF BeingUploaded(p, w) THEN contested \cup {p} ELSE contested
            /\ UNCHANGED job
    /\ UNCHANGED <<fsVars, cache, body, stamp, written, finished, requests, edits>>

\* checkFilePath and checkFilename.  The file system may throw in the first, for a
\* name that is too long before checkFilename sees it: the request ends with 500.
CheckPart(w) ==
    /\ pc[w] = "check"
    /\ LET p == Current(w).path IN
       \/ IF p \in BadNames \/ Exists(p)
          THEN NextPart(w) /\ UNCHANGED contested
          ELSE /\ Goto(w, "create")
               /\ contested' = IF BeingUploaded(p, w) THEN contested \cup {p} ELSE contested
               /\ UNCHANGED job
       \/ Return(w) /\ UNCHANGED contested
    /\ UNCHANGED <<fsVars, cache, body, stamp, written, finished, requests, edits>>

\* std::ofstream creates the file or empties it; if it cannot, the part fails.
CreateFile(w) ==
    /\ pc[w] = "create"
    /\ \/ /\ Modify(Current(w).path, <<>>)
          /\ Goto(w, "write")
          /\ UNCHANGED job
       \/ NextPart(w) /\ UNCHANGED fsVars
    /\ UNCHANGED <<cache, body, stamp, written, finished, contested, requests, edits>>

\* Writing d as the n-th unit of s.
PutUnit(s, n, d) ==
    [i \in 1..Max({Len(s), n}) |-> IF i = n THEN d ELSE IF i <= Len(s) THEN s[i] ELSE Hole]

\* A mistake to be caught: one unit too many is written.
WriteUnit_TooFar(w) ==
    /\ pc[w] = "write"
    /\ LET p == Current(w).path
           n == written[w] + 1
       IN /\ written' = [written EXCEPT ![w] = n]
          /\ Modify(p, PutUnit(content[p], n, Current(w).data))
          /\ IF n > Units
             THEN /\ finished' = finished \cup {Current(w)}
                  /\ NextPart(w)
             ELSE UNCHANGED <<finished, job, pc>>
    /\ UNCHANGED <<cache, body, stamp, contested, requests, edits>>

\* ofs.write, and ofs.close after the last unit.  Streams do not throw here, and
\* their state is not looked at: a write that fails goes unnoticed.
WriteUnit(w) ==
    /\ pc[w] = "write"
    /\ LET p == Current(w).path
           n == written[w] + 1
       IN /\ written' = [written EXCEPT ![w] = IF n = Units THEN 0 ELSE n]
          /\ \/ /\ Modify(p, PutUnit(content[p], n, Current(w).data))
                /\ UNCHANGED contested
             \/ /\ contested' = contested \cup {p}
                /\ UNCHANGED fsVars
          /\ IF n = Units
             THEN /\ finished' = finished \cup {Current(w)}
                  /\ NextPart(w)
             ELSE UNCHANGED <<finished, job, pc>>
    /\ UNCHANGED <<cache, body, stamp, requests, edits>>
-----------------------------------------------------------------------------
(* The administrator edits a file in place, or removes one that no worker  *)
(* has open (an open file outlives its name; that is not modelled).        *)

Edit(p, d) ==
    /\ edits < MaxEdits /\ edits' = edits + 1
    /\ Modify(p, Whole(d))
    /\ contested' = contested \cup {p}
    /\ UNCHANGED <<cache, job, pc, body, stamp, written, finished, requests>>

DeleteFile(p) ==
    /\ edits < MaxEdits /\ edits' = edits + 1
    /\ Exists(p)
    /\ \A w \in Workers : pc[w] = "read" => job[w].path # p
    /\ \A w \in Workers : pc[w] = "write" => Current(w).path # p
    /\ Modify(p, NoFile)
    /\ contested' = contested \cup {p}
    /\ UNCHANGED <<cache, job, pc, body, stamp, written, finished, requests>>
-----------------------------------------------------------------------------
WorkerStep(w) ==
    \/ \E r \in Get \cup Upload : Receive(w, r)
    \/ ReadFromCache(w) \/ OpenFile(w) \/ ReadUnit(w) \/ StampEntry(w) \/ InsertEntry(w)
    \/ CheckPart(w) \/ CreateFile(w) \/ WriteUnit(w)

Next == \/ \E w \in Workers : WorkerStep(w)
        \/ \E p \in Paths, d \in Data : Edit(p, d)
        \/ \E p \in Paths : DeleteFile(p)

Spec == Init /\ [][Next]_vars
-----------------------------------------------------------------------------
Content == Seq(Data \cup {Hole})
Entry == [body : Content, last_modified : Nat, clean : BOOLEAN]

TypeOK ==
    /\ content \in [Paths -> Content \cup {NoFile}]
    /\ mtime \in [Paths -> Nat]
    /\ blurred \subseteq Paths
    /\ cache \in [Paths -> Entry \cup {NoEntry}]
    /\ job \in [Workers -> Get \cup Upload \cup {NoJob}]
    /\ pc \in [Workers -> {"idle", "lookup", "open", "read", "stamp", "insert",
                           "check", "create", "write"}]
    /\ body \in [Workers -> Content]
    /\ stamp \in [Workers -> Nat]
    /\ written \in [Workers -> 0..Units]
    /\ steady \in [Workers -> BOOLEAN]
    /\ finished \subseteq Part
    /\ contested \subseteq Paths
    /\ requests \in 0..MaxRequests
    /\ edits \in 0..MaxEdits

\* What is served from the cache is the file as it is, if the file was not
\* modified while the entry was made nor twice within the tick of its time, whatever
\* happened to it, to the entry and to other entries of the path since
\* (static_file.cpp:371-393).
CleanHitIsCurrent ==
    [][\A w \in Workers :
          (/\ pc[w] = "lookup" /\ pc'[w] = "idle"
           /\ cache[job[w].path].clean /\ job[w].path \notin blurred)
             => cache[job[w].path].body = content[job[w].path]]_vars

\* An upload that was reported as successful is on disk, whole, unless two
\* uploads passed the existence check together, somebody edited the file or the
\* disk was full (upload_file.cpp:113,157,167,173).
UncontestedUploadIsIntact ==
    \A f \in finished : f.path \notin contested => content[f.path] = Whole(f.data)

\* A cache entry is the content of the file with the time of its last
\* modification (static_file.h:14-15): when no request is being handled, what a hit
\* would serve is the file.
EntryIsOfItsTime ==
    (\A w \in Workers : pc[w] = "idle")
        => \A p \in Paths : Fresh(p) => cache[p].body = content[p]
=============================================================================
