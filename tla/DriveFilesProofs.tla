----------------------------- MODULE DriveFilesProofs -----------------------------
(***************************************************************************)
(* What is proved of the files of the drive, for any number of paths,      *)
(* workers, requests and edits, and files of any length.                   *)
(*                                                                         *)
(* BaseInv says what a worker at each place of its request works on.  On   *)
(* it rest two arguments that do not meet:                                 *)
(*   UploadInv  a path nobody else touches has one upload at most, what it *)
(*              has written so far is on disk, and what it finished stays; *)
(*   CacheInv   what a worker has read of an unmodified file is a prefix   *)
(*              of it, and the time it stamps its entry with is then the   *)
(*              time of what it read.                                      *)
(***************************************************************************)
EXTENDS DriveFiles, SequenceTheorems, TLAPS

GetPc == {"lookup", "open", "read", "stamp", "insert"}
UploadPc == {"check", "create", "write"}

FsTypes == /\ content \in [Paths -> Content \cup {NoFile}]
           /\ mtime \in [Paths -> Nat]
           /\ blurred \subseteq Paths

JobTypes == /\ job \in [Workers -> Get \cup Upload \cup {NoJob}]
            /\ pc \in [Workers -> {"idle"} \cup GetPc \cup UploadPc]
            /\ body \in [Workers -> Content]
            /\ stamp \in [Workers -> Nat]
            /\ written \in [Workers -> Nat]

AuxTypes == /\ finished \subseteq Part
            /\ \A f \in finished : f.path \in Paths
            /\ contested \subseteq Paths
            /\ requests \in 0..MaxRequests
            /\ edits \in 0..MaxEdits

\* What w works on, by where it is.
WorkOK(w) ==
    /\ pc[w] \in GetPc => job[w] \in Get
    /\ pc[w] \in UploadPc => job[w] \in Upload
    /\ pc[w] \in {"create", "write"} => Current(w).path \in Paths
    /\ pc[w] = "read" => content[job[w].path] \in Content
    /\ pc[w] = "write" => content[Current(w).path] \in Content
    /\ written[w] < Units
    /\ pc[w] # "write" => written[w] = 0

BaseInv == /\ FsTypes /\ JobTypes /\ AuxTypes
           /\ steady \in [Workers -> BOOLEAN]
           /\ cache \in [Paths -> Entry \cup {NoEntry}]
           /\ \A w \in Workers : WorkOK(w)
-----------------------------------------------------------------------------
(* Operators.                                                              *)

LEMMA MaxOfTwo ==
    ASSUME NEW a \in Nat, NEW b \in Nat
    PROVE  Max({a, b}) = IF a >= b THEN a ELSE b
  <1> DEFINE m == IF a >= b THEN a ELSE b
  <1>1. m \in {a, b} /\ \A y \in {a, b} : m >= y
    OBVIOUS
  <1>2. \A x \in {a, b} : (\A y \in {a, b} : x >= y) => x = m
    OBVIOUS
  <1> QED BY <1>1, <1>2 DEF Max

LEMMA PutUnitType ==
    ASSUME NEW s \in Content, NEW n \in Nat \ {0}, NEW d \in Data
    PROVE  PutUnit(s, n, d) \in Content
  <1>1. Len(s) \in Nat /\ s \in [1..Len(s) -> Data \cup {Hole}]
    BY DEF Content
  <1>2. PICK k \in Nat : k = Max({Len(s), n})
    BY <1>1, MaxOfTwo
  <1>3. PutUnit(s, n, d) \in [1..k -> Data \cup {Hole}]
    BY <1>1, <1>2 DEF PutUnit
  <1> QED BY <1>3, SeqDef DEF Content

\* Writing the next unit of d after k of them.
LEMMA PutUnitAppends ==
    ASSUME NEW k \in Nat, NEW d \in Data
    PROVE  PutUnit([i \in 1..k |-> d], k + 1, d) = [i \in 1..k + 1 |-> d]
  <1> DEFINE s == [i \in 1..k |-> d]
  <1>1. Len(s) = k
    OBVIOUS
  <1>2. Max({Len(s), k + 1}) = k + 1
    BY <1>1, MaxOfTwo
  <1>3. \A i \in 1..k + 1 :
           (IF i = k + 1 THEN d ELSE IF i <= Len(s) THEN s[i] ELSE Hole) = d
    BY <1>1
  <1> QED BY <1>2, <1>3 DEF PutUnit

LEMMA WholeType == \A d \in Data : Whole(d) \in Content
  BY FilesAssumption DEF Whole, Content

LEMMA UploadParts ==
    ASSUME NEW j \in Upload
    PROVE  /\ Head(j.files) \in Part
           /\ Len(j.files) # 1 => [j EXCEPT !.files = Tail(@)] \in Upload
  <1>1. PICK n \in 1..2 : j.files \in [1..n -> Part]
    BY DEF Upload
  <1>2. j.files \in Seq(Part) /\ Len(j.files) = n
    BY <1>1
  <1>3. Head(j.files) \in Part
    BY <1>1, <1>2
  <1>4. ASSUME Len(j.files) # 1 PROVE Tail(j.files) \in [1..1 -> Part]
    <2>1. n = 2
      BY <1>2, <1>4
    <2>2. Tail(j.files) \in Seq(Part) /\ Len(Tail(j.files)) = 1
      BY <1>2, <2>1
    <2> QED BY <2>2, LenProperties
  <1>5. ASSUME Len(j.files) # 1 PROVE [j EXCEPT !.files = Tail(@)] \in Upload
    <2> DEFINE F == UNION {[1..m -> Part] : m \in 1..2}
    <2>1. Tail(j.files) \in F
      BY <1>4, <1>5
    <2>2. j \in [op : {"upload"}, files : F]
      BY DEF Upload
    <2> HIDE DEF F
    <2>3. [j EXCEPT !.files = Tail(@)] \in [op : {"upload"}, files : F]
      BY <2>1, <2>2
    <2> QED BY <2>3 DEF Upload, F
  <1> QED BY <1>3, <1>5

\* The part a worker is busy with.
LEMMA CurrentPart ==
    ASSUME NEW w \in Workers, job[w] \in Upload
    PROVE  Current(w) \in Part /\ Current(w).data \in Data
  BY UploadParts DEF Current, Part

LEMMA ModifyTypes ==
    ASSUME FsTypes, steady \in [Workers -> BOOLEAN], NEW p \in Paths,
           NEW s \in Content \cup {NoFile}, Modify(p, s)
    PROVE  FsTypes' /\ steady' \in [Workers -> BOOLEAN]
  <1>1. FsTypes'
    BY DEF Modify, FsTypes
  <1>2. steady' \in [Workers -> BOOLEAN]
    BY DEF Modify
  <1> QED BY <1>1, <1>2

\* Going on to the next part, or back to idle.
LEMMA NextPartWork ==
    ASSUME JobTypes, NEW w \in Workers, job[w] \in Upload, NextPart(w) \/ Return(w)
    PROVE  /\ job' \in [Workers -> Get \cup Upload \cup {NoJob}]
           /\ \/ pc' = [pc EXCEPT ![w] = "idle"]
              \/ pc' = [pc EXCEPT ![w] = "check"] /\ job'[w] \in Upload
           /\ \A v \in Workers \ {w} : job'[v] = job[v]
  <1>1. CASE Return(w)
    BY <1>1 DEF Return, Goto, JobTypes
  <1>2. CASE ~Return(w)
    <2> NextPart(w) /\ Len(job[w].files) # 1
      BY <1>2 DEF NextPart
    <2>1. PICK j \in Upload : j = [job[w] EXCEPT !.files = Tail(@)]
      BY <1>2, UploadParts
    <2>2. job' = [job EXCEPT ![w] = j] /\ pc' = [pc EXCEPT ![w] = "check"]
      BY <1>2, <2>1 DEF NextPart, Goto
    <2> QED BY <2>2 DEF JobTypes
  <1> QED BY <1>1, <1>2
-----------------------------------------------------------------------------
(* The base.                                                               *)

LEMMA BaseInit == Init => BaseInv
  <1> SUFFICES ASSUME Init PROVE BaseInv
    OBVIOUS
  <1>1. FsTypes
    <2>1. PICK S \in SUBSET Paths, d \in Data :
             content = [p \in Paths |-> IF p \in S THEN Whole(d) ELSE NoFile]
      BY DEF Init
    <2>2. Whole(d) \in Content
      BY WholeType
    <2> QED BY <2>1, <2>2 DEF Init, FsTypes
  <1>2. JobTypes
    BY DEF Init, JobTypes, Content
  <1>3. AuxTypes
    BY FilesAssumption DEF Init, AuxTypes
  <1>4. steady \in [Workers -> BOOLEAN]
    BY DEF Init
  <1>5. cache \in [Paths -> Entry \cup {NoEntry}]
    BY DEF Init
  <1>6. \A w \in Workers : WorkOK(w)
    BY FilesAssumption DEF Init, WorkOK, GetPc, UploadPc
  <1> QED BY <1>1, <1>2, <1>3, <1>4, <1>5, <1>6 DEF BaseInv

\* What w works on is still there.
LEMMA WorkKept ==
    ASSUME NEW w \in Workers, WorkOK(w),
           job'[w] = job[w], pc'[w] = pc[w], written'[w] = written[w],
           \A q \in Paths : content[q] \in Content =>
               \/ content'[q] \in Content
               \/ ~(pc[w] = "read" /\ job[w].path = q) /\ ~(pc[w] = "write" /\ Current(w).path = q)
    PROVE  WorkOK(w)'
  <1>1. Current(w)' = Current(w)
    BY DEF Current
  <1>2. pc[w] = "read" => job[w].path \in Paths
    BY DEF WorkOK, GetPc, Get
  <1> QED BY <1>1, <1>2 DEF WorkOK, GetPc, UploadPc

\* A worker takes a step, and the file system stays as it is.
LEMMA WorkSteps ==
    ASSUME BaseInv, NEW w \in Workers, UNCHANGED content, WorkOK(w)',
           \A v \in Workers \ {w} : job'[v] = job[v] /\ pc'[v] = pc[v] /\ written'[v] = written[v]
    PROVE  \A v \in Workers : WorkOK(v)'
  <1> SUFFICES ASSUME NEW v \in Workers \ {w} PROVE WorkOK(v)'
    OBVIOUS
  <1> QED BY WorkKept DEF BaseInv

LEMMA BaseReceive ==
    ASSUME BaseInv, NEW w \in Workers, NEW r \in Get \cup Upload, Receive(w, r)
    PROVE  BaseInv'
  <1>1. /\ job' = [job EXCEPT ![w] = r]
        /\ pc' = [pc EXCEPT ![w] = IF r.op = "get" THEN "lookup" ELSE "check"]
        /\ requests' = requests + 1 /\ requests < MaxRequests /\ pc[w] = "idle"
        /\ UNCHANGED <<content, mtime, blurred, steady, cache, body, stamp, written, finished,
                       contested, edits>>
    BY DEF Receive, Goto, fsVars
  <1>2. JobTypes'
    BY <1>1 DEF BaseInv, JobTypes, GetPc, UploadPc
  <1>3. AuxTypes'
    BY <1>1, FilesAssumption DEF BaseInv, AuxTypes
  <1>4. WorkOK(w)'
    <2>1. job'[w] = r /\ pc'[w] = IF r.op = "get" THEN "lookup" ELSE "check"
      BY <1>1 DEF BaseInv, JobTypes
    <2>2. IF r.op = "get" THEN r \in Get ELSE r \in Upload
      BY DEF Get, Upload
    <2>3. written[w] = 0
      BY <1>1 DEF BaseInv, WorkOK
    <2> QED BY <1>1, <2>1, <2>2, <2>3, FilesAssumption DEF WorkOK, GetPc, UploadPc
  <1>5. \A v \in Workers : WorkOK(v)'
    BY <1>1, <1>4, WorkSteps DEF BaseInv, JobTypes
  <1>6. FsTypes'
    BY <1>1 DEF BaseInv, FsTypes
  <1> QED BY <1>1, <1>2, <1>3, <1>5, <1>6 DEF BaseInv

\* The entry a worker makes.
LEMMA NewEntry ==
    ASSUME BaseInv, NEW w \in Workers, NEW b, b = steady[w]
    PROVE  [body |-> body[w], last_modified |-> stamp[w], clean |-> b] \in Entry
  <1>1. b \in BOOLEAN
    BY DEF BaseInv
  <1>2. body[w] \in Content /\ stamp[w] \in Nat
    BY DEF BaseInv, JobTypes
  <1> QED BY <1>1, <1>2 DEF Entry

LEMMA BaseServe ==
    ASSUME BaseInv, NEW w \in Workers,
           ReadFromCache(w) \/ OpenFile(w) \/ ReadUnit(w) \/ StampEntry(w) \/ InsertEntry(w)
    PROVE  BaseInv'
  <1>1. /\ pc[w] \in GetPc /\ job[w] \in Get /\ job[w].path \in Paths /\ written[w] = 0
        /\ UNCHANGED <<content, mtime, blurred, written, finished, contested, requests, edits>>
    <2>1. pc[w] \in GetPc
          /\ UNCHANGED <<content, mtime, blurred, written, finished, contested, requests, edits>>
      BY DEF ReadFromCache, OpenFile, ReadUnit, StampEntry, InsertEntry, GetPc, fsVars
    <2> QED BY <2>1 DEF BaseInv, WorkOK, GetPc, Get
  <1>2. /\ FsTypes' /\ AuxTypes'
    BY <1>1 DEF BaseInv, FsTypes, AuxTypes
  <1>3. steady' \in [Workers -> BOOLEAN]
    <2>1. \/ steady' = steady
          \/ steady' = [steady EXCEPT ![w] = TRUE]
          \/ steady' = [steady EXCEPT ![w] = FALSE]
      BY DEF ReadFromCache, OpenFile, ReadUnit, StampEntry, InsertEntry, DropBody, fsVars
    <2> QED BY <2>1 DEF BaseInv
  <1>4. cache' \in [Paths -> Entry \cup {NoEntry}]
    <2>1. CASE InsertEntry(w)
      <3>1. PICK e \in Entry : cache' = [cache EXCEPT ![job[w].path] = e]
        BY <2>1, NewEntry DEF InsertEntry
      <3> QED BY <1>1, <3>1 DEF BaseInv
    <2>2. CASE ~InsertEntry(w)
      <3>1. cache' = cache \/ cache' = [cache EXCEPT ![job[w].path] = NoEntry]
        BY <2>2 DEF ReadFromCache, OpenFile, ReadUnit, StampEntry
      <3> QED BY <1>1, <3>1 DEF BaseInv
    <2> QED BY <2>1, <2>2
  <1>5. /\ body' \in [Workers -> Content]
        /\ stamp' \in [Workers -> Nat]
    <2>1. CASE ReadUnit(w)
      <3>1. content[job[w].path] \in Content /\ body[w] \in Content
        BY <2>1 DEF ReadUnit, BaseInv, WorkOK, JobTypes
      <3>2. CASE body' = body
        BY <2>1, <3>2 DEF ReadUnit, BaseInv, JobTypes
      <3>3. CASE body' # body
        <4>1. /\ Len(body[w]) + 1 <= Len(content[job[w].path])
              /\ body' = [body EXCEPT ![w] = Append(@, content[job[w].path][Len(body[w]) + 1])]
          BY <2>1, <3>3 DEF ReadUnit
        <4>2. content[job[w].path][Len(body[w]) + 1] \in Data \cup {Hole}
          BY <3>1, <4>1 DEF Content
        <4>3. Append(body[w], content[job[w].path][Len(body[w]) + 1]) \in Content
          BY <3>1, <4>2 DEF Content
        <4> QED BY <2>1, <4>1, <4>3 DEF ReadUnit, BaseInv, JobTypes
      <3> QED BY <3>2, <3>3
    <2>2. CASE ~ReadUnit(w)
      <3>1. <<>> \in Content
        BY DEF Content
      <3>2. body' = body \/ body' = [body EXCEPT ![w] = <<>>]
        BY <2>2 DEF ReadFromCache, OpenFile, StampEntry, InsertEntry, DropBody
      <3>3. \/ stamp' = stamp
            \/ stamp' = [stamp EXCEPT ![w] = 0]
            \/ stamp' = [stamp EXCEPT ![w] = mtime[job[w].path]]
        BY <2>2 DEF ReadFromCache, OpenFile, StampEntry, InsertEntry
      <3> QED BY <1>1, <3>1, <3>2, <3>3 DEF BaseInv, JobTypes, FsTypes
    <2> QED BY <2>1, <2>2
  <1>6. /\ \/ job' = job
              /\ \E l \in GetPc : /\ pc' = [pc EXCEPT ![w] = l]
                                  /\ l = "read" => Exists(job[w].path)
           \/ job' = job /\ pc' = pc
           \/ job' = [job EXCEPT ![w] = NoJob] /\ pc' = [pc EXCEPT ![w] = "idle"]
    BY DEF ReadFromCache, OpenFile, ReadUnit, StampEntry, InsertEntry, Return, Goto, GetPc
  <1>7. JobTypes'
    BY <1>1, <1>5, <1>6 DEF BaseInv, JobTypes
  <1>8. WorkOK(w)'
    <2>1. WorkOK(w) /\ (Exists(job[w].path) => content[job[w].path] \in Content)
      BY <1>1 DEF BaseInv, FsTypes, Exists
    <2>2. CASE job' = job /\ pc' = pc
      BY <1>1, <2>1, <2>2 DEF WorkOK, Current
    <2>3. CASE job' = [job EXCEPT ![w] = NoJob] /\ pc' = [pc EXCEPT ![w] = "idle"]
      BY <1>1, <2>3, FilesAssumption DEF WorkOK, GetPc, UploadPc, BaseInv, JobTypes
    <2>4. ASSUME job' = job, NEW l \in GetPc, pc' = [pc EXCEPT ![w] = l],
                 l = "read" => Exists(job[w].path)
          PROVE  WorkOK(w)'
      <3>1. pc'[w] = l
        BY <2>4 DEF BaseInv, JobTypes
      <3> QED BY <1>1, <2>1, <2>4, <3>1, FilesAssumption DEF WorkOK, GetPc, UploadPc
    <2> QED BY <1>6, <2>2, <2>3, <2>4
  <1>9. \A v \in Workers : WorkOK(v)'
    <2>1. \A v \in Workers \ {w} : job'[v] = job[v] /\ pc'[v] = pc[v] /\ written'[v] = written[v]
      BY <1>1, <1>6 DEF BaseInv, JobTypes
    <2> QED BY <1>1, <1>8, <2>1, WorkSteps
  <1> QED BY <1>2, <1>3, <1>4, <1>7, <1>9 DEF BaseInv

\* Where a worker is after a part, or when it gives up the others as well.
LEMMA NextPartOK ==
    ASSUME BaseInv, NEW w \in Workers, pc[w] \in UploadPc, NextPart(w) \/ Return(w),
           written'[w] = 0
    PROVE  WorkOK(w)'
  <1>1. job[w] \in Upload
    BY DEF BaseInv, WorkOK
  <1>2. pc'[w] = "idle" \/ (pc'[w] = "check" /\ job'[w] \in Upload)
    BY <1>1, NextPartWork DEF BaseInv, JobTypes
  <1> QED BY <1>2, FilesAssumption DEF WorkOK, GetPc, UploadPc

LEMMA BaseCheck ==
    ASSUME BaseInv, NEW w \in Workers, CheckPart(w)
    PROVE  BaseInv'
  <1>1. /\ pc[w] = "check" /\ written[w] = 0 /\ job[w] \in Upload
        /\ UNCHANGED <<content, mtime, blurred, steady, cache, body, stamp, written, finished,
                       requests, edits>>
    BY DEF CheckPart, fsVars, BaseInv, WorkOK, UploadPc
  <1>2. Current(w).path \in Paths \cup BadNames
    BY <1>1, CurrentPart DEF Part
  <1>3. CASE (NextPart(w) \/ Return(w)) /\ UNCHANGED contested
    <2>1. WorkOK(w)'
      BY <1>1, <1>3, NextPartOK DEF UploadPc
    <2>2. JobTypes' /\ \A v \in Workers \ {w} : job'[v] = job[v] /\ pc'[v] = pc[v]
      BY <1>1, <1>3, NextPartWork DEF BaseInv, JobTypes, UploadPc
    <2>3. \A v \in Workers : WorkOK(v)'
      BY <1>1, <2>1, <2>2, WorkSteps
    <2> QED BY <1>1, <1>3, <2>2, <2>3 DEF BaseInv, FsTypes, AuxTypes
  <1>4. ASSUME Current(w).path \notin BadNames, pc' = [pc EXCEPT ![w] = "create"], UNCHANGED job,
               contested' = contested \/ contested' = contested \cup {Current(w).path}
        PROVE  BaseInv'
    <2>1. JobTypes' /\ AuxTypes' /\ FsTypes'
      BY <1>1, <1>2, <1>4 DEF BaseInv, JobTypes, UploadPc, AuxTypes, FsTypes
    <2>2. WorkOK(w)'
      <3>1. pc'[w] = "create" /\ job'[w] = job[w]
        BY <1>4 DEF BaseInv, JobTypes
      <3>2. Current(w)' = Current(w)
        BY <3>1 DEF Current
      <3> QED BY <1>1, <1>2, <1>4, <3>1, <3>2, FilesAssumption DEF WorkOK, GetPc, UploadPc
    <2>3. \A v \in Workers : WorkOK(v)'
      BY <1>1, <1>4, <2>2, WorkSteps DEF BaseInv, JobTypes
    <2> QED BY <1>1, <2>1, <2>3 DEF BaseInv
  <1> QED BY <1>3, <1>4 DEF CheckPart, Goto

\* Everybody else's file stays a file.
LEMMA OthersKept ==
    ASSUME BaseInv, NEW w \in Workers, NEW p \in Paths, NEW s \in Content, Modify(p, s),
           \A v \in Workers \ {w} : job'[v] = job[v] /\ pc'[v] = pc[v] /\ written'[v] = written[v]
    PROVE  \A v \in Workers \ {w} : WorkOK(v)'
  <1>1. \A q \in Paths : content[q] \in Content => content'[q] \in Content
    BY DEF Modify, BaseInv, FsTypes
  <1> QED BY <1>1, WorkKept DEF BaseInv

LEMMA BaseCreate ==
    ASSUME BaseInv, NEW w \in Workers, CreateFile(w)
    PROVE  BaseInv'
  <1>1. /\ pc[w] = "create" /\ written[w] = 0 /\ job[w] \in Upload /\ Current(w).path \in Paths
        /\ UNCHANGED <<cache, body, stamp, written, finished, contested, requests, edits>>
    BY DEF CreateFile, BaseInv, WorkOK, UploadPc
  <1>2. CASE Modify(Current(w).path, <<>>) /\ Goto(w, "write") /\ UNCHANGED job
    <2>1. <<>> \in Content
      BY DEF Content
    <2>2. FsTypes' /\ steady' \in [Workers -> BOOLEAN]
      BY <1>1, <1>2, <2>1, ModifyTypes DEF BaseInv
    <2>3. JobTypes' /\ AuxTypes' /\ pc'[w] = "write"
          /\ \A v \in Workers \ {w} : job'[v] = job[v] /\ pc'[v] = pc[v] /\ written'[v] = written[v]
      BY <1>1, <1>2 DEF Goto, BaseInv, JobTypes, UploadPc, AuxTypes
    <2>4. WorkOK(w)'
      <3>1. Current(w)' = Current(w) /\ job'[w] = job[w]
        BY <1>2 DEF Current
      <3>2. content'[Current(w).path] = <<>>
        BY <1>1, <1>2 DEF Modify, BaseInv, FsTypes
      <3> QED BY <1>1, <2>1, <2>3, <3>1, <3>2, FilesAssumption DEF WorkOK, GetPc, UploadPc
    <2>5. \A v \in Workers : WorkOK(v)'
      BY <1>1, <1>2, <2>1, <2>3, <2>4, OthersKept
    <2> QED BY <1>1, <2>2, <2>3, <2>5 DEF BaseInv
  <1>3. CASE NextPart(w) /\ UNCHANGED fsVars
    <2>1. WorkOK(w)'
      BY <1>1, <1>3, NextPartOK DEF UploadPc
    <2>2. JobTypes' /\ \A v \in Workers \ {w} : job'[v] = job[v] /\ pc'[v] = pc[v]
      BY <1>1, <1>3, NextPartWork DEF BaseInv, JobTypes, UploadPc
    <2>3. \A v \in Workers : WorkOK(v)'
      BY <1>1, <1>3, <2>1, <2>2, WorkSteps DEF fsVars
    <2> QED BY <1>1, <1>3, <2>2, <2>3 DEF BaseInv, FsTypes, AuxTypes, fsVars
  <1> QED BY <1>2, <1>3 DEF CreateFile

LEMMA BaseWrite ==
    ASSUME BaseInv, NEW w \in Workers, WriteUnit(w)
    PROVE  BaseInv'
  <1> DEFINE p == Current(w).path
             n == written[w] + 1
  <1>1. /\ pc[w] = "write" /\ job[w] \in Upload /\ p \in Paths /\ content[p] \in Content
        /\ n \in Nat \ {0} /\ n <= Units
        /\ UNCHANGED <<cache, body, stamp, requests, edits>>
    BY FilesAssumption DEF WriteUnit, BaseInv, WorkOK, UploadPc, JobTypes
  <1>2. Current(w) \in Part /\ Current(w).data \in Data
    BY <1>1, CurrentPart
  <1>3. /\ written' \in [Workers -> Nat] /\ written'[w] < Units
        /\ \A v \in Workers \ {w} : written'[v] = written[v]
        /\ n = Units => written'[w] = 0
    <2>1. written' = [written EXCEPT ![w] = IF n = Units THEN 0 ELSE n]
      BY DEF WriteUnit
    <2> QED BY <1>1, <2>1, FilesAssumption DEF BaseInv, JobTypes
  <1>4. /\ JobTypes' /\ finished' \subseteq Part /\ \A f \in finished' : f.path \in Paths
        /\ \A v \in Workers \ {w} : job'[v] = job[v] /\ pc'[v] = pc[v]
    <2>1. CASE n = Units
      <3>1. NextPart(w) /\ finished' = finished \cup {Current(w)}
        BY <2>1 DEF WriteUnit
      <3> QED BY <1>1, <1>2, <1>3, <3>1, NextPartWork DEF BaseInv, JobTypes, UploadPc, AuxTypes
    <2>2. CASE n # Units
      <3>1. UNCHANGED <<finished, job, pc>>
        BY <2>2 DEF WriteUnit
      <3> QED BY <1>1, <1>3, <3>1 DEF BaseInv, JobTypes, AuxTypes
    <2> QED BY <2>1, <2>2
  <1>5. /\ FsTypes' /\ AuxTypes' /\ steady' \in [Workers -> BOOLEAN]
        /\ content'[p] \in Content
        /\ \A v \in Workers \ {w} : WorkOK(v)'
    <2>1. CASE Modify(p, PutUnit(content[p], n, Current(w).data)) /\ UNCHANGED contested
      <3>1. PICK s \in Content : s = PutUnit(content[p], n, Current(w).data)
        BY <1>1, <1>2, PutUnitType
      <3>2. FsTypes' /\ steady' \in [Workers -> BOOLEAN]
        BY <1>1, <2>1, <3>1, ModifyTypes DEF BaseInv
      <3>3. content'[p] = s
        BY <1>1, <2>1, <3>1 DEF Modify, BaseInv, FsTypes
      <3>4. \A v \in Workers \ {w} : WorkOK(v)'
        BY <1>1, <1>3, <1>4, <2>1, <3>1, OthersKept
      <3> QED BY <1>1, <1>4, <2>1, <3>2, <3>3, <3>4 DEF BaseInv, AuxTypes
    <2>2. CASE contested' = contested \cup {p} /\ UNCHANGED fsVars
      <3>1. \A v \in Workers \ {w} : WorkOK(v)'
        BY <1>3, <1>4, <2>2, WorkKept DEF BaseInv, fsVars
      <3> QED BY <1>1, <1>4, <2>2, <3>1 DEF BaseInv, FsTypes, AuxTypes, fsVars
    <2> QED BY <2>1, <2>2 DEF WriteUnit
  <1>6. WorkOK(w)'
    <2>1. CASE n = Units
      <3>1. NextPart(w)
        BY <2>1 DEF WriteUnit
      <3> QED BY <1>1, <1>3, <2>1, <3>1, NextPartOK DEF UploadPc
    <2>2. CASE n # Units
      <3>1. UNCHANGED <<job, pc>>
        BY <2>2 DEF WriteUnit
      <3>2. Current(w)' = Current(w)
        BY <3>1 DEF Current
      <3> QED BY <1>1, <1>3, <1>5, <3>1, <3>2 DEF WorkOK, GetPc, UploadPc
    <2> QED BY <2>1, <2>2
  <1> QED BY <1>1, <1>4, <1>5, <1>6 DEF BaseInv

LEMMA BaseAdmin ==
    ASSUME BaseInv, NEW p \in Paths,
           DeleteFile(p) \/ \E d \in Data : Edit(p, d)
    PROVE  BaseInv'
  <1>1. /\ UNCHANGED <<cache, job, pc, body, stamp, written, finished, requests>>
        /\ edits < MaxEdits /\ edits' = edits + 1 /\ contested' = contested \cup {p}
    BY DEF DeleteFile, Edit
  <1>2. JobTypes' /\ AuxTypes'
    BY <1>1, FilesAssumption DEF BaseInv, JobTypes, AuxTypes
  <1>3. PICK s \in Content \cup {NoFile} :
           /\ Modify(p, s)
           /\ s = NoFile => /\ \A w \in Workers : pc[w] = "read" => job[w].path # p
                            /\ \A w \in Workers : pc[w] = "write" => Current(w).path # p
    <2>1. CASE DeleteFile(p)
      BY <2>1 DEF DeleteFile
    <2>2. ASSUME NEW d \in Data, Edit(p, d)
          PROVE  Whole(d) \in Content /\ Modify(p, Whole(d)) /\ Whole(d) # NoFile
      BY <2>2, WholeType, FilesAssumption DEF Edit, Content
    <2> QED BY <2>1, <2>2
  <1>4. FsTypes' /\ steady' \in [Workers -> BOOLEAN]
    BY <1>3, ModifyTypes DEF BaseInv
  <1>5. ASSUME NEW v \in Workers PROVE WorkOK(v)'
    <2>1. content' = [content EXCEPT ![p] = s]
      BY <1>3 DEF Modify
    <2> QED BY <1>1, <1>3, <2>1, WorkKept DEF BaseInv, FsTypes
  <1> QED BY <1>1, <1>2, <1>4, <1>5 DEF BaseInv

LEMMA BaseStep == BaseInv /\ [Next]_vars => BaseInv'
  <1> SUFFICES ASSUME BaseInv, [Next]_vars PROVE BaseInv'
    OBVIOUS
  <1>1. CASE UNCHANGED vars
    <2>1. UNCHANGED <<content, mtime, blurred, steady, cache, job, pc, body, stamp, written,
                      finished, contested, requests, edits>>
      BY <1>1 DEF vars, fsVars
    <2>2. \A w \in Workers : WorkOK(w)'
      BY <2>1, WorkKept DEF BaseInv
    <2> QED BY <2>1, <2>2 DEF BaseInv, FsTypes, JobTypes, AuxTypes
  <1> QED BY <1>1, BaseReceive, BaseServe, BaseCheck, BaseCreate, BaseWrite, BaseAdmin
          DEF Next, WorkerStep

\* Whatever uploads, reads and edits do together, a file is a sequence of units or
\* there is none, a cache entry is a body with a time, and a worker writes no
\* further than its part is long (static_file.cpp:293-393, upload_file.cpp:96-176).
THEOREM FilesTypes == Spec => []TypeOK
  <1>1. BaseInv => TypeOK
    <2> SUFFICES ASSUME BaseInv PROVE TypeOK
      OBVIOUS
    <2>1. written \in [Workers -> 0..Units]
      BY FilesAssumption DEF BaseInv, JobTypes, WorkOK
    <2>2. steady \in [Workers -> BOOLEAN] /\ cache \in [Paths -> Entry \cup {NoEntry}]
      BY DEF BaseInv
    <2> QED BY <2>1, <2>2 DEF BaseInv, FsTypes, JobTypes, AuxTypes, TypeOK, GetPc, UploadPc
  <1> QED BY <1>1, BaseInit, BaseStep, PTL DEF Spec
-----------------------------------------------------------------------------
(* Uploads.                                                                *)

Uploading(w, p) == pc[w] \in {"create", "write"} /\ Current(w).path = p
Writes(w, p)    == pc[w] = "write" /\ Current(w).path = p

\* On a path that nobody contests there is one upload at most, with what it wrote,
\* and none after one was finished.
UploadOK(p) ==
    p \notin contested =>
        /\ \A v, w \in Workers : Uploading(v, p) /\ Uploading(w, p) => v = w
        /\ \A w \in Workers : Writes(w, p)
               => content[p] = [i \in 1..written[w] |-> Current(w).data]
        /\ \A f \in finished : f.path = p
               => content[p] = Whole(f.data) /\ \A w \in Workers : ~Uploading(w, p)

UploadInv == \A p \in Paths : UploadOK(p)

LEMMA UploadInit == Init => UploadInv
  BY DEF Init, UploadInv, UploadOK, Uploading, Writes

\* Uploads of p may end, but nothing else happens to p.
LEMMA UploadKept ==
    ASSUME NEW p, UploadOK(p), p \in contested => p \in contested', content'[p] = content[p],
           \A w \in Workers : Uploading(w, p)' => Uploading(w, p),
           \A w \in Workers : Writes(w, p)' => /\ Writes(w, p) /\ written'[w] = written[w]
                                               /\ Current(w)' = Current(w),
           \A f \in finished' : f.path = p => f \in finished
    PROVE  UploadOK(p)'
  BY DEF UploadOK

\* A worker that does not upload afterwards.
LEMMA UploadLeaves ==
    ASSUME UploadInv, NEW w \in Workers, pc'[w] \notin {"create", "write"},
           \A v \in Workers \ {w} : job'[v] = job[v] /\ pc'[v] = pc[v] /\ written'[v] = written[v],
           UNCHANGED <<content, contested, finished>>
    PROVE  UploadInv'
  <1> SUFFICES ASSUME NEW p \in Paths PROVE UploadOK(p)'
    BY DEF UploadInv
  <1>1. \A v \in Workers \ {w} : Current(v)' = Current(v)
    BY DEF Current
  <1> QED BY <1>1, UploadKept DEF UploadInv, Uploading, Writes

\* After a part nothing is uploaded yet.
LEMMA UploadNextPart ==
    ASSUME BaseInv, UploadInv, NEW w \in Workers, pc[w] \in UploadPc, NextPart(w) \/ Return(w),
           \A v \in Workers \ {w} : written'[v] = written[v],
           UNCHANGED <<content, contested, finished>>
    PROVE  UploadInv'
  <1>1. job[w] \in Upload
    BY DEF BaseInv, WorkOK
  <1>2. /\ pc'[w] \notin {"create", "write"}
        /\ \A v \in Workers \ {w} : job'[v] = job[v] /\ pc'[v] = pc[v]
    BY <1>1, NextPartWork DEF BaseInv, JobTypes
  <1> QED BY <1>2, UploadLeaves

LEMMA UploadCheck ==
    ASSUME BaseInv, UploadInv, NEW w \in Workers, CheckPart(w)
    PROVE  UploadInv'
  <1>1. pc[w] = "check" /\ UNCHANGED <<content, finished, written>>
    BY DEF CheckPart, fsVars
  <1>2. CASE (NextPart(w) \/ Return(w)) /\ UNCHANGED contested
    BY <1>1, <1>2, UploadNextPart DEF UploadPc
  <1>3. CASE ~((NextPart(w) \/ Return(w)) /\ UNCHANGED contested)
    <2>1. PICK p \in Paths : p = Current(w).path
      <3>1. job[w] \in Upload
        BY <1>1 DEF BaseInv, WorkOK, UploadPc
      <3> QED BY <1>3, <3>1, CurrentPart DEF CheckPart, Part
    <2>2. /\ content[p] = NoFile
          /\ pc' = [pc EXCEPT ![w] = "create"] /\ job' = job
          /\ contested' = IF BeingUploaded(p, w) THEN contested \cup {p} ELSE contested
      BY <1>3, <2>1 DEF CheckPart, Exists, Goto
    <2>3. \A v \in Workers : Current(v)' = Current(v)
      BY <2>2 DEF Current
    <2>4. ASSUME NEW q \in Paths, q # p PROVE UploadOK(q)'
      <3>1. \A v \in Workers : /\ Uploading(v, q)' => Uploading(v, q)
                               /\ Writes(v, q)' => Writes(v, q)
        BY <2>1, <2>2, <2>3, <2>4 DEF Uploading, Writes, BaseInv, JobTypes
      <3> QED BY <1>1, <2>2, <2>3, <3>1, UploadKept DEF UploadInv
    <2>5. ASSUME p \notin contested' PROVE UploadOK(p)'
      <3>1. p \notin contested /\ ~BeingUploaded(p, w)
        BY <2>2, <2>5
      <3>2. \A v \in Workers : Uploading(v, p) => v = w
        BY <3>1 DEF BeingUploaded, Uploading
      \* There is no file, so no upload was finished.
      <3>3. ASSUME NEW f \in finished, f.path = p PROVE FALSE
        <4>1. content[p] = Whole(f.data) /\ f.data \in Data
          BY <3>1, <3>3 DEF UploadInv, UploadOK, BaseInv, AuxTypes, Part
        <4> QED BY <2>2, <4>1, WholeType, FilesAssumption DEF Content
      <3>4. \A v \in Workers : (Uploading(v, p)' => v = w) /\ ~Writes(v, p)'
        BY <1>1, <2>1, <2>2, <2>3, <3>2 DEF Uploading, Writes, BaseInv, JobTypes
      <3> QED BY <1>1, <3>3, <3>4 DEF UploadOK
    <2>6. p \in contested' => UploadOK(p)'
      BY DEF UploadOK
    <2> QED BY <2>4, <2>5, <2>6 DEF UploadInv
  <1> QED BY <1>2, <1>3

LEMMA UploadCreate ==
    ASSUME BaseInv, UploadInv, NEW w \in Workers, CreateFile(w)
    PROVE  UploadInv'
  <1>1. /\ pc[w] = "create" /\ written[w] = 0
        /\ UNCHANGED <<finished, contested, written>>
    BY DEF CreateFile, BaseInv, WorkOK
  <1>2. CASE NextPart(w) /\ UNCHANGED fsVars
    BY <1>1, <1>2, UploadNextPart DEF UploadPc, fsVars
  <1>3. CASE Modify(Current(w).path, <<>>) /\ Goto(w, "write") /\ UNCHANGED job
    <2>1. PICK p \in Paths : p = Current(w).path
      BY <1>1 DEF BaseInv, WorkOK
    <2>2. content' = [content EXCEPT ![p] = <<>>] /\ pc' = [pc EXCEPT ![w] = "write"]
          /\ Uploading(w, p)
      BY <1>1, <1>3, <2>1 DEF Modify, Goto, Uploading
    <2>3. \A v \in Workers : Current(v)' = Current(v)
      BY <1>3 DEF Current
    <2>4. ASSUME NEW q \in Paths, q # p PROVE UploadOK(q)'
      <3>1. \A v \in Workers : /\ Uploading(v, q)' => Uploading(v, q)
                               /\ Writes(v, q)' => Writes(v, q)
        BY <2>1, <2>2, <2>3, <2>4 DEF Uploading, Writes, BaseInv, JobTypes
      <3>2. content'[q] = content[q]
        BY <2>2, <2>4 DEF BaseInv, FsTypes
      <3> QED BY <1>1, <2>3, <3>1, <3>2, UploadKept DEF UploadInv
    <2>5. UploadOK(p)'
      <3> SUFFICES ASSUME p \notin contested PROVE UploadOK(p)'
        BY <1>1 DEF UploadOK
      <3>1. /\ \A v \in Workers : Uploading(v, p) => v = w
            /\ \A f \in finished : f.path # p
        BY <2>2 DEF UploadInv, UploadOK
      <3>2. \A v \in Workers : Uploading(v, p)' \/ Writes(v, p)' => v = w
        BY <2>2, <2>3, <3>1 DEF Uploading, Writes, BaseInv, JobTypes
      <3>3. content'[p] = [i \in 1..written'[w] |-> Current(w)'.data]
        BY <1>1, <2>2 DEF BaseInv, FsTypes
      <3> QED BY <1>1, <3>1, <3>2, <3>3 DEF UploadOK
    <2> QED BY <2>4, <2>5 DEF UploadInv
  <1> QED BY <1>2, <1>3 DEF CreateFile

\* The only upload of p writes its next unit, and finishes with the last.
LEMMA UploadWrite ==
    ASSUME BaseInv, UploadInv, NEW w \in Workers, WriteUnit(w)
    PROVE  UploadInv'
  <1> DEFINE n == written[w] + 1
  <1>1. /\ pc[w] = "write" /\ job[w] \in Upload /\ Current(w).data \in Data
        /\ Current(w).path \in Paths
        /\ written[w] \in Nat /\ written' = [written EXCEPT ![w] = IF n = Units THEN 0 ELSE n]
    BY CurrentPart DEF WriteUnit, BaseInv, WorkOK, UploadPc, JobTypes
  <1>2. PICK p \in Paths, d \in Data : p = Current(w).path /\ d = Current(w).data
    BY <1>1
  <1>3. \/ content' = [content EXCEPT ![p] = PutUnit(content[p], n, d)] /\ contested' = contested
        \/ contested' = contested \cup {p} /\ content' = content
    BY <1>2 DEF WriteUnit, Modify, fsVars
  <1>4. \/ n = Units /\ finished' = finished \cup {Current(w)} /\ NextPart(w)
        \/ n # Units /\ UNCHANGED <<finished, job, pc>>
    BY DEF WriteUnit
  <1>5. /\ \A v \in Workers \ {w} : job'[v] = job[v] /\ pc'[v] = pc[v] /\ written'[v] = written[v]
        /\ n = Units => pc'[w] \notin {"create", "write"}
    <2>1. \A v \in Workers \ {w} : written'[v] = written[v]
      BY <1>1 DEF BaseInv, JobTypes
    <2>2. CASE n = Units
      BY <1>1, <1>4, <2>1, <2>2, NextPartWork DEF BaseInv, JobTypes
    <2>3. CASE n # Units
      BY <1>4, <2>1, <2>3
    <2> QED BY <2>2, <2>3
  <1>6. \A v \in Workers \ {w} : Current(v)' = Current(v)
    BY <1>5 DEF Current
  <1>7. n # Units => Current(w)' = Current(w) /\ pc'[w] = "write"
    BY <1>1, <1>4 DEF Current
  <1>8. ASSUME NEW q \in Paths, q # p PROVE UploadOK(q)'
    <2>1. \A v \in Workers : /\ Uploading(v, q)' => Uploading(v, q) /\ v # w
                             /\ Writes(v, q)' => Writes(v, q) /\ v # w
      BY <1>2, <1>5, <1>6, <1>7, <1>8 DEF Uploading, Writes
    <2>2. content'[q] = content[q]
      BY <1>3, <1>8 DEF BaseInv, FsTypes
    <2>3. \A f \in finished' : f.path = q => f \in finished
      BY <1>2, <1>4, <1>8
    <2> QED BY <1>3, <1>5, <1>6, <2>1, <2>2, <2>3, UploadKept DEF UploadInv
  <1>9. ASSUME p \notin contested' PROVE UploadOK(p)'
    <2>1. /\ p \notin contested /\ content' = [content EXCEPT ![p] = PutUnit(content[p], n, d)]
      BY <1>3, <1>9
    <2>2. /\ content[p] = [i \in 1..written[w] |-> d]
          /\ \A v \in Workers : Uploading(v, p) => v = w
          /\ \A f \in finished : f.path # p
      BY <1>1, <1>2, <2>1 DEF UploadInv, UploadOK, Uploading, Writes
    <2>3. content'[p] = [i \in 1..n |-> d]
      <3>1. PutUnit(content[p], n, d) = [i \in 1..n |-> d]
        BY <1>1, <2>2, PutUnitAppends
      <3> QED BY <2>1, <3>1 DEF BaseInv, FsTypes
    <2>4. \A v \in Workers : Uploading(v, p)' => v = w
      BY <1>5, <1>6, <2>2 DEF Uploading
    <2>5. CASE n = Units
      <3>1. content'[p] = Whole(d)
        BY <2>3, <2>5 DEF Whole
      <3>2. \A v \in Workers : ~Uploading(v, p)' /\ ~Writes(v, p)'
        BY <1>5, <2>4, <2>5 DEF Uploading, Writes
      <3>3. \A f \in finished' : f.path = p => f.data = d
        BY <1>2, <1>4, <2>2, <2>5
      <3> QED BY <3>1, <3>2, <3>3 DEF UploadOK
    <2>6. CASE n # Units
      <3>1. finished' = finished /\ written'[w] = n /\ Current(w)'.data = d
        BY <1>1, <1>2, <1>4, <1>7, <2>6 DEF BaseInv, JobTypes
      <3>2. \A v \in Workers : Writes(v, p)' => v = w
        BY <2>4 DEF Writes, Uploading
      <3> QED BY <2>2, <2>3, <2>4, <3>1, <3>2 DEF UploadOK
    <2> QED BY <2>5, <2>6
  <1>10. p \in contested' => UploadOK(p)'
    BY DEF UploadOK
  <1> QED BY <1>8, <1>9, <1>10 DEF UploadInv

LEMMA UploadAdmin ==
    ASSUME BaseInv, UploadInv, NEW p \in Paths,
           DeleteFile(p) \/ \E d \in Data : Edit(p, d)
    PROVE  UploadInv'
  <1>1. /\ contested' = contested \cup {p} /\ UNCHANGED <<job, pc, written, finished>>
        /\ \E s : content' = [content EXCEPT ![p] = s]
    BY DEF DeleteFile, Edit, Modify
  <1>2. \A v \in Workers : Current(v)' = Current(v)
    BY <1>1 DEF Current
  <1>3. ASSUME NEW q \in Paths, q # p PROVE UploadOK(q)'
    <2>1. content'[q] = content[q]
      BY <1>1, <1>3 DEF BaseInv, FsTypes
    <2> QED BY <1>1, <1>2, <2>1, UploadKept DEF UploadInv, Uploading, Writes
  <1>4. UploadOK(p)'
    BY <1>1 DEF UploadOK
  <1> QED BY <1>3, <1>4 DEF UploadInv

LEMMA UploadStep == BaseInv /\ UploadInv /\ [Next]_vars => UploadInv'
  <1> SUFFICES ASSUME BaseInv, UploadInv, [Next]_vars PROVE UploadInv'
    OBVIOUS
  <1>1. ASSUME NEW w \in Workers, NEW r \in Get \cup Upload, Receive(w, r) PROVE UploadInv'
    <2>1. /\ pc' = [pc EXCEPT ![w] = IF r.op = "get" THEN "lookup" ELSE "check"]
          /\ job' = [job EXCEPT ![w] = r]
          /\ UNCHANGED <<content, contested, finished, written>>
      BY <1>1 DEF Receive, Goto, fsVars
    <2>2. /\ pc'[w] \notin {"create", "write"}
          /\ \A v \in Workers \ {w} : job'[v] = job[v] /\ pc'[v] = pc[v]
      BY <2>1 DEF BaseInv, JobTypes
    <2> QED BY <2>1, <2>2, UploadLeaves
  <1>2. ASSUME NEW w \in Workers,
               ReadFromCache(w) \/ OpenFile(w) \/ ReadUnit(w) \/ StampEntry(w) \/ InsertEntry(w)
        PROVE  UploadInv'
    <2>1. /\ UNCHANGED <<content, contested, finished, written>>
          /\ pc[w] \in GetPc
          /\ \/ pc' = pc
             \/ \E l \in GetPc \cup {"idle"} : pc' = [pc EXCEPT ![w] = l]
          /\ job' = job \/ job' = [job EXCEPT ![w] = NoJob]
      BY <1>2 DEF ReadFromCache, OpenFile, ReadUnit, StampEntry, InsertEntry, Return, Goto,
                  GetPc, fsVars
    <2>2. /\ pc'[w] \notin {"create", "write"}
          /\ \A v \in Workers \ {w} : job'[v] = job[v] /\ pc'[v] = pc[v]
      BY <2>1 DEF BaseInv, JobTypes, GetPc
    <2> QED BY <2>1, <2>2, UploadLeaves
  <1>3. CASE UNCHANGED vars
    <2>1. UNCHANGED <<content, contested, finished, written, job, pc>>
      BY <1>3 DEF vars, fsVars
    <2> QED BY <2>1 DEF UploadInv, UploadOK, Uploading, Writes, Current
  <1> QED BY <1>1, <1>2, <1>3, UploadCheck, UploadCreate, UploadWrite, UploadAdmin
          DEF Next, WorkerStep

\* However many uploads run at once, what one of them reported as successful is on
\* disk, whole and its own, as long as no two of them passed the existence check of
\* one path together, nobody edited the file and the disk was not full
\* (upload_file.cpp:113,157,167,173).
THEOREM UploadsAreIntact == Spec => []UncontestedUploadIsIntact
  <1>1. BaseInv /\ UploadInv => UncontestedUploadIsIntact
    <2> SUFFICES ASSUME BaseInv, UploadInv, NEW f \in finished, f.path \notin contested
                 PROVE  content[f.path] = Whole(f.data)
      BY DEF UncontestedUploadIsIntact
    <2>1. f.path \in Paths
      BY DEF BaseInv, AuxTypes
    <2> QED BY <2>1 DEF UploadInv, UploadOK
  <1>2. Init => BaseInv /\ UploadInv
    BY BaseInit, UploadInit
  <1>3. (BaseInv /\ UploadInv) /\ [Next]_vars => (BaseInv /\ UploadInv)'
    BY BaseStep, UploadStep
  <1> QED BY <1>1, <1>2, <1>3, PTL DEF Spec
-----------------------------------------------------------------------------
(* The cache.                                                              *)

\* What w has read of a file that was not modified since it opened it, and how the
\* time it takes for its entry relates to it.
ReaderOK(w) ==
    LET p == job[w].path IN
    /\ pc[w] = "read" /\ steady[w] =>
           /\ Len(body[w]) <= Len(content[p])
           /\ \A i \in 1..Len(body[w]) : body[w][i] = content[p][i]
    /\ pc[w] = "stamp" /\ steady[w] => body[w] = content[p]
    /\ pc[w] = "insert" =>
           /\ stamp[w] <= mtime[p]
           /\ steady[w] /\ stamp[w] = mtime[p] /\ p \notin blurred => body[w] = content[p]

\* A clean entry of the file's time is the file.
EntryOK(p) ==
    cache[p] # NoEntry =>
        /\ cache[p].last_modified <= mtime[p]
        /\ cache[p].clean /\ cache[p].last_modified = mtime[p] /\ p \notin blurred
               => cache[p].body = content[p]

CacheInv == /\ \A w \in Workers : ReaderOK(w)
            /\ \A p \in Paths : EntryOK(p)

LEMMA CacheInit == Init => CacheInv
  BY DEF Init, CacheInv, ReaderOK, EntryOK

\* Whoever is still at its file has not moved.
Stays(w) == pc'[w] \in {"read", "stamp", "insert"} =>
                pc'[w] = pc[w] /\ job'[w] = job[w]

\* A modification is seen in the time, or the tick has more than one.
LEMMA CacheModify ==
    ASSUME BaseInv, CacheInv, NEW p \in Paths, NEW s, Modify(p, s),
           UNCHANGED <<cache, body, stamp>>,
           \A w \in Workers : Stays(w)
    PROVE  CacheInv'
  <1>1. /\ content' = [content EXCEPT ![p] = s]
        /\ \/ mtime' = [mtime EXCEPT ![p] = @ + 1] /\ blurred' = blurred \ {p}
           \/ mtime' = mtime /\ blurred' = blurred \cup {p}
    BY DEF Modify
  <1>2. /\ mtime[p] \in Nat
        /\ mtime'[p] = mtime[p] + 1 \/ (mtime'[p] = mtime[p] /\ p \in blurred')
    <2>1. CASE mtime' = [mtime EXCEPT ![p] = @ + 1]
      BY <2>1 DEF BaseInv, FsTypes
    <2>2. CASE mtime' = mtime /\ blurred' = blurred \cup {p}
      BY <2>2 DEF BaseInv, FsTypes
    <2> QED BY <1>1, <2>1, <2>2
  <1>3. ASSUME NEW q \in Paths, q # p
        PROVE  content'[q] = content[q] /\ mtime'[q] = mtime[q] /\ (q \in blurred' <=> q \in blurred)
    BY <1>1, <1>3 DEF BaseInv, FsTypes
  <1>4. \A w \in Workers : steady'[w] =>
           steady[w] /\ ~(pc[w] \in {"read", "stamp"} /\ job[w].path = p)
    BY DEF Modify
  <1>5. ASSUME NEW w \in Workers PROVE ReaderOK(w)'
    <2> SUFFICES ASSUME pc'[w] \in {"read", "stamp", "insert"} PROVE ReaderOK(w)'
      BY DEF ReaderOK
    <2>1. pc'[w] = pc[w] /\ job'[w] = job[w] /\ job[w].path \in Paths /\ stamp[w] \in Nat
      BY DEF Stays, BaseInv, WorkOK, GetPc, Get, JobTypes
    <2>2. ReaderOK(w)
      BY DEF CacheInv
    <2>3. CASE job[w].path # p
      BY <1>3, <1>4, <2>1, <2>2, <2>3 DEF ReaderOK
    <2>4. CASE job[w].path = p
      <3>1. pc[w] \in {"read", "stamp"} => ~steady'[w]
        BY <1>4, <2>4
      <3>2. pc[w] = "insert" =>
               stamp[w] <= mtime'[p] /\ ~(stamp[w] = mtime'[p] /\ p \notin blurred')
        BY <1>2, <2>1, <2>2, <2>4 DEF ReaderOK
      <3> QED BY <2>1, <2>4, <3>1, <3>2 DEF ReaderOK
    <2> QED BY <2>3, <2>4
  <1>6. ASSUME NEW q \in Paths PROVE EntryOK(q)'
    <2>1. EntryOK(q)
      BY DEF CacheInv
    <2>2. CASE q # p
      BY <1>3, <2>1, <2>2 DEF EntryOK
    <2>3. CASE q = p
      <3>1. ASSUME cache[p] # NoEntry
            PROVE  /\ cache[p].last_modified <= mtime'[p]
                   /\ ~(cache[p].last_modified = mtime'[p] /\ p \notin blurred')
        <4>1. cache[p].last_modified \in Nat /\ cache[p].last_modified <= mtime[p]
          BY <2>1, <2>3, <3>1 DEF EntryOK, BaseInv, Entry
        <4> QED BY <1>2, <4>1
      <3> QED BY <2>3, <3>1 DEF EntryOK
    <2> QED BY <2>2, <2>3
  <1> QED BY <1>5, <1>6 DEF CacheInv

\* Nothing happens to the file system; entries may go.
LEMMA CacheFrame ==
    ASSUME CacheInv, UNCHANGED <<content, mtime, blurred>>,
           \A p \in Paths : cache'[p] = cache[p] \/ cache'[p] = NoEntry,
           \A w \in Workers : /\ Stays(w)
                              /\ pc'[w] \in {"read", "stamp", "insert"} =>
                                    /\ body'[w] = body[w] /\ stamp'[w] = stamp[w]
                                    /\ steady'[w] => steady[w]
    PROVE  CacheInv'
  <1>1. ASSUME NEW w \in Workers PROVE ReaderOK(w)'
    BY DEF CacheInv, ReaderOK, Stays
  <1>2. ASSUME NEW p \in Paths PROVE EntryOK(p)'
    BY DEF CacheInv, EntryOK
  <1> QED BY <1>1, <1>2 DEF CacheInv

\* The worker w takes a step that leaves the file system alone.
LEMMA OthersRead ==
    ASSUME CacheInv, UNCHANGED <<content, mtime, blurred>>, NEW w \in Workers,
           NEW v \in Workers \ {w}, pc'[v] = pc[v], job'[v] = job[v], body'[v] = body[v],
           stamp'[v] = stamp[v], steady'[v] => steady[v]
    PROVE  ReaderOK(v)'
  BY DEF CacheInv, ReaderOK

LEMMA CacheLookup ==
    ASSUME BaseInv, CacheInv, NEW w \in Workers, ReadFromCache(w)
    PROVE  CacheInv'
  <1>1. /\ UNCHANGED <<content, mtime, blurred, steady, body, stamp>>
        /\ \E l \in {"idle", "open"} : pc' = [pc EXCEPT ![w] = l]
        /\ job' = job \/ job' = [job EXCEPT ![w] = NoJob]
        /\ cache' = cache \/ cache' = [cache EXCEPT ![job[w].path] = NoEntry]
    BY DEF ReadFromCache, Return, Goto, fsVars
  <1>2. ASSUME NEW v \in Workers PROVE Stays(v)
    BY <1>1 DEF Stays, BaseInv, JobTypes
  <1>3. \A p \in Paths : cache'[p] = cache[p] \/ cache'[p] = NoEntry
    BY <1>1 DEF BaseInv
  <1> QED BY <1>1, <1>2, <1>3, CacheFrame

LEMMA CacheOpen ==
    ASSUME BaseInv, CacheInv, NEW w \in Workers, OpenFile(w)
    PROVE  CacheInv'
  <1>1. pc[w] = "open" /\ UNCHANGED <<content, mtime, blurred, cache, stamp>>
    BY DEF OpenFile
  <1>2. CASE Exists(job[w].path)
    <2>1. /\ pc' = [pc EXCEPT ![w] = "read"] /\ job' = job
          /\ body' = [body EXCEPT ![w] = <<>>]
      BY <1>2 DEF OpenFile, Goto
    <2>2. \A v \in Workers \ {w} : steady'[v] => steady[v]
      BY <1>2 DEF OpenFile, BaseInv
    <2>3. ReaderOK(w)'
      <3>1. pc'[w] = "read" /\ body'[w] = <<>> /\ job'[w] = job[w]
        BY <2>1 DEF BaseInv, JobTypes
      <3>2. Len(content[job[w].path]) \in Nat
        <4>1. job[w].path \in Paths
          BY <1>1 DEF BaseInv, WorkOK, GetPc, Get
        <4>2. content[job[w].path] \in Content
          BY <1>2, <4>1 DEF Exists, BaseInv, FsTypes
        <4> QED BY <4>2 DEF Content
      <3> QED BY <1>1, <3>1, <3>2 DEF ReaderOK
    <2>4. ASSUME NEW v \in Workers \ {w} PROVE ReaderOK(v)'
      <3>1. pc'[v] = pc[v] /\ job'[v] = job[v] /\ body'[v] = body[v] /\ stamp'[v] = stamp[v]
        BY <1>1, <2>1 DEF BaseInv, JobTypes
      <3> QED BY <1>1, <2>2, <3>1, OthersRead
    <2>5. \A p \in Paths : EntryOK(p)'
      BY <1>1 DEF CacheInv, EntryOK
    <2> QED BY <2>3, <2>4, <2>5 DEF CacheInv
  <1>3. CASE ~Exists(job[w].path)
    <2>1. /\ pc' = [pc EXCEPT ![w] = "idle"] /\ job' = [job EXCEPT ![w] = NoJob]
          /\ UNCHANGED <<body, steady>>
      BY <1>3 DEF OpenFile, Return, Goto
    <2>2. \A v \in Workers : Stays(v)
      BY <2>1 DEF Stays, BaseInv, JobTypes
    <2> QED BY <1>1, <2>1, <2>2, CacheFrame
  <1> QED BY <1>2, <1>3

LEMMA CacheRead ==
    ASSUME BaseInv, CacheInv, NEW w \in Workers, ReadUnit(w)
    PROVE  CacheInv'
  <1> DEFINE s == content[job[w].path]
             n == Len(body[w]) + 1
  <1>1. /\ pc[w] = "read" /\ UNCHANGED <<content, mtime, blurred, steady, cache, job, stamp>>
        /\ \/ n <= Len(s) /\ body' = [body EXCEPT ![w] = Append(@, s[n])] /\ pc' = pc
           \/ ~(n <= Len(s)) /\ pc' = [pc EXCEPT ![w] = "stamp"] /\ body' = body
    BY DEF ReadUnit, Goto, fsVars
  <1>2. s \in Seq(Data \cup {Hole}) /\ body[w] \in Seq(Data \cup {Hole})
    BY <1>1 DEF BaseInv, WorkOK, JobTypes, Content
  <1>3. /\ Len(s) \in Nat /\ Len(body[w]) \in Nat
        /\ steady[w] => Len(body[w]) <= Len(s) /\ \A i \in 1..Len(body[w]) : body[w][i] = s[i]
    BY <1>1, <1>2 DEF CacheInv, ReaderOK
  <1>4. ReaderOK(w)'
    <2>1. CASE n <= Len(s) /\ body' = [body EXCEPT ![w] = Append(@, s[n])] /\ pc' = pc
      <3>1. body'[w] = Append(body[w], s[n])
        BY <2>1 DEF BaseInv, JobTypes
      <3>2. /\ Len(body'[w]) = n
            /\ body'[w][n] = s[n]
            /\ \A i \in 1..Len(body[w]) : body'[w][i] = body[w][i]
        BY <1>2, <3>1
      <3>3. steady[w] => \A i \in 1..n : body'[w][i] = s[i]
        <4>1. \A i \in 1..n : i = n \/ i \in 1..Len(body[w])
          BY <1>3
        <4> QED BY <1>3, <3>2, <4>1
      <3> QED BY <1>1, <2>1, <3>2, <3>3 DEF ReaderOK
    <2>2. CASE ~(n <= Len(s)) /\ pc' = [pc EXCEPT ![w] = "stamp"] /\ body' = body
      <3>1. pc'[w] = "stamp"
        BY <2>2 DEF BaseInv, JobTypes
      <3>2. steady[w] => Len(body[w]) = Len(s)
        BY <1>3, <2>2
      <3>3. steady[w] => body[w] = s
        BY <1>2, <1>3, <3>2, SeqEqual
      <3> QED BY <1>1, <2>2, <3>1, <3>3 DEF ReaderOK
    <2> QED BY <1>1, <2>1, <2>2
  <1>5. ASSUME NEW v \in Workers \ {w} PROVE ReaderOK(v)'
    <2>1. pc'[v] = pc[v] /\ job'[v] = job[v] /\ body'[v] = body[v] /\ stamp'[v] = stamp[v]
      BY <1>1 DEF BaseInv, JobTypes
    <2> QED BY <1>1, <2>1, OthersRead
  <1>6. \A p \in Paths : EntryOK(p)'
    BY <1>1 DEF CacheInv, EntryOK
  <1> QED BY <1>4, <1>5, <1>6 DEF CacheInv

LEMMA CacheStamp ==
    ASSUME BaseInv, CacheInv, NEW w \in Workers, StampEntry(w)
    PROVE  CacheInv'
  <1>1. pc[w] = "stamp" /\ UNCHANGED <<content, mtime, blurred, cache>>
    BY DEF StampEntry
  <1>2. CASE Exists(job[w].path)
    <2>1. /\ stamp' = [stamp EXCEPT ![w] = mtime[job[w].path]]
          /\ pc' = [pc EXCEPT ![w] = "insert"] /\ UNCHANGED <<job, body, steady>>
      BY <1>2 DEF StampEntry, Goto
    <2>2. ReaderOK(w)'
      <3>1. pc'[w] = "insert" /\ stamp'[w] = mtime[job[w].path]
        BY <2>1 DEF BaseInv, JobTypes
      <3>2. mtime[job[w].path] \in Nat
        BY <1>1 DEF BaseInv, WorkOK, GetPc, Get, FsTypes
      <3>3. steady[w] => body[w] = content[job[w].path]
        BY <1>1 DEF CacheInv, ReaderOK
      <3> QED BY <1>1, <2>1, <3>1, <3>2, <3>3 DEF ReaderOK
    <2>3. ASSUME NEW v \in Workers \ {w} PROVE ReaderOK(v)'
      <3>1. pc'[v] = pc[v] /\ job'[v] = job[v] /\ body'[v] = body[v] /\ stamp'[v] = stamp[v]
        BY <2>1 DEF BaseInv, JobTypes
      <3> QED BY <1>1, <2>1, <3>1, OthersRead
    <2>4. \A p \in Paths : EntryOK(p)'
      BY <1>1 DEF CacheInv, EntryOK
    <2> QED BY <2>2, <2>3, <2>4 DEF CacheInv
  <1>3. CASE ~Exists(job[w].path)
    <2>1. /\ pc' = [pc EXCEPT ![w] = "idle"] /\ job' = [job EXCEPT ![w] = NoJob]
          /\ body' = [body EXCEPT ![w] = <<>>] /\ stamp' = stamp
      BY <1>3 DEF StampEntry, Return, DropBody, Goto
    <2>2. \A v \in Workers \ {w} : steady'[v] => steady[v]
      BY <1>3 DEF StampEntry, DropBody, BaseInv
    <2>3. \A v \in Workers : /\ Stays(v)
                             /\ pc'[v] \in {"read", "stamp", "insert"} => v # w /\ body'[v] = body[v]
      BY <2>1 DEF Stays, BaseInv, JobTypes
    <2> QED BY <1>1, <2>1, <2>2, <2>3, CacheFrame
  <1> QED BY <1>2, <1>3

LEMMA CacheInsert ==
    ASSUME BaseInv, CacheInv, NEW w \in Workers, InsertEntry(w)
    PROVE  CacheInv'
  <1>1. PICK p \in Paths : p = job[w].path
    BY DEF InsertEntry, BaseInv, WorkOK, GetPc, Get
  <1>2. PICK b \in BOOLEAN : b = steady[w]
    BY DEF BaseInv
  <1>3. PICK e : e = [body |-> body[w], last_modified |-> stamp[w], clean |-> b]
    OBVIOUS
  <1>4. cache' = [cache EXCEPT ![p] = e]
    BY <1>1, <1>2, <1>3 DEF InsertEntry
  <1>5. /\ pc[w] = "insert" /\ UNCHANGED <<content, mtime, blurred>>
        /\ pc' = [pc EXCEPT ![w] = "idle"] /\ job' = [job EXCEPT ![w] = NoJob]
        /\ body' = [body EXCEPT ![w] = <<>>] /\ stamp' = [stamp EXCEPT ![w] = 0]
    BY DEF InsertEntry, Return, DropBody, Goto
  <1>6. ReaderOK(w)'
    <2>1. pc'[w] = "idle"
      BY <1>5 DEF BaseInv, JobTypes
    <2> QED BY <2>1 DEF ReaderOK
  <1>7. ASSUME NEW v \in Workers \ {w} PROVE ReaderOK(v)'
    <2>1. steady'[v] => steady[v]
      BY DEF InsertEntry, DropBody, BaseInv
    <2>2. pc'[v] = pc[v] /\ job'[v] = job[v] /\ body'[v] = body[v] /\ stamp'[v] = stamp[v]
      BY <1>5 DEF BaseInv, JobTypes
    <2> QED BY <1>5, <2>1, <2>2, OthersRead
  <1>8. ASSUME NEW q \in Paths PROVE EntryOK(q)'
    <2>1. CASE q # p
      BY <1>4, <1>5, <2>1 DEF CacheInv, EntryOK, BaseInv
    <2>2. CASE q = p
      <3>1. cache'[p] = e
        BY <1>4 DEF BaseInv
      <3>2. e.body = body[w] /\ e.last_modified = stamp[w] /\ e.clean = b
        BY <1>3
      <3>3. /\ stamp[w] <= mtime[p]
            /\ steady[w] /\ stamp[w] = mtime[p] /\ p \notin blurred => body[w] = content[p]
        BY <1>1, <1>5 DEF CacheInv, ReaderOK
      <3>4. b => steady[w]
        BY <1>2
      <3> QED BY <1>5, <2>2, <3>1, <3>2, <3>3, <3>4 DEF EntryOK
    <2> QED BY <2>1, <2>2
  <1> QED BY <1>6, <1>7, <1>8 DEF CacheInv

LEMMA CacheStep == BaseInv /\ CacheInv /\ [Next]_vars => CacheInv'
  <1> SUFFICES ASSUME BaseInv, CacheInv, [Next]_vars PROVE CacheInv'
    OBVIOUS
  <1>1. ASSUME NEW w \in Workers, NEW r \in Get \cup Upload, Receive(w, r) PROVE CacheInv'
    <2>1. /\ UNCHANGED <<content, mtime, blurred, steady, cache, body, stamp>>
          /\ \E l \in {"lookup", "check"} : pc' = [pc EXCEPT ![w] = l]
          /\ job' = [job EXCEPT ![w] = r]
      BY <1>1 DEF Receive, Goto, fsVars
    <2>2. \A v \in Workers : Stays(v)
      BY <2>1 DEF Stays, BaseInv, JobTypes
    <2> QED BY <2>1, <2>2, CacheFrame
  \* An upload moves no reader, and modifies one file at most.
  <1>2. ASSUME NEW w \in Workers, CheckPart(w) \/ CreateFile(w) \/ WriteUnit(w)
        PROVE  CacheInv'
    <2>1. /\ UNCHANGED <<cache, body, stamp>>
          /\ pc[w] \in UploadPc /\ job[w] \in Upload
      BY <1>2 DEF CheckPart, CreateFile, WriteUnit, fsVars, BaseInv, WorkOK, UploadPc
    <2>2. \/ NextPart(w) \/ Return(w)
          \/ job' = job /\ pc' = pc
          \/ job' = job /\ \E l \in UploadPc : pc' = [pc EXCEPT ![w] = l]
      BY <1>2 DEF CheckPart, CreateFile, WriteUnit, Goto, UploadPc
    <2>3. \A v \in Workers : Stays(v)
      <3>1. CASE NextPart(w) \/ Return(w)
        BY <2>1, <3>1, NextPartWork DEF Stays, BaseInv, JobTypes
      <3>2. CASE job' = job /\ pc' = pc
        BY <3>2 DEF Stays
      <3>3. ASSUME job' = job, NEW l \in UploadPc, pc' = [pc EXCEPT ![w] = l]
            PROVE  \A v \in Workers : Stays(v)
        BY <3>3 DEF Stays, UploadPc, BaseInv, JobTypes
      <3> QED BY <2>2, <3>1, <3>2, <3>3
    <2>4. CASE UNCHANGED fsVars
      BY <2>1, <2>3, <2>4, CacheFrame DEF fsVars
    <2>5. ASSUME NEW s, Modify(Current(w).path, s), pc[w] \in {"create", "write"}
          PROVE  CacheInv'
      <3>1. Current(w).path \in Paths
        BY <2>5 DEF BaseInv, WorkOK
      <3> QED BY <2>1, <2>3, <2>5, <3>1, CacheModify
    <2> QED BY <1>2, <2>4, <2>5 DEF CheckPart, CreateFile, WriteUnit
  <1>3. ASSUME NEW p \in Paths, DeleteFile(p) \/ \E d \in Data : Edit(p, d)
        PROVE  CacheInv'
    <2>1. /\ UNCHANGED <<cache, job, pc, body, stamp>>
          /\ \E s : Modify(p, s)
      BY <1>3 DEF DeleteFile, Edit
    <2> QED BY <2>1, CacheModify DEF Stays
  <1>4. CASE UNCHANGED vars
    <2>1. UNCHANGED <<content, mtime, blurred, steady, cache, body, stamp, pc, job>>
      BY <1>4 DEF vars, fsVars
    <2> QED BY <2>1, CacheFrame DEF Stays
  <1> QED BY <1>1, <1>2, <1>3, <1>4, CacheLookup, CacheOpen, CacheRead, CacheStamp, CacheInsert
          DEF Next, WorkerStep

\* A hit serves the file as it is, if the entry was read from an unmodified file and
\* the file's time has seen one modification: the time taken after the content, the
\* comparison of times and the lock around map and comparison suffice, whatever
\* other workers, uploads and edits do (static_file.cpp:293-393).
THEOREM CleanHitsAreCurrent == Spec => CleanHitIsCurrent
  <1>1. Init => BaseInv /\ CacheInv
    BY BaseInit, CacheInit
  <1>2. (BaseInv /\ CacheInv) /\ [Next]_vars => (BaseInv /\ CacheInv)'
    BY BaseStep, CacheStep
  <1>3. ASSUME BaseInv, CacheInv, [Next]_vars
        PROVE  [\A w \in Workers :
                  (/\ pc[w] = "lookup" /\ pc'[w] = "idle"
                   /\ cache[job[w].path].clean /\ job[w].path \notin blurred)
                     => cache[job[w].path].body = content[job[w].path]]_vars
    <2> SUFFICES ASSUME NEW w \in Workers, pc[w] = "lookup", pc'[w] = "idle",
                        cache[job[w].path].clean, job[w].path \notin blurred
                 PROVE  cache[job[w].path].body = content[job[w].path]
      OBVIOUS
    <2>1. ASSUME NEW v \in Workers, WorkerStep(v) PROVE v = w
      <3>1. ASSUME v # w PROVE pc'[w] = pc[w]
        <4>1. CASE NextPart(v) /\ pc[v] \in UploadPc
          <5>1. job[v] \in Upload
            BY <1>3, <4>1 DEF BaseInv, WorkOK
          <5> QED BY <1>3, <3>1, <4>1, <5>1, NextPartWork DEF BaseInv, JobTypes
        <4>2. CASE ~(NextPart(v) /\ pc[v] \in UploadPc)
          <5>1. pc' = pc \/ \E l : pc' = [pc EXCEPT ![v] = l]
            BY <2>1, <4>2 DEF WorkerStep, Receive, ReadFromCache, OpenFile, ReadUnit, StampEntry,
                  InsertEntry, CheckPart, CreateFile, WriteUnit, Return, Goto, UploadPc
          <5> QED BY <1>3, <3>1, <5>1 DEF BaseInv, JobTypes
        <4> QED BY <4>1, <4>2
      <3> QED BY <3>1
    \* It is w that takes its entry from the cache.
    <2>2. ReadFromCache(w)
      <3>1. PICK v \in Workers : WorkerStep(v)
        BY <1>3 DEF Next, Edit, DeleteFile, vars
      <3>2. WorkerStep(w)
        BY <2>1, <3>1
      <3> QED BY <3>2 DEF WorkerStep, Receive, OpenFile, ReadUnit, StampEntry, InsertEntry,
                          CheckPart, CreateFile, WriteUnit
    <2>3. job[w].path \in Paths /\ Fresh(job[w].path)
      <3>1. job[w].path \in Paths
        BY <1>3 DEF BaseInv, WorkOK, GetPc, Get
      <3>2. ~(pc' = [pc EXCEPT ![w] = "open"])
        BY <1>3 DEF BaseInv, JobTypes
      <3> QED BY <2>2, <3>1, <3>2 DEF ReadFromCache, Goto
    <2> QED BY <1>3, <2>3 DEF CacheInv, EntryOK, Fresh
  <1> QED BY <1>1, <1>2, <1>3, PTL DEF Spec, CleanHitIsCurrent
=============================================================================
