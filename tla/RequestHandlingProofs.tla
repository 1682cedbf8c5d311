------------------------- MODULE RequestHandlingProofs -------------------------
(***************************************************************************)
(* What is proved of the handling of requests, for any number of browsers, *)
(* session ids, names, requests and changes, and for messages, listings    *)
(* and names of any length.                                                *)
(*                                                                         *)
(* Responses: one stays raw (it names no reader and takes no cookie away)  *)
(* until render, and only raw responses are kept in the cache, so whoever  *)
(* gets one from there gets its own name in it.  A handler that takes a    *)
(* cookie away has just seen or made its session end, and an id that was   *)
(* given out is never given out again.                                     *)
(*                                                                         *)
(* The parser: Parse is a loop over the sections of the body, and after i  *)
(* of them it holds what the first i were read as.                         *)
(*                                                                         *)
(* Listings: what the iterator has passed is listed if it stayed, nothing  *)
(* is listed that was never there, and the sort loses and adds nothing.    *)
(*                                                                         *)
(* Links: the pieces encode writes stand one after the other in the link,  *)
(* and decode, from the start of each, reads its character and goes on at  *)
(* the next.                                                               *)
(***************************************************************************)
EXTENDS RequestHandling, FiniteSetTheorems, SequenceTheorems, TLAPS

USE DEF Handler, Frame, world, vars
-----------------------------------------------------------------------------
(* Induction, in the forms the provers can use: over a set of numbers, with *)
(* what is to be shown of n in the definition of the set.                   *)

LEMMA Smallest ==
    ASSUME NEW T, T \subseteq Nat, T # {}
    PROVE  \E x \in T : \A y \in T : x <= y
  <1>1. PICK x \in T :  \A y \in T : <<y, x>> \notin OpToRel(<, Nat)
    <2>1. IsWellFoundedOn(OpToRel(<, Nat), Nat)
      BY NatLessThanWellFounded, Zenon
    <2> QED BY <2>1, WFMin, Zenon
  <1>2. \A y \in T : ~(y < x)
    BY <1>1, Zenon DEF OpToRel
  <1> QED BY <1>2

LEMMA AllNumbers ==
    ASSUME NEW T, 0 \in T, \A n \in Nat : n \in T => n + 1 \in T
    PROVE  Nat \subseteq T
  <1> SUFFICES ASSUME Nat \ T # {} PROVE FALSE
    OBVIOUS
  <1>1. PICK x \in Nat \ T : \A y \in Nat \ T : x <= y
    BY Smallest
  <1>2. x # 0 /\ x - 1 \in Nat /\ x - 1 \notin Nat \ T
    BY <1>1
  <1> QED BY <1>1, <1>2

\* The same for the numbers up to n, which is what is needed of a sequence.
LEMMA AllUpTo ==
    ASSUME NEW n \in Nat, NEW T, 0 \in T,
           \A i \in 0..n : i \in T /\ i < n => i + 1 \in T
    PROVE  0..n \subseteq T
  <1> DEFINE U == {i \in Nat : i <= n => i \in T}
  <1>1. 0 \in U
    OBVIOUS
  <1>2. \A i \in Nat : i \in U => i + 1 \in U
    OBVIOUS
  <1> HIDE DEF U
  <1>3. Nat \subseteq U
    BY <1>1, <1>2, AllNumbers
  <1> QED BY <1>3 DEF U

\* States that come from base, each from the one before by a function of its own.
Iteration(f, A, n, base, step) ==
    /\ f \in [0..n -> A]
    /\ f[0] = base
    /\ \A i \in 1..n : f[i] = step[i][f[i - 1]]

LEMMA IterationsExist ==
    ASSUME NEW A, NEW n \in Nat, NEW base, base \in A,
           NEW step, step \in [1..n -> [A -> A]]
    PROVE  \E f : Iteration(f, A, n, base, step)
  <1> USE DEF Iteration
  <1> DEFINE Is(f, m) == Iteration(f, A, m, base, step)
             T == {m \in 0..n : \E f : Is(f, m)}
  <1>1. 0 \in T
    <2> DEFINE g == [i \in 0..0 |-> base]
    <2>1. Is(g, 0)
      OBVIOUS
    <2> HIDE DEF g, Is, Iteration
    <2> QED BY <2>1
  <1>2. ASSUME NEW m \in 0..n, m \in T, m < n PROVE m + 1 \in T
    <2>1. PICK f : Is(f, m)
      BY <1>2
    <2> DEFINE g == [i \in 0..(m + 1) |-> IF i = m + 1 THEN step[m + 1][f[m]] ELSE f[i]]
    <2>2. step[m + 1][f[m]] \in A
      BY <1>2, <2>1
    <2>3. g \in [0..(m + 1) -> A] /\ g[0] = base
      BY <2>1, <2>2
    <2>4. ASSUME NEW i \in 1..(m + 1) PROVE g[i] = step[i][g[i - 1]]
      <3>1. CASE i = m + 1
        BY <3>1, <2>1
      <3>2. CASE i # m + 1
        BY <3>2, <2>1
      <3> QED BY <3>1, <3>2
    <2>5. Is(g, m + 1)
      BY <2>3, <2>4
    <2> HIDE DEF g, Is, Iteration
    <2> QED BY <1>2, <2>5
  <1> HIDE DEF T, Iteration
  <1>3. 0..n \subseteq T
    BY <1>1, <1>2, AllUpTo
  <1> QED BY <1>3 DEF T

LEMMA SetToSeqIsAll ==
    ASSUME NEW S, IsFiniteSet(S)
    PROVE  SetToSeq(S) \in Seq(S) /\ Range(SetToSeq(S)) = S
  <1> DEFINE n == Cardinality(S)
             f == SetToSeq(S)
  <1>1. n \in Nat /\ ExistsBijection(1..n, S)
    BY FS_CardinalityType
  <1>2. \E g \in [1..n -> S] : IsInjective(g)
    BY <1>1 DEF ExistsBijection, Bijection, Injection
  <1>3. f \in [1..n -> S] /\ IsInjective(f)
    BY <1>2 DEF SetToSeq
  <1>4. f \in Injection(1..n, S)
    BY <1>3 DEF Injection
  <1>5. IsFiniteSet(1..n) /\ Cardinality(1..n) = n
    BY <1>1, FS_Interval
  <1>6. f \in Surjection(1..n, S)
    BY <1>4, <1>5, FS_Injection
  <1>7. f \in Seq(S)
    BY <1>1, <1>3
  <1> QED BY <1>3, <1>6, <1>7 DEF Surjection, Range
-----------------------------------------------------------------------------
Ops == {"get", "login", "register", "reset", "logout", "upload", "other"}

Response(r) ==
    /\ r.clear \in BOOLEAN
    /\ r.cookie \in Cookies \cup {None}
    /\ r.location \in Paths \cup {None}

\* Nothing in it depends on who asked.
Raw(r) == r = R(r.status, r.body)

RequestOK(r) ==
    /\ r.op \in Ops
    /\ r.client \in Clients
    /\ r.cookie \in Cookies \cup {None}
    /\ r.path \in Paths

HTypes ==
    /\ RequestOK(request)
    /\ jar \in [Clients -> Cookies \cup {None}]
    /\ sessions \subseteq Cookies
    /\ cache = [f \in Files |-> cache[f]]
    /\ \A f \in Files : Raw(cache[f])
    /\ Response(response)
    /\ phase = "session" => request.op \notin {"reset", "other"}
    /\ phase = "render" => Raw(response)

HInv == HTypes /\ PageShowsItsReader /\ ClearedCookieIsDead
-----------------------------------------------------------------------------
LEMMA PathFacts ==
    /\ \A p \in SitePages : Site(p) \in Paths
    /\ DriveRoot \in Paths /\ Site("/login") \in Paths /\ Site("/") \in Paths
    /\ \A p \in Paths : p.area = "drive" => Slashed(p) \in Paths
    /\ \A p \in Paths : FileOf(p) \in Files
  <1>1. \A p \in SitePages : Site(p) \in Paths
    BY DEF Paths, Site
  <1>2. DriveRoot \in Paths
    BY HandlingAssumption DEF Paths
  <1>3. "/login" \in SitePages /\ "/" \in SitePages
    BY DEF SitePages, HtmlPages, AuthPages
  <1>4. \A p \in Paths : p.area = "drive" => Slashed(p) \in Paths
    BY HandlingAssumption DEF Paths
  <1>5. \A p \in Paths : FileOf(p) \in Files
    BY DEF Files
  <1> QED BY <1>1, <1>2, <1>3, <1>4, <1>5

\* The responses the handlers make.
LEMMA RawFields ==
    ASSUME NEW r, Raw(r)
    PROVE  Response(r) /\ r.header = "none" /\ r.clear = FALSE
  <1>1. PICK s, b : r = R(s, b)
    BY DEF Raw
  <1>2. r.header = "none" /\ r.clear = FALSE /\ r.cookie = None /\ r.location = None
    BY <1>1 DEF R
  <1> QED BY <1>2 DEF Response

LEMMA RawResponses == Raw(Alert) /\ Raw(NoResponse) /\ \A s, b : Raw(R(s, b))
  BY DEF Raw, R, Alert, NoResponse

LEMMA LocatedResponses ==
    ASSUME NEW p \in Paths, NEW r, r \in {Redirect(p), AlertTo(p)}
    PROVE  /\ Response(r) /\ r.header = "none" /\ r.clear = FALSE
           /\ Response(Cleared(r)) /\ Cleared(r).header = "none" /\ Cleared(r).clear = TRUE
  BY DEF R, Redirect, AlertTo, Alert, Response, Cleared

LEMMA RequestsAreOK ==
    ASSUME NEW c \in Clients, NEW k \in Cookies \cup {None}, NEW r \in RequestsOf(c, k)
    PROVE  RequestOK(r)
  BY PathFacts DEF RequestsOf, RequestOK, Ops

LEMMA GetsAreOK ==
    ASSUME NEW c \in Clients, NEW k \in Cookies \cup {None}, NEW p \in Paths
    PROVE  RequestOK(Get(c, k, p))
  BY DEF Get, RequestOK, Ops
-----------------------------------------------------------------------------
\* The three ways in which a step of a handler ends.
LEMMA GotoKeeps ==
    ASSUME HInv, NEW l, OnlyGoto(l), l \notin {"render", "done"},
           l = "session" => request.op \notin {"reset", "other"},
           UNCHANGED request, sessions' \subseteq Cookies,
           cache' = [f \in Files |-> cache'[f]], \A f \in Files : Raw(cache'[f])
    PROVE  HInv'
  <1>1. HTypes'
    BY DEF HInv, HTypes, OnlyGoto, Goto
  <1>2. PageShowsItsReader' /\ ClearedCookieIsDead'
    BY DEF OnlyGoto, Goto, PageShowsItsReader, ClearedCookieIsDead
  <1> QED BY <1>1, <1>2 DEF HInv

LEMMA RenderKeeps ==
    ASSUME HInv, NEW r, Raw(r), ToRender(r),
           UNCHANGED <<request, sessions>>,
           cache' = [f \in Files |-> cache'[f]], \A f \in Files : Raw(cache'[f])
    PROVE  HInv'
  <1>1. HTypes'
    BY RawFields DEF HInv, HTypes, ToRender, Goto
  <1>2. PageShowsItsReader' /\ ClearedCookieIsDead'
    BY DEF ToRender, Goto, PageShowsItsReader, ClearedCookieIsDead
  <1> QED BY <1>1, <1>2 DEF HInv

LEMMA FinishKeeps ==
    ASSUME HInv, NEW r, Response(r), Finish(r),
           UNCHANGED <<request, cache>>, sessions' \subseteq Cookies,
           r.clear => request.cookie \notin sessions',
           r.header \in {"none", "auth"}
           \/ r.header = (IF request.cookie # None /\ ~r.clear
                          THEN Owner[request.cookie] ELSE "guest")
    PROVE  HInv'
  <1>1. jar' \in [Clients -> Cookies \cup {None}]
    BY DEF Finish, HInv, HTypes, RequestOK, Response
  <1>2. response' = r /\ phase' = "done"
    BY DEF Finish, Goto
  <1>3. HTypes'
    BY <1>1, <1>2 DEF HInv, HTypes
  <1>4. ClearedCookieIsDead' /\ PageShowsItsReader'
    BY <1>2 DEF ClearedCookieIsDead, PageShowsItsReader
  <1> QED BY <1>3, <1>4 DEF HInv

\* Most handlers finish with a response that is still raw.
LEMMA FinishRawKeeps ==
    ASSUME HInv, NEW r, Raw(r), Finish(r), Frame, UNCHANGED world
    PROVE  HInv'
  BY RawFields, FinishKeeps DEF HInv, HTypes
-----------------------------------------------------------------------------
LEMMA HandlingInitially == HandlingInit => HInv
  <1> SUFFICES ASSUME HandlingInit PROVE HInv
    OBVIOUS
  <1> DEFINE c == CHOOSE b \in Clients : TRUE
  <1>1. jar \in [Clients -> Cookies \cup {None}]
    BY HandlingAssumption DEF HandlingInit
  <1>2. sessions \subseteq Cookies
    BY <1>1 DEF HandlingInit
  <1>3. RequestOK(request)
    <2>1. c \in Clients /\ jar[c] \in Cookies \cup {None}
      BY <1>1, HandlingAssumption
    <2>2. request \in RequestsOf(c, jar[c])
      BY DEF HandlingInit
    <2> QED BY <2>1, <2>2, RequestsAreOK
  <1>4. Response(response) /\ \A f \in Files : Raw(cache[f])
    BY RawResponses, RawFields DEF HandlingInit
  <1> QED BY <1>1, <1>2, <1>3, <1>4
       DEF HInv, HTypes, HandlingInit, PageShowsItsReader, ClearedCookieIsDead
-----------------------------------------------------------------------------
\* A step that changes nothing the invariant is about, but its place.
LEMMA PlaceKeeps ==
    ASSUME HInv, UNCHANGED <<request, response, jar, sessions, cache>>,
           phase' \notin {"session", "render", "done"}
    PROVE  HInv'
  BY DEF HInv, HTypes, PageShowsItsReader, ClearedCookieIsDead

LEMMA Framed ==
    ASSUME HInv, Frame
    PROVE  /\ UNCHANGED request
           /\ UNCHANGED sessions => sessions' \subseteq Cookies
           /\ UNCHANGED cache => /\ cache' = [f \in Files |-> cache'[f]]
                               /\ \A f \in Files : Raw(cache'[f])
  BY DEF HInv, HTypes

LEMMA ConnectionSteps ==
    ASSUME HInv, ReadRequest \/ Route \/ CheckGet \/ CheckPost
    PROVE  HInv'
  <1>1. CASE ReadRequest
    <2>1. UNCHANGED <<request, world>>
      BY <1>1 DEF ReadRequest
    <2>2. CASE OnlyGoto("parse") \/ OnlyGoto("route")
      BY <2>1, <2>2, PlaceKeeps DEF OnlyGoto, Goto
    <2>3. CASE Finish(R(answer'.status, "error"))
      <3>1. Raw(R(answer'.status, "error"))
        BY RawResponses
      <3> QED BY <2>1, <2>3, <3>1, RawFields, FinishKeeps DEF HInv, HTypes
    <2> QED BY <1>1, <2>2, <2>3 DEF ReadRequest
  <1>2. CASE Route
    <2>1. Frame /\ UNCHANGED world /\ request.op \in Ops
      BY <1>2 DEF Route, HInv, HTypes, RequestOK
    <2>2. CASE request.op \in {"get", "login", "register", "logout", "upload"}
      <3>1. OnlyGoto("session")
        BY <1>2, <2>2 DEF Route
      <3> QED BY <2>1, <2>2, <3>1, GotoKeeps, Framed
    <2>3. CASE request.op = "reset"
      <3>1. OnlyGoto("form")
        BY <1>2, <2>3 DEF Route
      <3> QED BY <2>1, <3>1, PlaceKeeps DEF OnlyGoto, Goto
    <2>4. CASE request.op = "other"
      <3>1. Finish(R(405, "error"))
        BY <1>2, <2>4 DEF Route
      <3> QED BY <2>1, <3>1, RawResponses, FinishRawKeeps
    <2> QED BY <2>1, <2>2, <2>3, <2>4 DEF Ops
  <1>3. CASE CheckGet
    <2>1. Frame /\ UNCHANGED world
      BY <1>3 DEF CheckGet
    <2>2. \/ Finish(Redirect(DriveRoot)) \/ Finish(Redirect(Site("/login")))
          \/ OnlyGoto("serve")
      BY <1>3, Zenon DEF CheckGet
    <2>3. CASE OnlyGoto("serve")
      BY <2>1, <2>3, PlaceKeeps DEF OnlyGoto, Goto
    <2>4. ASSUME NEW p \in Paths, Finish(Redirect(p)) PROVE HInv'
      BY <2>1, <2>4, LocatedResponses, FinishKeeps DEF HInv, HTypes
    <2> QED BY <2>2, <2>3, <2>4, PathFacts
  <1>4. CASE CheckPost
    <2>1. Frame /\ UNCHANGED world
      BY <1>4 DEF CheckPost
    <2>2. request.op \in {"login", "register", "logout", "upload"}
      BY <1>4 DEF CheckPost, HInv, HTypes, RequestOK, Ops
    <2>3. \/ Finish(AlertTo(Site("/")))
          \/ OnlyGoto("form") \/ OnlyGoto("remove") \/ OnlyGoto("parts")
          \/ ~LoggedIn /\ Finish(Cleared(AlertTo(Site("/login"))))
          \/ Finish(R(401, "error"))
      BY <1>4, <2>2 DEF CheckPost
    <2>4. CASE OnlyGoto("form") \/ OnlyGoto("remove") \/ OnlyGoto("parts")
      BY <2>1, <2>4, PlaceKeeps DEF OnlyGoto, Goto
    <2>5. CASE Finish(AlertTo(Site("/")))
      BY <2>1, <2>5, PathFacts, LocatedResponses, FinishKeeps DEF HInv, HTypes
    <2>6. CASE ~LoggedIn /\ Finish(Cleared(AlertTo(Site("/login"))))
      BY <2>1, <2>6, PathFacts, LocatedResponses, FinishKeeps DEF HInv, HTypes, LoggedIn
    <2>7. CASE Finish(R(401, "error"))
      BY <2>1, <2>7, RawResponses, FinishRawKeeps
    <2> QED BY <2>3, <2>4, <2>5, <2>6, <2>7
  <1> QED BY <1>1, <1>2, <1>3, <1>4

LEMMA AccountSteps ==
    ASSUME HInv, CheckForm \/ CreateSession \/ RemoveSession
    PROVE  HInv'
  <1>1. CASE CheckForm
    <2>1. Frame /\ UNCHANGED world
      BY <1>1 DEF CheckForm
    <2>2. \/ Finish(R(400, "error")) \/ Finish(Alert)
          \/ OnlyGoto(IF request.op = "reset" THEN "remove" ELSE "create")
      BY <1>1 DEF CheckForm
    <2>3. CASE OnlyGoto(IF request.op = "reset" THEN "remove" ELSE "create")
      BY <2>1, <2>3, PlaceKeeps DEF OnlyGoto, Goto
    <2> QED BY <2>1, <2>2, <2>3, RawResponses, FinishRawKeeps
  <1>2. CASE CreateSession
    <2>1. PICK k \in Cookies \ issued :
              /\ sessions' = sessions \cup {k}
              /\ Finish([Redirect(DriveRoot) EXCEPT !.cookie = k])
      BY <1>2 DEF CreateSession
    <2> DEFINE r == [Redirect(DriveRoot) EXCEPT !.cookie = k]
    <2>2. Response(r) /\ r.header = "none" /\ r.clear = FALSE
      BY PathFacts DEF Redirect, R, Response
    <2>3. UNCHANGED <<request, cache>>
      BY <1>2 DEF CreateSession
    <2>4. sessions' \subseteq Cookies
      BY <2>1 DEF HInv, HTypes
    <2> QED BY <2>1, <2>2, <2>3, <2>4, FinishKeeps
  <1>3. CASE RemoveSession
    <2>1. /\ sessions' = sessions \ {request.cookie}
          /\ UNCHANGED <<request, cache>>
      BY <1>3 DEF RemoveSession
    <2>2. sessions' \subseteq Cookies /\ request.cookie \notin sessions'
      BY <2>1 DEF HInv, HTypes
    <2>3. Finish(Cleared(Redirect(Site("/")))) \/ Finish(Cleared(AlertTo(Site("/login"))))
      BY <1>3 DEF RemoveSession
    <2> QED BY <2>1, <2>2, <2>3, PathFacts, LocatedResponses, FinishKeeps
  <1> QED BY <1>1, <1>2, <1>3

LEMMA TreeChanges ==
    ASSUME HInv, NEW n, NEW k, SetTree(n, k)
    PROVE  cache' = [f \in Files |-> cache'[f]] /\ \A f \in Files : Raw(cache'[f])
  <1>1. cache' = [f \in Files |-> IF f.area = "drive" /\ f.segment = n
                                  THEN NoResponse ELSE cache[f]]
    BY DEF SetTree
  <1>2. \A f \in Files : cache'[f] = NoResponse \/ cache'[f] = cache[f]
    BY <1>1
  <1> QED BY <1>1, <1>2, RawResponses DEF HInv, HTypes

LEMMA UploadSteps ==
    ASSUME HInv, CheckParts \/ DirExists \/ CreateDirectory \/ IsDirectory \/ Store
    PROVE  HInv'
  <1>1. CASE CheckParts
    <2>1. Frame /\ UNCHANGED world
      BY <1>1 DEF CheckParts
    <2>2. \/ Finish(R(400, "error")) \/ Finish(R(403, "error"))
          \/ OnlyGoto("exists")
      BY <1>1, Zenon DEF CheckParts
    <2>3. CASE OnlyGoto("exists")
      BY <2>1, <2>3, PlaceKeeps DEF OnlyGoto, Goto
    <2> QED BY <2>1, <2>2, <2>3, RawResponses, FinishRawKeeps
  <1>2. CASE DirExists
    BY <1>2, PlaceKeeps DEF DirExists, OnlyGoto, Goto
  <1>3. CASE CreateDirectory
    <2>1. CASE SetTree(Decode(request.path.segment), "dir") /\ Goto("isdir")
               /\ UNCHANGED <<response, entries, at, jar, sessions, issued>>
      <3>1. cache' = [f \in Files |-> cache'[f]] /\ \A f \in Files : Raw(cache'[f])
        BY <2>1, TreeChanges
      <3>2. UNCHANGED request
        BY <1>3 DEF CreateDirectory
      <3>3. HTypes'
        BY <2>1, <3>1, <3>2 DEF HInv, HTypes, Goto
      <3> QED BY <2>1, <3>3 DEF HInv, Goto, PageShowsItsReader, ClearedCookieIsDead
    <2>2. CASE OnlyGoto("isdir") /\ UNCHANGED world
      BY <1>3, <2>2, PlaceKeeps DEF CreateDirectory, OnlyGoto, Goto
    <2>3. CASE Finish(R(500, "error")) /\ UNCHANGED world
      BY <1>3, <2>3, RawResponses, FinishRawKeeps DEF CreateDirectory
    <2> QED BY <1>3, <2>1, <2>2, <2>3 DEF CreateDirectory
  <1>4. CASE IsDirectory
    <2>1. Frame /\ UNCHANGED world
      BY <1>4 DEF IsDirectory
    <2>2. CASE OnlyGoto("store")
      BY <2>1, <2>2, PlaceKeeps DEF OnlyGoto, Goto
    <2>3. CASE Finish(R(403, "error"))
      BY <2>1, <2>3, RawResponses, FinishRawKeeps
    <2> QED BY <1>4, <2>2, <2>3 DEF IsDirectory
  <1>5. CASE Store
    <2>1. UNCHANGED <<request, sessions, cache>>
      BY <1>5 DEF Store
    <2>2. PICK r : Finish(r) /\ Raw(r)
      BY <1>5, RawResponses DEF Store
    <2> QED BY <2>1, <2>2, RawFields, FinishKeeps DEF HInv, HTypes
  <1> QED BY <1>1, <1>2, <1>3, <1>4, <1>5

LEMMA FileSteps ==
    ASSUME HInv, ServeRaw \/ ServeFile \/ ReadFromCache \/ ReadFile
    PROVE  HInv'
  <1>1. CASE ServeRaw
    <2>1. Frame /\ UNCHANGED world
      BY <1>1 DEF ServeRaw
    <2>2. \/ ToRender(R(403, "error"))
          \/ /\ request.path.area = "drive"
             /\ Finish(Redirect(Slashed(request.path)))
          \/ OnlyGoto("opendir") \/ OnlyGoto("again")
      BY <1>1, Zenon DEF ServeRaw, IsDriveUrl
    <2>3. CASE ToRender(R(403, "error"))
      BY <2>1, <2>3, RawResponses, RenderKeeps, Framed
    <2>4. CASE request.path.area = "drive"
               /\ Finish(Redirect(Slashed(request.path)))
      <3>1. Slashed(request.path) \in Paths
        BY <2>4, PathFacts DEF HInv, HTypes, RequestOK
      <3> QED BY <2>1, <2>4, <3>1, LocatedResponses, FinishKeeps DEF HInv, HTypes
    <2>5. CASE OnlyGoto("opendir") \/ OnlyGoto("again")
      BY <2>1, <2>5, PlaceKeeps DEF OnlyGoto, Goto
    <2> QED BY <2>2, <2>3, <2>4, <2>5
  <1>2. CASE ServeFile
    <2>1. Frame /\ UNCHANGED world
      BY <1>2 DEF ServeFile
    <2>2. ToRender(R(404, "error")) \/ OnlyGoto("lookup")
      BY <1>2, Zenon DEF ServeFile
    <2>3. CASE ToRender(R(404, "error"))
      BY <2>1, <2>3, RawResponses, RenderKeeps, Framed
    <2>4. CASE OnlyGoto("lookup")
      BY <2>1, <2>4, PlaceKeeps DEF OnlyGoto, Goto
    <2> QED BY <2>2, <2>3, <2>4
  <1>3. CASE ReadFromCache
    <2>1. Frame /\ UNCHANGED world
      BY <1>3 DEF ReadFromCache
    <2>2. Raw(cache[FileOf(request.path)])
      BY PathFacts DEF HInv, HTypes, RequestOK
    <2>3. ToRender(cache[FileOf(request.path)]) \/ OnlyGoto("open")
      BY <1>3, Zenon DEF ReadFromCache
    <2>4. CASE ToRender(cache[FileOf(request.path)])
      BY <2>1, <2>2, <2>4, RenderKeeps, Framed
    <2>5. CASE OnlyGoto("open")
      BY <2>1, <2>5, PlaceKeeps DEF OnlyGoto, Goto
    <2> QED BY <2>3, <2>4, <2>5
  <1>4. CASE ReadFile
    <2> DEFINE r == R(200, IF IsHtml(request.path) THEN "page" ELSE "file")
    <2>1. UNCHANGED <<request, sessions>>
      BY <1>4 DEF ReadFile
    <2>2. Raw(r) /\ Raw(R(404, "error"))
      BY RawResponses
    <2>3. \/ cache' = [cache EXCEPT ![FileOf(request.path)] = r] /\ ToRender(r)
          \/ ToRender(R(404, "error")) /\ UNCHANGED cache
      BY <1>4, Zenon DEF ReadFile
    <2> HIDE DEF r
    <2>4. cache' = [f \in Files |-> cache'[f]] /\ \A f \in Files : Raw(cache'[f])
      BY <2>2, <2>3 DEF HInv, HTypes
    <2> QED BY <2>1, <2>2, <2>3, <2>4, RenderKeeps
  <1> QED BY <1>1, <1>2, <1>3, <1>4

LEMMA ListingSteps ==
    ASSUME HInv, OpenDirectory \/ ReadEntry \/ StatEntry \/ ListingTemplate
    PROVE  HInv'
  <1>1. CASE OpenDirectory
    <2>1. CASE Finish(R(500, "error"))
      BY <1>1, <2>1, RawResponses, FinishRawKeeps DEF OpenDirectory
    <2>2. CASE Goto("read") /\ UNCHANGED <<response, entries, jar>>
      BY <1>1, <2>2, PlaceKeeps DEF OpenDirectory, Goto
    <2> QED BY <1>1, <2>1, <2>2 DEF OpenDirectory
  <1>2. CASE ReadEntry
    <2>1. phase' \in {"read", "stat"}
      BY <1>2 DEF ReadEntry, Goto
    <2> QED BY <1>2, <2>1, PlaceKeeps DEF ReadEntry
  <1>3. CASE StatEntry
    <2>1. Frame /\ UNCHANGED world
      BY <1>3 DEF StatEntry
    <2>2. \/ phase' \in {"template", "stat"} /\ UNCHANGED <<response, jar>>
          \/ Finish(R(500, "error"))
      BY <1>3 DEF StatEntry, OnlyGoto, Goto
    <2>3. CASE phase' \in {"template", "stat"} /\ UNCHANGED <<response, jar>>
      BY <2>1, <2>3, PlaceKeeps
    <2> QED BY <2>1, <2>2, <2>3, RawResponses, FinishRawKeeps
  <1>4. CASE ListingTemplate
    <2>1. Frame /\ UNCHANGED world
      BY <1>4 DEF ListingTemplate
    <2>2. ToRender(R(200, "listing")) \/ ToRender(R(500, "error"))
      BY <1>4 DEF ListingTemplate
    <2> QED BY <2>1, <2>2, RawResponses, RenderKeeps, Framed
  <1> QED BY <1>1, <1>2, <1>3, <1>4

LEMMA RenderStep ==
    ASSUME HInv, Render
    PROVE  HInv'
  <1> DEFINE With(h) == IF response.body \in {"page", "listing"} /\ response.header = "none"
                        THEN [response EXCEPT !.header = h] ELSE response
  <1>1. Frame /\ UNCHANGED world /\ Raw(response)
    BY DEF Render, HInv, HTypes
  <1>2. LoggedIn => request.cookie # None
    BY HandlingAssumption DEF HInv, HTypes, LoggedIn
  <1>3. \/ Finish(response)
        \/ Finish(With("auth"))
        \/ request.cookie = None /\ Finish(With("guest"))
        \/ request.cookie # None /\ ~LoggedIn /\ Finish(Cleared(With("guest")))
        \/ LoggedIn /\ Finish(With(ReaderHeader))
    <2> DEFINE auth == request.path.area = "site" /\ request.path.page \in AuthPages
    <2>1. CASE response.body = "file"
      BY <2>1 DEF Render
    <2>2. CASE response.body # "file" /\ auth
      BY <2>2, Zenon DEF Render
    <2>3. CASE response.body # "file" /\ ~auth /\ request.cookie = None
      BY <2>3, <1>2, Zenon DEF Render
    <2>4. CASE response.body # "file" /\ ~auth /\ request.cookie # None /\ ~LoggedIn
      BY <2>4, Zenon DEF Render
    <2>5. CASE response.body # "file" /\ ~auth /\ LoggedIn
      BY <2>5, <1>2, Zenon DEF Render
    <2> QED BY <1>2, <2>1, <2>2, <2>3, <2>4, <2>5
  <1>4. ASSUME NEW h, NEW q, q = With(h)
        PROVE  /\ Response(q) /\ q.header \in {"none", h} /\ q.clear = FALSE
               /\ Response(Cleared(q)) /\ Cleared(q).header \in {"none", h}
               /\ Cleared(q).clear = TRUE
    <2>1. PICK s, b : response = R(s, b)
      BY <1>1 DEF Raw
    <2>2. q = [R(s, b) EXCEPT !.header = h] \/ q = R(s, b)
      BY <1>4, <2>1, Zenon
    <2> HIDE DEF With
    <2>3. CASE q = R(s, b)
      BY <2>3 DEF R, Response, Cleared
    <2>4. CASE q = [R(s, b) EXCEPT !.header = h]
      BY <2>4 DEF R, Response, Cleared
    <2> QED BY <2>2, <2>3, <2>4
  <1> HIDE DEF With
  <1>5. sessions' \subseteq Cookies /\ sessions' = sessions /\ UNCHANGED <<request, cache>>
    BY <1>1 DEF HInv, HTypes
  <1>6. CASE Finish(response)
    BY <1>1, <1>6, FinishRawKeeps
  <1>7. CASE Finish(With("auth"))
    BY <1>4, <1>5, <1>7, FinishKeeps
  <1>8. CASE request.cookie = None /\ Finish(With("guest"))
    <2> DEFINE q == With("guest")
    <2>1. Response(q) /\ q.header \in {"none", "guest"} /\ q.clear = FALSE
      BY <1>4
    <2>2. Finish(q)
      BY <1>8
    <2> HIDE DEF q
    <2>3. \/ q.header \in {"none", "auth"}
          \/ q.header = (IF request.cookie # None /\ ~q.clear
                         THEN Owner[request.cookie] ELSE "guest")
      BY <1>8, <2>1
    <2> QED BY <1>5, <2>1, <2>2, <2>3, FinishKeeps
  <1>9. CASE request.cookie # None /\ ~LoggedIn /\ Finish(Cleared(With("guest")))
    <2> DEFINE q == Cleared(With("guest"))
    <2>1. Response(q) /\ q.header \in {"none", "guest"} /\ q.clear = TRUE
      BY <1>4
    <2>2. Finish(q) /\ request.cookie \notin sessions'
      BY <1>5, <1>9 DEF LoggedIn
    <2> HIDE DEF q
    <2>3. \/ q.header \in {"none", "auth"}
          \/ q.header = (IF request.cookie # None /\ ~q.clear
                         THEN Owner[request.cookie] ELSE "guest")
      BY <2>1
    <2> QED BY <1>5, <2>1, <2>2, <2>3, FinishKeeps
  <1>10. CASE LoggedIn /\ Finish(With(ReaderHeader))
    <2> DEFINE q == With(ReaderHeader)
    <2>1. ReaderHeader = Owner[request.cookie]
      BY <1>10 DEF ReaderHeader
    <2>2. Response(q) /\ q.header \in {"none", ReaderHeader} /\ q.clear = FALSE
      BY <1>4
    <2>3. Finish(q)
      BY <1>10
    <2> HIDE DEF q
    <2>4. \/ q.header \in {"none", "auth"}
          \/ q.header = (IF request.cookie # None /\ ~q.clear
                         THEN Owner[request.cookie] ELSE "guest")
      BY <1>2, <1>10, <2>1, <2>2
    <2> QED BY <1>5, <2>2, <2>3, <2>4, FinishKeeps
  <1> QED BY <1>3, <1>6, <1>7, <1>8, <1>9, <1>10

LEMMA OtherSteps ==
    ASSUME HInv,
           \/ Follow \/ NextRequest
           \/ \E k \in Cookies : EndSession(k)
           \/ \E n \in Names, k \in {"none", "file", "dir"} : ChangeTree(n, k)
    PROVE  HInv'
  <1>1. ASSUME NEW r, RequestOK(r), Start(r) PROVE HInv'
    <2>1. HTypes'
      BY <1>1, RawResponses, RawFields DEF Start, HInv, HTypes, RequestOK
    <2> QED BY <1>1, <2>1 DEF Start, HInv, PageShowsItsReader, ClearedCookieIsDead
  <1>2. CASE Follow
    <2>1. response.location \in Paths
      BY <1>2 DEF Follow, HInv, HTypes, Response
    <2>2. request.client \in Clients /\ jar[request.client] \in Cookies \cup {None}
      BY DEF HInv, HTypes, RequestOK
    <2> QED BY <1>1, <1>2, <2>1, <2>2, GetsAreOK DEF Follow
  <1>3. CASE NextRequest
    <2>1. PICK c \in Clients : \E r \in RequestsOf(c, jar[c]) : Start(r)
      BY <1>3 DEF NextRequest
    <2>2. jar[c] \in Cookies \cup {None}
      BY DEF HInv, HTypes
    <2> QED BY <1>1, <2>1, <2>2, RequestsAreOK
  <1>4. ASSUME NEW k \in Cookies, EndSession(k) PROVE HInv'
    <2>1. /\ sessions' \subseteq sessions
          /\ UNCHANGED <<request, phase, response, jar, cache>>
      BY <1>4 DEF EndSession
    <2> QED BY <2>1 DEF HInv, HTypes, PageShowsItsReader, ClearedCookieIsDead
  <1>5. ASSUME NEW n, NEW k, ChangeTree(n, k) PROVE HInv'
    <2>1. UNCHANGED <<request, phase, response, jar, sessions>>
      BY <1>5 DEF ChangeTree
    <2>2. cache' = [f \in Files |-> cache'[f]] /\ \A f \in Files : Raw(cache'[f])
      BY <1>5, TreeChanges DEF ChangeTree
    <2> QED BY <2>1, <2>2 DEF HInv, HTypes, PageShowsItsReader, ClearedCookieIsDead
  <1> QED BY <1>2, <1>3, <1>4, <1>5

LEMMA HandlingSteps == HInv /\ [HandlingNext]_<<vars, handling>> => HInv'
  <1> SUFFICES ASSUME HInv, [HandlingNext]_<<vars, handling>> PROVE HInv'
    OBVIOUS
  <1>1. CASE UNCHANGED <<vars, handling>>
    BY <1>1 DEF handling, HInv, HTypes, PageShowsItsReader, ClearedCookieIsDead
  <1>2. CASE HandlerStep
    BY <1>2, ConnectionSteps, AccountSteps, UploadSteps, FileSteps, ListingSteps, RenderStep
       DEF HandlerStep
  <1> QED BY <1>1, <1>2, OtherSteps DEF HandlingNext

\* A page names its reader, whatever the cache was filled by: static_file.cpp keeps
\* pages before render fills in the header.
THEOREM PagesOfReaders == HandlingSpec => []PageShowsItsReader
  <1>1. HandlingSpec => []HInv
    BY HandlingInitially, HandlingSteps, PTL DEF HandlingSpec
  <1>2. HInv => PageShowsItsReader
    BY DEF HInv
  <1> QED BY <1>1, <1>2, PTL

\* logoutUser, changePassword and render take a cookie away when its session is over.
THEOREM ClearedAreDead == HandlingSpec => []ClearedCookieIsDead
  <1>1. HandlingSpec => []HInv
    BY HandlingInitially, HandlingSteps, PTL DEF HandlingSpec
  <1>2. HInv => ClearedCookieIsDead
    BY DEF HInv
  <1> QED BY <1>1, <1>2, PTL
-----------------------------------------------------------------------------
\* Every step is one of the parser or leaves its state alone.
LEMMA StepsOfParsing ==
    ASSUME [HandlingNext]_<<vars, handling>>
    PROVE  SendUnits \/ TryParse \/ (\E r : Start(r)) \/ UNCHANGED vars
  <1>1. CASE Follow \/ NextRequest
    BY <1>1 DEF Follow, NextRequest
  <1>2. CASE HandlerStep \/ (\E k \in Cookies : EndSession(k))
             \/ \E n \in Names, k \in {"none", "file", "dir"} : ChangeTree(n, k)
    BY <1>2 DEF HandlerStep, ReadRequest, Route, CheckGet, CheckPost, CheckForm,
                CreateSession, RemoveSession, CheckParts, DirExists, CreateDirectory,
                IsDirectory, Store, ServeRaw, ServeFile, ReadFromCache, ReadFile,
                OpenDirectory, ReadEntry, StatEntry, ListingTemplate, Render,
                EndSession, ChangeTree
  <1> QED BY <1>1, <1>2 DEF HandlingNext

(* The answer and the request: when tryParse answers, all of the declared  *)
(* body is in the buffer, and parseBody cuts off what exceeds it.          *)

AInv ==
    /\ message.length \in Nat
    /\ Len(message.body) \in Nat
    /\ sent \in Nat /\ sent <= HeaderLen + Len(message.body)
    /\ parsed => message.error = None
    /\ AnswerIsOfTheWholeRequest

LEMMA NoWrap == \A a, b \in Nat : a < b => a % b = a
  OBVIOUS

LEMMA MessagesMade ==
    ASSUME NEW r
    PROVE  MessageOf(r).length \in Nat /\ Len(MessageOf(r).body) \in Nat
  <1>1. Plain.length \in Nat /\ Len(Plain.body) \in Nat
    BY DEF Plain
  <1>2. OneFile.length \in Nat /\ Len(OneFile.body) \in Nat
    BY DEF OneFile
  <1>3. MessageOf(r) = Plain \/ MessageOf(r) = OneFile
    BY DEF MessageOf
  <1> QED BY <1>1, <1>2, <1>3

LEMMA AnswersInitially == HandlingInit => AInv
  <1> SUFFICES ASSUME HandlingInit PROVE AInv
    OBVIOUS
  <1>1. message \in Message /\ sent = 0 /\ parsed = FALSE /\ answer = None
    BY DEF HandlingInit, Init
  <1>2. message.length \in Nat /\ Len(message.body) \in Nat
    <2>1. message.length \in 0..(Wrap - 1)
          /\ message.body \in UNION {[1..n -> Section] : n \in 0..MaxSections}
      BY <1>1 DEF Message
    <2>2. PICK n \in 0..MaxSections : message.body \in [1..n -> Section]
      BY <2>1
    <2>3. message.body \in Seq(Section)
      BY <2>2, ParsingAssumption
    <2> QED BY <2>1, <2>3, ParsingAssumption
  <1> QED BY <1>1, <1>2, ParsingAssumption DEF AInv, AnswerIsOfTheWholeRequest

LEMMA BodyIsDeclared ==
    ASSUME AInv, Fits, sent >= TotalExpectedLength(message)
    PROVE  Body(message, sent) = Declared
  <1>1. TotalExpectedLength(message) = HeaderLen + message.length
    <2>1. HeaderLen + message.length \in Nat /\ HeaderLen + message.length < Wrap
      BY ParsingAssumption DEF AInv, Fits
    <2> QED BY <2>1, NoWrap, ParsingAssumption DEF TotalExpectedLength
  <1>2. message.length <= Len(message.body) /\ message.length <= sent - HeaderLen
    BY <1>1, ParsingAssumption DEF AInv
  <1>3. /\ Smaller(sent - HeaderLen, message.length) = message.length
        /\ Smaller(message.length, Len(message.body)) = message.length
    BY <1>2, ParsingAssumption DEF Smaller, AInv
  <1> QED BY <1>3 DEF Body, Declared

LEMMA AnswersKept == AInv /\ [HandlingNext]_<<vars, handling>> => AInv'
  <1> SUFFICES ASSUME AInv, [HandlingNext]_<<vars, handling>> PROVE AInv'
    OBVIOUS
  <1> USE ParsingAssumption
  <1>1. CASE UNCHANGED vars
    BY <1>1 DEF AInv, AnswerIsOfTheWholeRequest, Fits, Declared
  <1>2. CASE SendUnits
    BY <1>2 DEF SendUnits, AInv, AnswerIsOfTheWholeRequest
  <1>3. CASE TryParse
    <2>1. UNCHANGED <<message, sent>> /\ (Fits' <=> Fits) /\ Declared' = Declared
      BY <1>3 DEF TryParse, Fits, Declared
    <2>2. parsed' => message.error = None
      BY <1>3 DEF TryParse, AInv
    <2>3. CASE UNCHANGED answer
      BY <2>1, <2>2, <2>3 DEF AInv, AnswerIsOfTheWholeRequest
    <2>4. CASE message.error # None /\ answer' = Answer(message.error, <<>>)
      BY <2>1, <2>2, <2>4 DEF AInv, AnswerIsOfTheWholeRequest
    <2>5. CASE /\ message.error = None
               /\ sent >= TotalExpectedLength(message)
               /\ answer' = Answer(200, Parse(Body(message, sent)))
      BY <2>1, <2>2, <2>5, BodyIsDeclared DEF AInv, AnswerIsOfTheWholeRequest
    <2>6. TotalExpectedLength(message) \in Nat
      BY DEF TotalExpectedLength, AInv
    <2> QED BY <1>3, <2>2, <2>3, <2>4, <2>5, <2>6 DEF TryParse, AInv
  <1>4. ASSUME NEW r, Start(r) PROVE AInv'
    <2>1. /\ message' = MessageOf(r) /\ sent' = 0 /\ parsed' = FALSE /\ answer' = None
      BY <1>4 DEF Start
    <2> QED BY <2>1, MessagesMade DEF AInv, AnswerIsOfTheWholeRequest
  <1> QED BY <1>1, <1>2, <1>3, <1>4, StepsOfParsing

\* tryParse answers the request that was sent, whatever the cuts of recv, for every
\* width of size_t and length of header and body.
THEOREM AnswersAreOfRequests == HandlingSpec => []AnswerIsOfTheWholeRequest
  <1>1. HandlingSpec => []AInv
    BY AnswersInitially, AnswersKept, PTL DEF HandlingSpec
  <1>2. AInv => AnswerIsOfTheWholeRequest
    BY DEF AInv
  <1> QED BY <1>1, <1>2, PTL
-----------------------------------------------------------------------------
(* The parts of a form: what the loop of MultipartParser::parse computes.  *)

Fields == [disposition : {None, "field", "file"}, type : Types \cup {None}]
Items  == [kind : {"field"}] \cup [kind : {"file"}, type : Types \cup {DefaultType}]
States == [headers : Fields, items : Seq(Items)]
StartState == [headers |-> NoFields, items |-> <<>>]

LEMMA StatesAreKept ==
    ASSUME NEW st \in States, NEW s \in Section
    PROVE  /\ ParseSection(st, s) \in States
           /\ Merge(st.headers, s) \in Fields
           /\ Item(Merge(st.headers, s)) \in Seq(Items)
  <1>1. Merge(st.headers, s) \in Fields
    BY DEF Merge, Fields, States, Section
  <1>2. ASSUME NEW h \in Fields PROVE Item(h) \in Seq(Items)
    <2>1. CASE h.disposition = None
      BY <2>1, ParsingAssumption DEF Item
    <2>2. CASE h.disposition = "field"
      BY <2>2, ParsingAssumption DEF Item, Items
    <2>3. CASE h.disposition = "file"
      BY <2>3, ParsingAssumption DEF Item, Items, Fields
    <2> QED BY <2>1, <2>2, <2>3 DEF Fields
  <1>3. Item(Merge(st.headers, s)) \in Seq(Items)
    BY <1>1, <1>2
  <1>4. st.items \o Item(Merge(st.headers, s)) \in Seq(Items)
    BY <1>3, ConcatProperties DEF States
  <1> QED BY <1>1, <1>3, <1>4 DEF ParseSection, States

LEMMA MaxIs ==
    ASSUME NEW S, S \subseteq Nat, NEW x \in S, \A y \in S : y <= x
    PROVE  Max(S) = x
  <1>1. \A y \in S : x >= y
    OBVIOUS
  <1>2. PICK z : z = Max(S)
    OBVIOUS
  <1>3. z \in S /\ \A y \in S : z >= y
    BY <1>1, <1>2, Zenon DEF Max
  <1>4. z \in Nat /\ x \in Nat /\ z >= x /\ z <= x
    BY <1>3
  <1> QED BY <1>2, <1>4

LEMMA FoldOfSubsets ==
    ASSUME NEW body, NEW n \in Nat
    PROVE  \E g : g = [s \in SUBSET (1..n) |->
                         IF s = {} THEN StartState
                         ELSE ParseSection(g[s \ {Max(s)}], body[Max(s)])]
  <1> DEFINE Is(g, m) == g = [s \in SUBSET (1..m) |->
                                IF s = {} THEN StartState
                                ELSE ParseSection(g[s \ {Max(s)}], body[Max(s)])]
             T == {m \in Nat : \E g : Is(g, m)}
  <1>1. 0 \in T
    <2> DEFINE g == [s \in SUBSET (1..0) |-> StartState]
    <2>1. Is(g, 0)
      OBVIOUS
    <2> HIDE DEF g, Is
    <2> QED BY <2>1
  <1>2. ASSUME NEW m \in Nat, m \in T PROVE m + 1 \in T
    <2>1. PICK g : Is(g, m)
      BY <1>2
    <2> DEFINE h == [s \in SUBSET (1..(m + 1)) |->
                       IF m + 1 \in s THEN ParseSection(g[s \ {m + 1}], body[m + 1])
                       ELSE g[s]]
    <2>2. ASSUME NEW s \in SUBSET (1..(m + 1)), m + 1 \in s
          PROVE  Max(s) = m + 1 /\ s \ {m + 1} \in SUBSET (1..m)
      <3>1. Max(s) = m + 1
        <4>1. s \subseteq Nat /\ \A y \in s : y <= m + 1
          OBVIOUS
        <4> QED BY <2>2, <4>1, MaxIs, Zenon
      <3>2. \A x \in s \ {m + 1} : x \in 1..m
        BY <2>2
      <3> QED BY <3>1, <3>2
    <2>3. ASSUME NEW s \in SUBSET (1..m), s # {}
          PROVE  s \ {Max(s)} \in SUBSET (1..m)
      OBVIOUS
    <2>4. \A s \in SUBSET (1..m) : h[s] = g[s]
      OBVIOUS
    <2>5. ASSUME NEW s \in SUBSET (1..(m + 1))
          PROVE  h[s] = IF s = {} THEN StartState
                        ELSE ParseSection(h[s \ {Max(s)}], body[Max(s)])
      <3>1. CASE m + 1 \in s
        BY <3>1, <2>2, <2>4, Zenon
      <3>2. CASE m + 1 \notin s
        <4>1. s \in SUBSET (1..m)
          BY <3>2
        <4>2. g[s] = IF s = {} THEN StartState
                     ELSE ParseSection(g[s \ {Max(s)}], body[Max(s)])
          BY <4>1, <2>1, Zenon
        <4> QED BY <4>1, <4>2, <2>3, <2>4
      <3> QED BY <3>1, <3>2
    <2>6. Is(h, m + 1)
      BY <2>5, Zenon
    <2> HIDE DEF h, Is
    <2> QED BY <2>6
  <1> HIDE DEF T
  <1>3. n \in T
    BY <1>1, <1>2, AllNumbers
  <1> QED BY <1>3 DEF T

\* Parse goes from section to section.
LEMMA ParseIsALoop ==
    ASSUME NEW body, NEW n \in Nat, body \in [1..n -> Section]
    PROVE  \E st \in [0..n -> States] :
              /\ st[0] = StartState
              /\ \A i \in 1..n : st[i] = ParseSection(st[i - 1], body[i])
              /\ Parse(body) = st[n].items
  <1> DEFINE g == CHOOSE g : g = [s \in SUBSET (1..n) |->
                       IF s = {} THEN StartState
                       ELSE ParseSection(g[s \ {Max(s)}], body[Max(s)])]
  <1>1. g = [s \in SUBSET (1..n) |->
               IF s = {} THEN StartState
               ELSE ParseSection(g[s \ {Max(s)}], body[Max(s)])]
    BY FoldOfSubsets, Zenon
  <1>2. Parse(body) = g[1..n].items
    BY Zenon DEF Parse, FoldLeft, MapThenFoldSet, StartState
  <1> HIDE DEF g
  <1> DEFINE st == [i \in 0..n |-> g[1..i]]
  <1>3. \A i \in 0..n : 1..i \in SUBSET (1..n)
    OBVIOUS
  <1>4. st[0] = StartState
    BY <1>1, <1>3
  <1>5. ASSUME NEW i \in 1..n PROVE st[i] = ParseSection(st[i - 1], body[i])
    <2>1. Max(1..i) = i
      <3>1. 1..i \subseteq Nat /\ i \in 1..i /\ \A y \in 1..i : y <= i
        OBVIOUS
      <3> QED BY <3>1, MaxIs, Zenon
    <2>2. (1..i) \ {i} = 1..(i - 1)
      OBVIOUS
    <2>3. i \in 1..i /\ i \in 0..n /\ i - 1 \in 0..n
      OBVIOUS
    <2>4. 1..i \in SUBSET (1..n) /\ 1..i # {}
      BY <1>3, <2>3, Zenon
    <2>5. g[1..i] = ParseSection(g[(1..i) \ {Max(1..i)}], body[Max(1..i)])
      BY <1>1, <2>4, Zenon
    <2> QED BY <2>1, <2>2, <2>3, <2>5, Zenon
  <1> DEFINE T == {i \in 0..n : st[i] \in States}
  <1>6. 0 \in T
    <2>1. NoFields \in Fields
      BY DEF Fields, NoFields
    <2>2. StartState \in States
      BY <2>1 DEF States, StartState
    <2> QED BY <1>4, <2>2
  <1>7. ASSUME NEW i \in 0..n, i \in T, i < n PROVE i + 1 \in T
    <2>1. i + 1 \in 1..n /\ (i + 1) - 1 = i /\ st[i] \in States /\ body[i + 1] \in Section
      BY <1>7
    <2>2. st[i + 1] = ParseSection(st[i], body[i + 1])
      BY <1>5, <2>1
    <2>3. ParseSection(st[i], body[i + 1]) \in States
      BY <2>1, StatesAreKept, Zenon
    <2> QED BY <2>1, <2>2, <2>3
  <1> HIDE DEF T
  <1>8. 0..n \subseteq T
    BY <1>6, <1>7, AllUpTo
  <1>9. st \in [0..n -> States]
    BY <1>8 DEF T
  <1>10. Parse(body) = st[n].items
    BY <1>2
  <1> QED BY <1>4, <1>5, <1>9, <1>10
-----------------------------------------------------------------------------
\* FlattenSeq puts one sequence after the other.
LEMMA FlattenIsALoop ==
    ASSUME NEW S, NEW n \in Nat, NEW ss \in [1..n -> Seq(S)]
    PROVE  \E f \in [0..n -> Seq(S)] :
              /\ f[0] = <<>>
              /\ \A i \in 1..n : f[i] = f[i - 1] \o ss[i]
              /\ FlattenSeq(ss) = f[n]
  <1> DEFINE A == Seq(S)
             step == [i \in 1..n |-> [a \in A |-> a \o ss[i]]]
  <1>1. ASSUME NEW a \in A, NEW i \in 1..n
        PROVE  a \o ss[i] \in A
    <2>1. ss[i] \in Seq(S)
      OBVIOUS
    <2> QED BY <2>1, ConcatProperties, Zenon
  <1>2. step \in [1..n -> [A -> A]]
    <2>1. ASSUME NEW i \in 1..n PROVE [a \in A |-> a \o ss[i]] \in [A -> A]
      BY <1>1, Zenon
    <2> QED BY <2>1, Zenon
  <1>3. <<>> \in A
    OBVIOUS
  <1>4. PICK f : /\ f \in [0..n -> A]
                 /\ f[0] = <<>>
                 /\ \A i \in 1..n : f[i] = step[i][f[i - 1]]
    <2> HIDE DEF step, A
    <2>1. PICK f : Iteration(f, A, n, <<>>, step)
      BY <1>2, <1>3, IterationsExist, Zenon
    <2> QED BY <2>1, Zenon DEF Iteration
  <1>5. \A i \in 1..n : i - 1 \in 0..n /\ i \in 0..n
    OBVIOUS
  <1>6. ASSUME NEW i \in 1..n PROVE f[i] = f[i - 1] \o ss[i]
    <2>1. f[i - 1] \in A
      BY <1>4, <1>5, Zenon
    <2> QED BY <1>4, <2>1, Zenon
  <1>7. ss \in Seq(Seq(S)) /\ Len(ss) = n
    OBVIOUS
  <1>8. CASE n = 0
    <2>1. ss = <<>>
      BY <1>7, <1>8, EmptySeq
    <2>2. FlattenSeq(ss) = ss
      BY <1>7, <1>8 DEF FlattenSeq
    <2> QED BY <1>4, <1>6, <1>8, <2>1, <2>2
  <1>9. CASE n # 0
    <2> DEFINE Is(fl) == fl = [i \in 1..n |-> IF i = 1 THEN ss[i] ELSE fl[i - 1] \o ss[i]]
               g == [i \in 1..n |-> f[i]]
               h == CHOOSE fl : Is(fl)
    <2>1. ASSUME NEW i \in 1..n
          PROVE  g[i] = IF i = 1 THEN ss[i] ELSE g[i - 1] \o ss[i]
      <3>1. CASE i = 1
        <4>1. 1 \in 1..n /\ 1 - 1 = 0 /\ ss[1] \in Seq(S)
          BY <3>1
        <4>3. f[1] = <<>> \o ss[1]
          BY <1>4, <1>6, <4>1, Zenon
        <4>2. f[1] = ss[1]
          BY <4>1, <4>3, ConcatEmptySeq
        <4> QED BY <3>1, <4>2
      <3>2. CASE i # 1
        <4>1. i - 1 \in 1..n
          BY <3>2
        <4> QED BY <1>6, <3>2, <4>1, Zenon
      <3> QED BY <3>1, <3>2
    <2>2. Is(g)
      BY <2>1, Zenon
    <2>3. Is(h)
      BY <2>2, Zenon
    <2>4. FlattenSeq(ss) = h[n]
      BY <1>7, <1>9, Zenon DEF FlattenSeq
    <2> HIDE DEF h
    <2> DEFINE T == {i \in 0..n : i # 0 => h[i] = f[i]}
    <2>5. 0 \in T
      OBVIOUS
    <2>6. ASSUME NEW i \in 0..n, i \in T, i < n PROVE i + 1 \in T
      <3>1. i + 1 \in 1..n /\ (i + 1) - 1 = i
        <4> HIDE DEF T
        <4> QED BY <2>6
      <3>2. h[i + 1] = IF i + 1 = 1 THEN ss[i + 1] ELSE h[i] \o ss[i + 1]
        BY <2>3, <3>1
      <3>3. g[i + 1] = IF i + 1 = 1 THEN ss[i + 1] ELSE g[i] \o ss[i + 1]
        BY <2>1, <3>1
      <3>4. g[i + 1] = f[i + 1] /\ (i # 0 => g[i] = f[i] /\ h[i] = f[i])
        BY <2>6, <3>1
      <3> HIDE DEF g, Is
      <3> QED BY <3>1, <3>2, <3>3, <3>4
    <2> HIDE DEF T
    <2>7. 0..n \subseteq T
      BY <2>5, <2>6, AllUpTo
    <2>8. h[n] = f[n]
      BY <1>9, <2>7 DEF T
    <2> QED BY <1>4, <1>6, <2>4, <2>8
  <1> QED BY <1>8, <1>9

\* A section after sections with no more fields than it has itself.
LEMMA MergesToItsOwn ==
    ASSUME NEW h \in Fields, NEW s \in Section,
           h.disposition # None => s.disposition # None,
           h.type # None => s.type # None
    PROVE  Merge(h, s) = [disposition |-> s.disposition, type |-> s.type]
  BY DEF Merge, Fields, Section

\* Parse reads each section of a uniform body by its own header.
LEMMA UniformBodiesAreRead ==
    ASSUME NEW n \in Nat, NEW body \in [1..n -> Section], Uniform(body)
    PROVE  Parse(body) = FlattenSeq([i \in 1..n |-> Own(body[i])])
  <1> DEFINE own == [i \in 1..n |-> Own(body[i])]
  <1>1. ASSUME NEW s \in Section PROVE Own(s) \in Seq(Items)
    <2>1. StartState \in States /\ StartState.headers = NoFields
      BY DEF StartState, States, Fields, NoFields
    <2>2. Merge(NoFields, s) = [disposition |-> s.disposition, type |-> s.type]
      <3>1. NoFields \in Fields /\ NoFields.disposition = None /\ NoFields.type = None
        BY DEF NoFields, Fields
      <3> QED BY <3>1, MergesToItsOwn
    <2>3. Item(Merge(NoFields, s)) \in Seq(Items)
      BY <2>1, StatesAreKept
    <2> QED BY <2>2, <2>3 DEF Own
  <1>2. own \in [1..n -> Seq(Items)]
    BY <1>1
  <1>3. PICK st \in [0..n -> States] :
            /\ st[0] = StartState
            /\ \A i \in 1..n : st[i] = ParseSection(st[i - 1], body[i])
            /\ Parse(body) = st[n].items
    BY ParseIsALoop
  <1>4. PICK f \in [0..n -> Seq(Items)] :
            /\ f[0] = <<>>
            /\ \A i \in 1..n : f[i] = f[i - 1] \o own[i]
            /\ FlattenSeq(own) = f[n]
    BY <1>2, FlattenIsALoop
  <1>5. Len(body) = n
    OBVIOUS
  <1> DEFINE Known(i) ==
                /\ st[i].headers.disposition # None =>
                      \E k \in 1..i : body[k].headed /\ body[k].disposition # None
                /\ st[i].headers.type # None =>
                      \E k \in 1..i : body[k].headed /\ body[k].type # None
             T == {i \in 0..n : st[i].items = f[i] /\ Known(i)}
  <1>6. 0 \in T
    BY <1>3, <1>4 DEF StartState, NoFields
  <1>7. ASSUME NEW i \in 0..n, i \in T, i < n PROVE i + 1 \in T
    <2> DEFINE s == body[i + 1]
    <2>1. i + 1 \in 1..n /\ (i + 1) - 1 = i
      BY <1>7
    <2>2. s \in Section /\ st[i] \in States /\ st[i].headers \in Fields
      BY <2>1 DEF States
    <2>3. st[i + 1] = ParseSection(st[i], s)
      BY <1>3, <2>1
    <2>4. f[i + 1] = f[i] \o Own(s)
      BY <1>4, <2>1
    <2>5. st[i].items = f[i] /\ Known(i)
      BY <1>7
    <2>6. CASE ~s.headed
      <3>1. st[i + 1] = st[i]
        BY <2>3, <2>6 DEF ParseSection
      <3>2. f[i + 1] = f[i]
        <4>1. f[i] \in Seq(Items)
          OBVIOUS
        <4> QED BY <2>4, <2>6, <4>1, ConcatEmptySeq DEF Own
      <3> QED BY <2>1, <2>5, <3>1, <3>2
    <2>7. CASE s.headed
      <3>1. /\ st[i].headers.disposition # None => s.disposition # None
            /\ st[i].headers.type # None => s.type # None
        BY <2>1, <2>5, <2>7, <1>5 DEF Uniform
      <3>2. Merge(st[i].headers, s) = [disposition |-> s.disposition, type |-> s.type]
        BY <2>2, <3>1, MergesToItsOwn
      <3>3. st[i + 1] = [headers |-> [disposition |-> s.disposition, type |-> s.type],
                         items |-> f[i] \o Own(s)]
        BY <2>3, <2>5, <2>7, <3>2 DEF ParseSection, Own
      <3>4. Known(i + 1)
        BY <2>1, <2>7, <3>3
      <3>5. st[i + 1].items = f[i + 1]
        BY <2>4, <3>3
      <3> QED BY <2>1, <3>4, <3>5
    <2> QED BY <2>6, <2>7
  <1> HIDE DEF T
  <1>8. 0..n \subseteq T
    BY <1>6, <1>7, AllUpTo
  <1>9. st[n].items = f[n]
    BY <1>8 DEF T
  <1> QED BY <1>3, <1>4, <1>9
-----------------------------------------------------------------------------
LEMMA BodiesAreSequences ==
    ASSUME NEW m \in Message
    PROVE  \E n \in 0..MaxSections : m.body \in [1..n -> Section] /\ Len(m.body) = n
  <1>1. PICK n \in 0..MaxSections : m.body \in [1..n -> Section]
    BY DEF Message
  <1>2. n \in Nat
    BY ParsingAssumption
  <1>3. Len(m.body) = n
    BY <1>1, <1>2
  <1> QED BY <1>1, <1>3

LEMMA PrefixesAreBodies ==
    ASSUME NEW m \in Message, NEW k \in Int, k <= Len(m.body)
    PROVE  \E n \in Nat : SubSeq(m.body, 1, k) \in [1..n -> Section]
                          /\ Len(SubSeq(m.body, 1, k)) = n
  <1>1. PICK n \in Nat : m.body \in [1..n -> Section] /\ Len(m.body) = n
    BY BodiesAreSequences, ParsingAssumption
  <1>2. \A i \in 1..k : m.body[i] \in Section
    BY <1>1
  <1>3. SubSeq(m.body, 1, k) \in Seq(Section)
    BY <1>2, SubSeqProperties
  <1> QED BY <1>3, LenProperties

LEMMA ItemsAreTyped ==
    ASSUME NEW m \in Message, NEW k \in Int, k <= Len(m.body),
           NEW b, b = SubSeq(m.body, 1, k)
    PROVE  \A i \in 1..Len(Parse(b)) : Parse(b)[i] \in Items
  <1>1. PICK n \in Nat : b \in [1..n -> Section]
    BY PrefixesAreBodies
  <1>2. PICK st \in [0..n -> States] : Parse(b) = st[n].items
    BY <1>1, ParseIsALoop
  <1>3. st[n] \in States
    OBVIOUS
  <1>4. Parse(b) \in Seq(Items)
    BY <1>2, <1>3 DEF States
  <1> QED BY <1>4, ElementOfSeq

LEMMA MessagesAreMessages ==
    ASSUME NEW r
    PROVE  MessageOf(r) \in Message
  <1>1. Plain \in Message
    <2>1. <<>> \in [1..0 -> Section] /\ 0 \in 0..MaxSections
      BY ParsingAssumption
    <2>2. 0 \in 0..(Wrap - 1)
      BY ParsingAssumption
    <2>3. <<>> \in UNION {[1..n -> Section] : n \in 0..MaxSections}
      BY <2>1
    <2> QED BY <2>2, <2>3 DEF Plain, Message
  <1>2. OneFile \in Message
    <2>1. [headed |-> TRUE, disposition |-> "file", type |-> None] \in Section
      BY DEF Section
    <2>2. \A s \in Section : <<s>> \in [1..1 -> Section]
      OBVIOUS
    <2>3. 1 \in 0..MaxSections /\ 1 \in 0..(Wrap - 1)
      BY ParsingAssumption, HandlingAssumption
    <2>4. OneFile.body \in UNION {[1..n -> Section] : n \in 0..MaxSections}
      BY <2>1, <2>2, <2>3 DEF OneFile
    <2> QED BY <2>3, <2>4 DEF OneFile, Message
  <1> QED BY <1>1, <1>2 DEF MessageOf

PInv == AInv /\ TypeOK

LEMMA TypesInitially == HandlingInit => TypeOK
  <1> SUFFICES ASSUME HandlingInit PROVE TypeOK
    OBVIOUS
  <1>1. message \in Message /\ sent = 0 /\ buffered = 0 /\ parsed = FALSE /\ answer = None
    BY DEF HandlingInit, Init
  <1>2. 0 \in 0..(HeaderLen + MaxSections) /\ 0 \in 0..0
    BY ParsingAssumption
  <1> QED BY <1>1, <1>2 DEF TypeOK

LEMMA TypesKept == PInv /\ [HandlingNext]_<<vars, handling>> => TypeOK'
  <1> SUFFICES ASSUME PInv, [HandlingNext]_<<vars, handling>> PROVE TypeOK'
    OBVIOUS
  <1> USE ParsingAssumption
  <1>1. CASE UNCHANGED vars
    BY <1>1 DEF PInv, TypeOK
  <1>2. message \in Message /\ sent \in Nat /\ HeaderLen \in Nat /\ MaxSections \in Nat
        /\ message.length \in Nat /\ sent <= HeaderLen + Len(message.body)
    BY DEF PInv, TypeOK, AInv
  <1>3. Len(message.body) \in 0..MaxSections
    BY <1>2, BodiesAreSequences
  <1>4. CASE SendUnits
    <2>1. sent' \in (sent + 1)..(HeaderLen + Len(message.body))
          /\ UNCHANGED <<message, buffered, parsed, answer>>
      BY <1>4 DEF SendUnits
    <2>2. sent' \in 0..(HeaderLen + MaxSections) /\ buffered' \in 0..sent'
      BY <1>2, <1>3, <2>1 DEF PInv, TypeOK
    <2> QED BY <2>1, <2>2 DEF PInv, TypeOK
  <1>5. CASE TryParse
    <2>1. UNCHANGED <<message, sent>> /\ buffered' = sent
      BY <1>5 DEF TryParse
    <2>2. parsed' \in BOOLEAN
      BY <1>5 DEF TryParse, PInv, TypeOK
    <2>3. CASE UNCHANGED answer
      BY <1>2, <2>1, <2>2, <2>3 DEF PInv, TypeOK
    <2>4. CASE message.error # None /\ answer' = Answer(message.error, <<>>)
      <3>1. message.error \in {400, 500}
        BY <1>2, <2>4 DEF Message
      <3>2. answer'.status \in {200, 400, 500} /\ Len(answer'.items) = 0
        BY <2>4, <3>1 DEF Answer
      <3> QED BY <1>2, <2>1, <2>2, <3>2 DEF PInv, TypeOK
    <2>5. CASE answer' = Answer(200, Parse(Body(message, sent)))
      <3> DEFINE k == Smaller(sent - HeaderLen, message.length)
      <3>1. k \in Int /\ k <= Len(message.body)
        BY <1>2, <1>3 DEF Smaller
      <3>2. \A i \in 1..Len(Parse(Body(message, sent))) :
               Parse(Body(message, sent))[i] \in Items
        BY <1>2, <3>1, ItemsAreTyped, Zenon DEF Body
      <3>3. answer'.status = 200 /\ \A i \in 1..Len(answer'.items) : answer'.items[i] \in Items
        BY <2>5, <3>2 DEF Answer
      <3> QED BY <1>2, <2>1, <2>2, <3>3 DEF PInv, TypeOK, Items
    <2> QED BY <1>5, <2>3, <2>4, <2>5 DEF TryParse
  <1>6. ASSUME NEW r, Start(r) PROVE TypeOK'
    <2>1. /\ message' = MessageOf(r) /\ sent' = 0 /\ buffered' = 0
          /\ parsed' = FALSE /\ answer' = None
      BY <1>6 DEF Start
    <2>2. MessageOf(r) \in Message
      BY MessagesAreMessages
    <2>3. 0 \in 0..(HeaderLen + MaxSections) /\ 0 \in 0..0
      BY <1>2
    <2> QED BY <2>1, <2>2, <2>3 DEF TypeOK
  <1> QED BY <1>1, <1>4, <1>5, <1>6, StepsOfParsing

\* What tryParse and MultipartParser hold, and what the answer is made of: a
\* status of the parser, and parts with a Content-Type that was sent or the default
\* (connection.cpp:97-138, multipart_parser.cpp:12-67).
THEOREM ParserTypes == HandlingSpec => []TypeOK
  <1>1. HandlingInit => PInv
    BY AnswersInitially, TypesInitially DEF PInv
  <1>2. PInv /\ [HandlingNext]_<<vars, handling>> => PInv'
    BY AnswersKept, TypesKept DEF PInv
  <1>3. PInv => TypeOK
    BY DEF PInv
  <1> QED BY <1>1, <1>2, <1>3, PTL DEF HandlingSpec

\* MultipartParser::parse reads every section of an upload by its own header and in
\* order, however many there are, if none leaves out a field an earlier one had
\* (multipart_parser.cpp:12-86).
THEOREM SectionsRead == HandlingSpec => []SectionsAreRead
  <1>1. PInv => SectionsAreRead
    <2> SUFFICES ASSUME PInv, answer # None, answer.status = 200, Fits, Uniform(Declared)
                 PROVE  answer.items
                            = FlattenSeq([i \in 1..Len(Declared) |-> Own(Declared[i])])
      BY DEF SectionsAreRead
    <2>1. message \in Message /\ message.length \in Nat
      BY DEF PInv, TypeOK, AInv
    <2>2. answer = Answer(200, Parse(Declared))
      <3>1. CASE message.error # None
        <4>1. message.error \in {400, 500} /\ answer = Answer(message.error, <<>>)
          BY <2>1, <3>1 DEF Message, PInv, AInv, AnswerIsOfTheWholeRequest
        <4> QED BY <4>1 DEF Answer
      <3>2. CASE message.error = None
        BY <3>2 DEF PInv, AInv, AnswerIsOfTheWholeRequest
      <3> QED BY <3>1, <3>2
    <2> DEFINE k == Smaller(message.length, Len(message.body))
    <2>3. k \in Int /\ k <= Len(message.body)
      BY <2>1 DEF PInv, AInv, Smaller
    <2>4. PICK n \in Nat : Declared \in [1..n -> Section] /\ Len(Declared) = n
      BY <2>1, <2>3, PrefixesAreBodies DEF Declared
    <2>5. Parse(Declared) = FlattenSeq([i \in 1..n |-> Own(Declared[i])])
      BY <2>4, UniformBodiesAreRead
    <2> QED BY <2>2, <2>4, <2>5 DEF Answer
  <1>2. HandlingInit => PInv
    BY AnswersInitially, TypesInitially DEF PInv
  <1>3. PInv /\ [HandlingNext]_<<vars, handling>> => PInv'
    BY AnswersKept, TypesKept DEF PInv
  <1> QED BY <1>1, <1>2, <1>3, PTL DEF HandlingSpec
-----------------------------------------------------------------------------
(* The listing: what the iterator has passed is listed if it stayed, and   *)
(* nothing is listed that was not there.                                   *)

Kinds == {"none", "file", "dir"}
Entries == Names \X {"file", "dir"}
Now == {<<n, tree[n]>> : n \in Names}

Listed == /\ {e \in stood : e[2] # "none"} \subseteq Range(entries)
          /\ Range(entries) \subseteq seen

\* What has been read up to the position.
ReadSoFar ==
    /\ at \in Nat \ {0}
    /\ entries \in Seq(Entries)
    /\ Range(entries) \subseteq seen
    /\ request.path.segment = <<>> =>
          \A i \in 1..(at - 1) : i <= Len(Order) =>
              \A e \in stood : e[1] = Order[i] /\ e[2] # "none" => e \in Range(entries)

\* Where the listing is complete, or nothing was to be listed.
Complete == \/ phase \in {"stat", "template"}
            \/ phase \in {"render", "done"} /\ response.body = "listing"

\* No listing is being made, or was made.
Elsewhere == phase \notin {"read", "stat", "template", "render", "done"}

LInv ==
    /\ tree \in [Names -> Kinds]
    /\ \A f \in Files : cache[f].body # "listing"
    /\ phase \in {"read", "stat", "template"} => stood \subseteq Now /\ Now \subseteq seen
    /\ Elsewhere => entries = <<>>
    /\ phase = "read" => ReadSoFar
    /\ Complete => /\ Range(entries) \subseteq Entries
                   /\ request.path.segment = <<>> => Listed

LEMMA OrderIsAll == Order \in Seq(Names) /\ Range(Order) = Names /\ Len(Order) \in Nat
  BY HandlingAssumption, SetToSeqIsAll, LenProperties DEF Order

LEMMA SortingKeepsEntries ==
    ASSUME NEW es \in Seq(Entries)
    PROVE  Range(DirectoriesFirst(es)) = Range(es)
  <1> DEFINE Of(k) == {e \in Range(es) : e[2] = k}
  <1>1. IsFiniteSet(Range(es))
    <2>1. Len(es) \in Nat /\ DOMAIN es = 1..Len(es)
      BY LenProperties
    <2>2. es \in Surjection(1..Len(es), Range(es))
      BY <2>1 DEF Surjection, Range
    <2>3. IsFiniteSet(1..Len(es))
      BY <2>1, FS_Interval
    <2> QED BY <2>2, <2>3, FS_Surjection
  <1>2. ASSUME NEW k
        PROVE  SetToSeq(Of(k)) \in Seq(Range(es)) /\ Range(SetToSeq(Of(k))) = Of(k)
    <2>1. IsFiniteSet(Of(k))
      BY <1>1, FS_Subset
    <2>2. SetToSeq(Of(k)) \in Seq(Of(k)) /\ Range(SetToSeq(Of(k))) = Of(k)
      BY <2>1, SetToSeqIsAll
    <2> QED BY <2>2, SeqMonotonic
  <1>3. Range(DirectoriesFirst(es)) = Of("dir") \cup Of("file")
    <2>1. DirectoriesFirst(es) = SetToSeq(Of("dir")) \o SetToSeq(Of("file"))
      BY DEF DirectoriesFirst
    <2> HIDE DEF Of
    <2> QED BY <1>2, <2>1, RangeConcatenation
  <1>4. \A e \in Range(es) : e[2] \in {"dir", "file"}
    BY RangeOfSeq DEF Entries
  <1> QED BY <1>3, <1>4

LEMMA ListingInitially == HandlingInit => LInv
  BY HandlingAssumption DEF HandlingInit, LInv, Complete, NoResponse, R, Kinds, Elsewhere

\* Steps to a place where no listing is made.
LEMMA ListingNotHere ==
    ASSUME LInv, tree' \in [Names -> Kinds], \A f \in Files : cache'[f].body # "listing",
           Elsewhere', entries' = <<>>
    PROVE  LInv'
  BY DEF LInv, Complete, Elsewhere

LEMMA ListingFinished ==
    ASSUME LInv, NEW r, Finish(r), r.body # "listing",
           tree' \in [Names -> Kinds], \A f \in Files : cache'[f].body # "listing"
    PROVE  LInv'
  BY DEF LInv, Complete, Finish, Goto, Elsewhere

LEMMA ListingRendered ==
    ASSUME LInv, NEW r, ToRender(r), r.body # "listing",
           tree' \in [Names -> Kinds], \A f \in Files : cache'[f].body # "listing"
    PROVE  LInv'
  BY DEF LInv, Complete, ToRender, Goto, Elsewhere

LEMMA KindsInPlace == ASSUME LInv PROVE UNCHANGED world => tree' \in [Names -> Kinds]
                          /\ \A f \in Files : cache'[f].body # "listing"
  BY DEF LInv

LEMMA TheBodies ==
    /\ \A s, b : R(s, b).body = b
    /\ \A p : Redirect(p).body = "text" /\ AlertTo(p).body = "alert"
    /\ \A p : Cleared(Redirect(p)).body = "text" /\ Cleared(AlertTo(p)).body = "alert"
    /\ Alert.body = "alert" /\ NoResponse.body = "none"
  BY DEF R, Redirect, AlertTo, Alert, Cleared, NoResponse

\* Directories and files come and go, in the root; an entry that stood until now
\* goes on standing if it is not the one that changes.
LEMMA ListingTreeChanges ==
    ASSUME LInv, NEW n, NEW k \in Kinds, SetTree(n, k),
           UNCHANGED <<request, response, entries, at, phase>>
    PROVE  LInv'
  <1>1. tree' \in [Names -> Kinds]
    BY DEF SetTree, LInv
  <1>2. \A f \in Files : cache'[f].body # "listing"
    BY TheBodies DEF SetTree, LInv
  <1> DEFINE now == {<<m, tree'[m]>> : m \in Names}
  <1>3. CASE phase \in {"read", "stat", "template"}
    <2>1. stood' = stood \cap now /\ seen' = seen \cup now
      BY <1>3 DEF SetTree
    <2> HIDE DEF now
    <2>2. stood' \subseteq stood /\ seen \subseteq seen' /\ stood' \subseteq now /\ now \subseteq seen'
      BY <2>1
    <2>3. phase = "read" => ReadSoFar'
      BY <2>2 DEF LInv, ReadSoFar, Order
    <2>4. Complete' => /\ Range(entries) \subseteq Entries
                       /\ request.path.segment = <<>> => Listed'
      BY <2>2 DEF LInv, Complete, Listed
    <2> QED BY <1>1, <1>2, <2>2, <2>3, <2>4 DEF LInv, Now, now, Elsewhere
  <1>4. CASE phase \notin {"read", "stat", "template"}
    <2>1. UNCHANGED <<stood, seen>>
      BY <1>4 DEF SetTree
    <2> QED BY <1>1, <1>2, <1>4, <2>1 DEF LInv, Complete, Listed, Elsewhere
  <1> QED BY <1>3, <1>4
-----------------------------------------------------------------------------
LEMMA ListingConnection ==
    ASSUME HTypes, LInv, ReadRequest \/ Route \/ CheckGet \/ CheckPost
    PROVE  LInv'
  <1> SUFFICES /\ UNCHANGED world /\ Elsewhere
               /\ \/ \E l \in {"parse", "route", "session", "form", "serve", "remove",
                                "parts"} : OnlyGoto(l)
                  \/ \E r : Finish(r) /\ r.body # "listing"
    BY KindsInPlace, ListingNotHere, ListingFinished DEF OnlyGoto, Goto, Elsewhere, LInv
  <1>1. CASE ReadRequest
    BY <1>1, TheBodies DEF ReadRequest, Elsewhere
  <1>2. CASE Route
    <2>1. \/ OnlyGoto("session") \/ OnlyGoto("form") \/ Finish(R(405, "error"))
      BY <1>2 DEF Route, HTypes, RequestOK, Ops
    <2> QED BY <1>2, <2>1, TheBodies DEF Route, Elsewhere
  <1>3. CASE CheckGet
    <2>1. \/ Finish(Redirect(DriveRoot)) \/ Finish(Redirect(Site("/login")))
          \/ OnlyGoto("serve")
      BY <1>3, Zenon DEF CheckGet
    <2> QED BY <1>3, <2>1, TheBodies DEF CheckGet, Elsewhere
  <1>4. CASE CheckPost
    <2>1. request.op \in {"login", "register", "logout", "upload"}
      BY <1>4 DEF CheckPost, HTypes, RequestOK, Ops
    <2>2. \/ Finish(AlertTo(Site("/")))
          \/ OnlyGoto("form") \/ OnlyGoto("remove") \/ OnlyGoto("parts")
          \/ Finish(Cleared(AlertTo(Site("/login"))))
          \/ Finish(R(401, "error"))
      BY <1>4, <2>1 DEF CheckPost
    <2> QED BY <1>4, <2>2, TheBodies DEF CheckPost, Elsewhere
  <1> QED BY <1>1, <1>2, <1>3, <1>4

LEMMA ListingAccounts ==
    ASSUME LInv, CheckForm \/ CreateSession \/ RemoveSession
    PROVE  LInv'
  <1>1. CASE CheckForm
    <2>1. UNCHANGED world /\ Elsewhere
      BY <1>1 DEF CheckForm, Elsewhere
    <2>2. \/ Finish(R(400, "error")) \/ Finish(Alert)
          \/ OnlyGoto("remove") \/ OnlyGoto("create")
      BY <1>1 DEF CheckForm
    <2> QED BY <2>1, <2>2, TheBodies, KindsInPlace, ListingNotHere, ListingFinished
            DEF OnlyGoto, Goto, Elsewhere, LInv
  <1>2. CASE CreateSession
    <2>1. PICK k : Finish([Redirect(DriveRoot) EXCEPT !.cookie = k])
      BY <1>2 DEF CreateSession
    <2>2. [Redirect(DriveRoot) EXCEPT !.cookie = k].body = "text"
      BY DEF Redirect, R
    <2>3. UNCHANGED <<tree, cache>>
      BY <1>2 DEF CreateSession
    <2> QED BY <2>1, <2>2, <2>3, ListingFinished DEF LInv
  <1>3. CASE RemoveSession
    <2>1. UNCHANGED <<tree, cache>>
      BY <1>3 DEF RemoveSession
    <2>2. Finish(Cleared(Redirect(Site("/")))) \/ Finish(Cleared(AlertTo(Site("/login"))))
      BY <1>3 DEF RemoveSession
    <2> QED BY <2>1, <2>2, TheBodies, ListingFinished DEF LInv
  <1> QED BY <1>1, <1>2, <1>3

\* The directory an upload makes has a name of the drive.
LEMMA ListingUploads ==
    ASSUME HTypes, LInv,
           CheckParts \/ DirExists \/ CreateDirectory \/ IsDirectory \/ Store
    PROVE  LInv'
  <1>1. ASSUME UNCHANGED world, Elsewhere,
               \/ \E l \in {"exists", "mkdir", "isdir", "store"} : OnlyGoto(l)
               \/ \E r : Finish(r) /\ r.body # "listing"
        PROVE  LInv'
    BY <1>1, KindsInPlace, ListingNotHere, ListingFinished DEF OnlyGoto, Goto, Elsewhere, LInv
  <1>2. CASE CheckParts
    <2>1. \/ Finish(R(400, "error")) \/ Finish(R(403, "error")) \/ OnlyGoto("exists")
      BY <1>2, Zenon DEF CheckParts
    <2> QED BY <1>1, <1>2, <2>1, TheBodies DEF CheckParts, Elsewhere
  <1>3. CASE DirExists
    BY <1>1, <1>3 DEF DirExists, Elsewhere
  <1>4. CASE CreateDirectory
    <2>1. CASE SetTree(Decode(request.path.segment), "dir") /\ Goto("isdir")
               /\ UNCHANGED <<response, entries, at, jar, sessions, issued>>
      <3>1. tree' = [tree EXCEPT ![Decode(request.path.segment)] = "dir"]
            /\ \A f \in Files : cache'[f].body # "listing"
        BY <2>1, TheBodies DEF SetTree, LInv
      <3>2. tree' \in [Names -> Kinds]
        BY <3>1 DEF LInv, Kinds
      <3>3. Elsewhere /\ Elsewhere' /\ entries' = <<>>
        BY <1>4, <2>1 DEF CreateDirectory, Elsewhere, Goto, LInv
      <3> QED BY <3>1, <3>2, <3>3, ListingNotHere
    <2>2. CASE UNCHANGED world /\ (OnlyGoto("isdir") \/ Finish(R(500, "error")))
      BY <1>1, <1>4, <2>2, TheBodies DEF CreateDirectory, Elsewhere
    <2> QED BY <1>4, <2>1, <2>2 DEF CreateDirectory
  <1>5. CASE IsDirectory
    BY <1>1, <1>5, TheBodies DEF IsDirectory, Elsewhere
  <1>6. CASE Store
    <2>1. tree' \in [Names -> Kinds] /\ UNCHANGED cache
      BY <1>6 DEF Store, LInv, Kinds
    <2>2. PICK r : Finish(r) /\ r.body # "listing"
      BY <1>6, TheBodies DEF Store
    <2> QED BY <2>1, <2>2, ListingFinished DEF LInv
  <1> QED BY <1>2, <1>3, <1>4, <1>5, <1>6

LEMMA ListingFiles ==
    ASSUME HTypes, LInv, ServeRaw \/ ServeFile \/ ReadFromCache \/ ReadFile
    PROVE  LInv'
  <1>1. ASSUME UNCHANGED world, Elsewhere,
               \/ \E l \in {"opendir", "again", "lookup", "open"} : OnlyGoto(l)
               \/ \E r : (Finish(r) \/ ToRender(r)) /\ r.body # "listing"
        PROVE  LInv'
    BY <1>1, KindsInPlace, ListingNotHere, ListingFinished, ListingRendered
       DEF OnlyGoto, Goto, Elsewhere, LInv
  <1>2. CASE ServeRaw
    <2>1. \/ ToRender(R(403, "error"))
          \/ Finish(Redirect(Slashed(request.path)))
          \/ OnlyGoto("opendir") \/ OnlyGoto("again")
      BY <1>2, Zenon DEF ServeRaw
    <2>2. UNCHANGED world /\ Elsewhere
      BY <1>2, Zenon DEF ServeRaw, Elsewhere
    <2>3. CASE Finish(Redirect(Slashed(request.path)))
      BY <1>1, <2>2, <2>3, TheBodies, Zenon
    <2>4. CASE ToRender(R(403, "error"))
      <3>1. R(403, "error").body # "listing"
        BY TheBodies
      <3> QED BY <1>1, <2>2, <2>4, <3>1, Zenon
    <2>5. CASE OnlyGoto("opendir") \/ OnlyGoto("again")
      <3>1. \E l \in {"opendir", "again", "lookup", "open"} : OnlyGoto(l)
        BY <2>5
      <3> QED BY <1>1, <2>2, <3>1, Zenon
    <2> QED BY <2>1, <2>3, <2>4, <2>5
  <1>3. CASE ServeFile
    <2>1. ToRender(R(404, "error")) \/ OnlyGoto("lookup")
      BY <1>3, Zenon DEF ServeFile
    <2> QED BY <1>1, <1>3, <2>1, TheBodies DEF ServeFile, Elsewhere
  <1>4. CASE ReadFromCache
    <2>1. ToRender(cache[FileOf(request.path)]) \/ OnlyGoto("open")
      BY <1>4, Zenon DEF ReadFromCache
    <2>2. cache[FileOf(request.path)].body # "listing"
      BY PathFacts DEF HTypes, RequestOK, LInv
    <2> QED BY <1>1, <1>4, <2>1, <2>2 DEF ReadFromCache, Elsewhere
  <1>5. CASE ReadFile
    <2> DEFINE b == IF IsHtml(request.path) THEN "page" ELSE "file"
               r == R(200, b)
    <2>1. \/ cache' = [cache EXCEPT ![FileOf(request.path)] = r] /\ ToRender(r)
          \/ ToRender(R(404, "error")) /\ UNCHANGED cache
      BY <1>5, Zenon DEF ReadFile
    <2>2. r.body = b /\ b # "listing" /\ R(404, "error").body = "error"
      BY TheBodies
    <2> HIDE DEF b, r
    <2>3. tree' \in [Names -> Kinds]
      BY <1>5 DEF ReadFile, LInv
    <2>4. \A f \in Files : cache'[f].body # "listing"
      BY <2>1, <2>2 DEF HTypes, LInv
    <2> QED BY <2>1, <2>2, <2>3, <2>4, ListingRendered
  <1> QED BY <1>2, <1>3, <1>4, <1>5
-----------------------------------------------------------------------------
LEMMA RangeOfAppend ==
    ASSUME NEW S, NEW s \in Seq(S), NEW e, e \in S
    PROVE  Append(s, e) \in Seq(S) /\ Range(Append(s, e)) = Range(s) \cup {e}
  <1>1. Append(s, e) = s \o <<e>> /\ Append(s, e) \in Seq(S)
    BY AppendIsConcat, AppendProperties
  <1>2. <<e>> \in Seq(S) /\ Range(<<e>>) = {e}
    <2>1. DOMAIN <<e>> = {1} /\ <<e>>[1] = e
      OBVIOUS
    <2> QED BY <2>1 DEF Range
  <1>3. Range(s \o <<e>>) = Range(s) \cup Range(<<e>>)
    BY <1>2, RangeConcatenation
  <1> QED BY <1>1, <1>2, <1>3, Zenon

LEMMA ListingOpened == ASSUME LInv, OpenDirectory PROVE LInv'
  <1>1. CASE Finish(R(500, "error")) /\ UNCHANGED world
    BY <1>1, TheBodies, KindsInPlace, ListingFinished
  <1>2. CASE /\ Goto("read")
             /\ at' = 1
             /\ stood' = {<<n, tree[n]>> : n \in Names}
             /\ seen' = stood'
             /\ UNCHANGED <<response, entries, jar>>
             /\ UNCHANGED world
    <2>1. entries = <<>>
      BY <1>2 DEF OpenDirectory, LInv, Elsewhere
    <2>2. entries' = <<>> /\ at' = 1 /\ phase' = "read"
      BY <1>2, <2>1 DEF Goto
    <2>3. ReadSoFar'
      <3>1. <<>> \in Seq(Entries) /\ Range(<<>>) = {}
        BY DEF Range
      <3>2. 1 \in Nat \ {0} /\ 1..(1 - 1) = {}
        OBVIOUS
      <3> QED BY <2>2, <3>1, <3>2 DEF ReadSoFar
    <2>4. tree' \in [Names -> Kinds] /\ (\A f \in Files : cache'[f].body # "listing")
      BY <1>2, KindsInPlace
    <2>5. stood' \subseteq Now' /\ Now' \subseteq seen'
      BY <1>2 DEF Now
    <2> QED BY <2>2, <2>3, <2>4, <2>5 DEF LInv, Complete, Elsewhere
  <1> QED BY <1>1, <1>2 DEF OpenDirectory

LEMMA ListingRead == ASSUME LInv, ReadEntry PROVE LInv'
  <1>1. /\ phase = "read" /\ ReadSoFar
        /\ stood \subseteq Now /\ Now \subseteq seen
        /\ UNCHANGED <<response, jar, stood, seen, request, world>>
        /\ tree \in [Names -> Kinds]
    BY DEF ReadEntry, LInv
  <1>2. tree' \in [Names -> Kinds] /\ (\A f \in Files : cache'[f].body # "listing")
        /\ stood' \subseteq Now' /\ Now' \subseteq seen'
    BY <1>1, KindsInPlace DEF Now
  <1>3. at \in Nat \ {0} /\ Len(Order) \in Nat
    BY <1>1, OrderIsAll DEF ReadSoFar
  <1>4. CASE at <= Len(InOrder)
    <2> DEFINE n == Order[at]
               e == <<n, tree[n]>>
    <2>1. request.path.segment = <<>> /\ InOrder = Order /\ at \in 1..Len(Order)
      BY <1>3, <1>4 DEF InOrder
    <2>2. n \in Names /\ e \in Now /\ e \in seen
      BY <1>1, <2>1, OrderIsAll, ElementOfSeq DEF Now
    <2>3. /\ entries' = IF tree[n] = "none" THEN entries ELSE Append(entries, e)
          /\ at' = at + 1 /\ phase' = "read"
      BY <1>1, <1>4, <2>1 DEF ReadEntry
    <2>4. /\ entries' \in Seq(Entries)
          /\ Range(entries) \subseteq Range(entries') /\ Range(entries') \subseteq seen
          /\ tree[n] # "none" => e \in Range(entries')
      <3>1. CASE tree[n] = "none"
        BY <1>1, <2>3, <3>1 DEF ReadSoFar
      <3>2. CASE tree[n] # "none"
        <4>1. e \in Entries
          BY <1>1, <2>2, <3>2 DEF Entries, Kinds
        <4>2. entries' = Append(entries, e) /\ entries \in Seq(Entries)
              /\ Range(entries) \subseteq seen
          BY <1>1, <2>3, <3>2 DEF ReadSoFar
        <4> HIDE DEF e, n
        <4>3. entries' \in Seq(Entries) /\ Range(entries') = Range(entries) \cup {e}
          BY <4>1, <4>2, RangeOfAppend
        <4> QED BY <2>2, <4>2, <4>3
      <3> QED BY <3>1, <3>2
    <2>5. ASSUME NEW i \in 1..at, NEW d \in stood, d[1] = Order[i], d[2] # "none"
          PROVE  d \in Range(entries')
      <3>1. CASE i = at
        <4>1. PICK m \in Names : d = <<m, tree[m]>>
          BY <1>1 DEF Now
        <4>2. d = e
          BY <2>5, <3>1, <4>1
        <4> QED BY <2>4, <2>5, <4>2
      <3>2. CASE i # at
        <4>1. i \in 1..(at - 1) /\ i <= Len(Order)
          BY <1>3, <2>1, <3>2
        <4>2. d \in Range(entries)
          BY <1>1, <2>1, <2>5, <4>1 DEF ReadSoFar
        <4> QED BY <2>4, <4>2
      <3> QED BY <3>1, <3>2
    <2>6. ReadSoFar'
      <3>1. at' \in Nat \ {0} /\ at' - 1 = at
        BY <1>3, <2>3
      <3> HIDE DEF e, n
      <3> QED BY <1>1, <2>4, <2>5, <3>1 DEF ReadSoFar, Order
    <2> QED BY <1>2, <2>3, <2>6 DEF LInv, Complete, Elsewhere
  <1>5. CASE ~(at <= Len(InOrder))
    <2>1. entries' = DirectoriesFirst(entries) /\ phase' = "stat"
      BY <1>5 DEF ReadEntry, Goto
    <2>2. Range(entries') = Range(entries) /\ Range(entries) \subseteq seen
      BY <1>1, <2>1, SortingKeepsEntries DEF ReadSoFar
    <2>3. ASSUME request.path.segment = <<>>, NEW e \in stood, e[2] # "none"
          PROVE  e \in Range(entries)
      <3>1. e[1] \in Range(Order)
        BY <1>1, OrderIsAll DEF Now
      <3>2. PICK i \in 1..Len(Order) : e[1] = Order[i]
        BY <3>1, OrderIsAll, RangeEquality
      <3>3. i \in 1..(at - 1)
        BY <1>3, <1>5, <2>3 DEF InOrder
      <3> QED BY <1>1, <2>3, <3>2, <3>3 DEF ReadSoFar
    <2>4. request.path.segment = <<>> => Listed'
      BY <1>1, <2>2, <2>3 DEF Listed
    <2>5. Range(entries) \subseteq Entries
      BY <1>1, RangeOfSeq DEF ReadSoFar
    <2> QED BY <1>1, <1>2, <2>1, <2>2, <2>4, <2>5 DEF LInv, Complete, Elsewhere
  <1> QED BY <1>4, <1>5

LEMMA ListingStepsKeep ==
    ASSUME LInv, OpenDirectory \/ ReadEntry \/ StatEntry \/ ListingTemplate
    PROVE  LInv'
  <1>1. CASE StatEntry
    <2>1. phase = "stat" /\ UNCHANGED world /\ UNCHANGED request
      BY <1>1 DEF StatEntry
    <2>2. \/ OnlyGoto("template")
          \/ Finish(R(500, "error"))
          \/ UNCHANGED <<response, phase, entries, jar, stood, seen>>
      BY <1>1, Zenon DEF StatEntry
    <2>3. CASE Finish(R(500, "error"))
      BY <2>1, <2>3, TheBodies, KindsInPlace, ListingFinished
    <2>4. CASE OnlyGoto("template")
      BY <2>1, <2>4 DEF OnlyGoto, Goto, LInv, Complete, Listed, Elsewhere, Now
    <2>5. CASE UNCHANGED <<response, phase, entries, jar, stood, seen>>
      BY <2>1, <2>5 DEF LInv, Complete, Listed, Elsewhere, Now
    <2> QED BY <2>2, <2>3, <2>4, <2>5
  <1>2. CASE ListingTemplate
    <2>1. phase = "template" /\ UNCHANGED world /\ UNCHANGED request
      BY <1>2 DEF ListingTemplate
    <2>2. CASE ToRender(R(200, "listing"))
      BY <2>1, <2>2 DEF ToRender, Goto, LInv, Complete, Listed, Elsewhere
    <2>3. CASE ToRender(R(500, "error"))
      BY <2>1, <2>3, TheBodies, KindsInPlace, ListingRendered
    <2> QED BY <1>2, <2>2, <2>3 DEF ListingTemplate
  <1> QED BY <1>1, <1>2, ListingOpened, ListingRead

\* render fills in a header and may take a cookie away; it leaves the body alone.
LEMMA ListingRender == ASSUME HInv, LInv, Render PROVE LInv'
  <1> DEFINE With(h) == IF response.body \in {"page", "listing"} /\ response.header = "none"
                        THEN [response EXCEPT !.header = h] ELSE response
  <1>1. PICK s, b : response = R(s, b)
    BY DEF Render, HInv, HTypes, Raw
  <1>2. \A h : With(h).body = response.body /\ Cleared(With(h)).body = response.body
    BY <1>1 DEF R, Cleared
  <1>3. \E r : Finish(r) /\ r.body = response.body
    <2>1. \/ Finish(response)
          \/ \E h : Finish(With(h)) \/ Finish(Cleared(With(h)))
      <3>1. LoggedIn => request.cookie # None
        BY HandlingAssumption DEF HInv, HTypes, LoggedIn
      <3> DEFINE auth == request.path.area = "site" /\ request.path.page \in AuthPages
      <3>2. CASE response.body = "file"
        BY <3>2 DEF Render
      <3>3. CASE response.body # "file" /\ auth
        BY <3>3, Zenon DEF Render
      <3>4. CASE response.body # "file" /\ ~auth /\ request.cookie = None
        BY <3>4, <3>1, Zenon DEF Render
      <3>5. CASE response.body # "file" /\ ~auth /\ request.cookie # None /\ ~LoggedIn
        BY <3>5, Zenon DEF Render
      <3>6. CASE response.body # "file" /\ ~auth /\ LoggedIn
        BY <3>6, <3>1, Zenon DEF Render
      <3> QED BY <3>1, <3>2, <3>3, <3>4, <3>5, <3>6
    <2> HIDE DEF With
    <2> QED BY <1>2, <2>1
  <1>4. PICK r : Finish(r) /\ r.body = response.body
    BY <1>3
  <1>5. phase = "render" /\ UNCHANGED world /\ UNCHANGED request
    BY DEF Render
  <1>6. CASE r.body = "listing"
    BY <1>4, <1>5, <1>6 DEF Finish, Goto, LInv, Complete, Listed, Elsewhere
  <1>7. CASE r.body # "listing"
    BY <1>4, <1>5, <1>7, KindsInPlace, ListingFinished
  <1> QED BY <1>6, <1>7

LEMMA ListingOthers ==
    ASSUME LInv,
           \/ Follow \/ NextRequest
           \/ \E k \in Cookies : EndSession(k)
           \/ \E n \in Names, k \in {"none", "file", "dir"} : ChangeTree(n, k)
    PROVE  LInv'
  <1>1. ASSUME NEW r, Start(r) PROVE LInv'
    BY <1>1, KindsInPlace, ListingNotHere DEF Start, Elsewhere
  <1>2. CASE Follow \/ NextRequest
    BY <1>1, <1>2 DEF Follow, NextRequest
  <1>3. ASSUME NEW k \in Cookies, EndSession(k) PROVE LInv'
    BY <1>3 DEF EndSession, LInv, Complete, Listed, Elsewhere, ReadSoFar, Now, Order
  <1>4. ASSUME NEW n \in Names, NEW k \in {"none", "file", "dir"}, ChangeTree(n, k)
        PROVE  LInv'
    BY <1>4, ListingTreeChanges DEF ChangeTree, Kinds
  <1> QED BY <1>2, <1>3, <1>4

LEMMA ListingKept ==
    HInv /\ LInv /\ [HandlingNext]_<<vars, handling>> => LInv'
  <1> SUFFICES ASSUME HInv, LInv, [HandlingNext]_<<vars, handling>> PROVE LInv'
    OBVIOUS
  <1>1. CASE UNCHANGED <<vars, handling>>
    BY <1>1 DEF handling, LInv, Complete, Listed, Elsewhere, ReadSoFar, Now, Order
  <1>2. CASE HandlerStep
    BY <1>2, ListingConnection, ListingAccounts, ListingUploads, ListingFiles,
       ListingStepsKeep, ListingRender
       DEF HandlerStep, HInv
  <1> QED BY <1>1, <1>2, ListingOthers DEF HandlingNext

\* A listing that is sent shows what was in the directory all the while, and nothing
\* that never was, however many workers change the directory as it is read
\* (static_file.cpp:236-319).
THEOREM ListingsAreSnapshots == HandlingSpec => []ListingIsSnapshot
  <1>1. HandlingInit => HInv /\ LInv
    BY HandlingInitially, ListingInitially
  <1>2. HInv /\ LInv /\ [HandlingNext]_<<vars, handling>> => HInv' /\ LInv'
    BY HandlingSteps, ListingKept
  <1>3. HInv /\ LInv => ListingIsSnapshot
    BY DEF LInv, Complete, Listed, ListingIsSnapshot
  <1> QED BY <1>1, <1>2, <1>3, PTL DEF HandlingSpec
-----------------------------------------------------------------------------
(* The links: encode and decode, and the characters they tell apart.       *)

LEMMA CodesAreUnique ==
    /\ \A p, q \in Codes : p[1] = q[1] => p = q
    /\ \A p, q \in Codes : p[2] = q[2] => p = q
    /\ \A p \in Codes : p[2] \in 0..255
  BY DEF Codes

LEMMA AsciiIsACode ==
    ASSUME NEW c \in Alphabet
    PROVE  /\ \E p \in Codes : p[1] = c /\ p[2] = Ascii(c)
           /\ Ascii(c) \in 0..255
           /\ CharOf(Ascii(c)) = c
  <1>1. PICK p \in Codes : p[1] = c
    BY DEF Alphabet
  <1>2. PICK q : q = CHOOSE p1 \in Codes : p1[1] = c
    OBVIOUS
  <1>3. q \in Codes /\ q[1] = c
    BY <1>1, <1>2, Zenon
  <1>4. Ascii(c) = q[2]
    BY <1>2, Zenon DEF Ascii
  <1>5. PICK r : r = CHOOSE p2 \in Codes : p2[2] = q[2]
    OBVIOUS
  <1>6. r \in Codes /\ r[2] = q[2]
    BY <1>3, <1>5, Zenon
  <1>7. r[1] = c
    BY <1>3, <1>6, CodesAreUnique
  <1>8. CharOf(q[2]) = r[1]
    BY <1>3, <1>5, Zenon DEF CharOf
  <1> QED BY <1>3, <1>4, <1>7, <1>8, CodesAreUnique

LEMMA HexDigitsAreUnique ==
    /\ DOMAIN HexDigits = 1..16
    /\ \A i, j \in 1..16 : HexDigits[i] = HexDigits[j] => i = j
    /\ \A i \in 1..16 : HexDigits[i] \notin {"a", "-"}
  BY DEF HexDigits

LEMMA HexDigitsHaveTheirValue ==
    ASSUME NEW k \in 0..15
    PROVE  IsHex(HexDigits[k + 1]) /\ HexValue(HexDigits[k + 1]) = k
  <1>1. k + 1 \in 1..16 /\ (k + 1) - 1 = k
    OBVIOUS
  <1> DEFINE d == HexDigits[k + 1]
  <1>2. d \in Range(HexDigits) /\ d # "a"
    BY <1>1, HexDigitsAreUnique DEF Range
  <1>3. PICK i : i = CHOOSE j \in 1..16 : HexDigits[j] = d
    OBVIOUS
  <1>4. i \in 1..16 /\ HexDigits[i] = d
    BY <1>1, <1>3, Zenon
  <1>5. i = k + 1
    BY <1>1, <1>4, HexDigitsAreUnique
  <1>6. HexValue(d) = i - 1
    BY <1>2, <1>3, Zenon DEF HexValue
  <1> HIDE DEF d
  <1>7. IsHex(d) /\ HexValue(d) = k
    BY <1>1, <1>2, <1>5, <1>6 DEF IsHex
  <1> QED BY <1>7 DEF d

\* The characters of a link.
Written == Alphabet \cup Range(HexDigits)

\* What decode makes of the three characters that encode writes for one.
LEMMA EscapesAreRead ==
    ASSUME NEW c \in Alphabet
    PROVE  /\ Escaped(c) \in Seq(Written) /\ Len(Escaped(c)) = 3
           /\ Escaped(c)[1] = "%"
           /\ HasValue(Escaped(c)[2], Escaped(c)[3])
           /\ CharOf(PairValue(Escaped(c)[2], Escaped(c)[3])) = c
  <1> DEFINE v == Ascii(c)
             a == HexDigits[(v \div 16) + 1]
             b == HexDigits[(v % 16) + 1]
  <1>1. v \in 0..255 /\ CharOf(v) = c
    BY AsciiIsACode
  <1>2. v \div 16 \in 0..15 /\ v % 16 \in 0..15 /\ 16 * (v \div 16) + (v % 16) = v
    <2> HIDE DEF v
    <2> QED BY <1>1
  <1>3. IsHex(a) /\ HexValue(a) = v \div 16 /\ IsHex(b) /\ HexValue(b) = v % 16
    BY <1>2, HexDigitsHaveTheirValue, Zenon
  <1>4. a \in Written /\ b \in Written /\ a # "-"
    <2>1. \A i \in 1..16 : HexDigits[i] \in Written /\ HexDigits[i] # "-"
      BY HexDigitsAreUnique DEF Written, Range
    <2>2. \A k \in 0..15 : k + 1 \in 1..16
      OBVIOUS
    <2> QED BY <1>2, <2>1, <2>2, Zenon
  <1>5. Escaped(c) = <<"%", a, b>>
    BY Zenon DEF Escaped
  <1> HIDE DEF a, b, v
  <1>6. HasValue(a, b) /\ PairValue(a, b) = 16 * HexValue(a) + HexValue(b)
    BY <1>3, <1>4 DEF HasValue, PairValue
  <1>7. CharOf(PairValue(a, b)) = c
    BY <1>1, <1>2, <1>3, <1>6
  <1>8. "%" \in Written
    <2>1. <<"%", 37>> \in Codes /\ <<"%", 37>>[1] = "%"
      BY DEF Codes
    <2> QED BY <2>1, Zenon DEF Written, Alphabet
  <1>9. \A x, y, z \in Written : <<x, y, z>> \in Seq(Written)
    OBVIOUS
  <1>10. Escaped(c) \in Seq(Written)
    BY <1>4, <1>5, <1>8, <1>9
  <1> QED BY <1>5, <1>6, <1>7, <1>10

LEMMA UnreservedAreRead ==
    ASSUME NEW c \in Unreserved
    PROVE  c \in Alphabet /\ c # "+" /\ c # "%"
  <1>1. <<"-", 45>> \in Codes /\ <<"+", 43>> \in Codes /\ <<"%", 37>> \in Codes
    BY DEF Codes
  <1>2. "-" \in Alphabet /\ "+" \in Alphabet /\ "%" \in Alphabet
    <2>1. \A p \in Codes : p[1] \in Alphabet
      BY DEF Alphabet
    <2>2. <<"-", 45>>[1] = "-" /\ <<"+", 43>>[1] = "+" /\ <<"%", 37>>[1] = "%"
      OBVIOUS
    <2> QED BY <1>1, <2>1, <2>2, Zenon
  <1>3. Ascii("+") = 43 /\ Ascii("%") = 37
    <2>1. PICK p \in Codes, q \in Codes : /\ p[1] = "+" /\ p[2] = Ascii("+")
                                           /\ q[1] = "%" /\ q[2] = Ascii("%")
      BY <1>2, AsciiIsACode
    <2>2. p = <<"+", 43>> /\ q = <<"%", 37>>
      BY <1>1, <2>1, CodesAreUnique
    <2> QED BY <2>1, <2>2
  <1>4. 43 \notin (48..57) \cup (65..90) \cup (97..122)
        /\ 37 \notin (48..57) \cup (65..90) \cup (97..122)
    OBVIOUS
  <1>5. "-" # "+" /\ "-" # "%"
    OBVIOUS
  <1> QED BY <1>2, <1>3, <1>4, <1>5 DEF Unreserved
-----------------------------------------------------------------------------
\* Url::decode, from one position: what is left of s, and what it looks at.
DecodeFrom(s, from, i) ==
    CASE i > Len(s) -> <<>>
      [] i <= Len(s) /\ s[i] = "+" -> <<" ">> \o from[i + 1]
      [] /\ i + 2 <= Len(s) /\ s[i] = "%"
         /\ HasValue(s[i + 1], s[i + 2]) ->
            <<CharOf(PairValue(s[i + 1], s[i + 2]))>> \o from[i + 3]
      [] OTHER -> <<s[i]>> \o from[i + 1]

\* It looks ahead, and no further than three characters.
LEMMA DecodeLooksAhead ==
    ASSUME NEW s, Len(s) \in Nat, NEW f, NEW g, NEW i \in Nat,
           i > Len(s) \/ (f[i + 1] = g[i + 1] /\ f[i + 3] = g[i + 3])
    PROVE  DecodeFrom(s, f, i) = DecodeFrom(s, g, i)
  <1>1. CASE i > Len(s)
    <2>1. i > Len(s) /\ ~(i <= Len(s)) /\ ~(i + 2 <= Len(s))
      BY <1>1
    <2>2. \A h : DecodeFrom(s, h, i) = <<>>
      BY <2>1 DEF DecodeFrom
    <2> QED BY <2>2
  <1>2. CASE f[i + 1] = g[i + 1] /\ f[i + 3] = g[i + 3]
    BY <1>2, Zenon DEF DecodeFrom
  <1> QED BY <1>1, <1>2

LEMMA DecodingsExist ==
    ASSUME NEW s, Len(s) \in Nat
    PROVE  \E f : f = [i \in 1..(Len(s) + 3) |-> DecodeFrom(s, f, i)]
  <1> DEFINE L == Len(s) + 3
             Is(f, m) == f = [i \in (L + 1 - m)..L |-> DecodeFrom(s, f, i)]
             T == {m \in 0..L : \E f : Is(f, m)}
  <1>1. 0 \in T
    <2> DEFINE g == [i \in (L + 1 - 0)..L |-> <<>>]
    <2>1. (L + 1 - 0)..L = {} /\ 0 \in 0..L
      OBVIOUS
    <2>2. Is(g, 0)
      BY <2>1, Zenon
    <2> HIDE DEF g, Is
    <2> QED BY <2>1, <2>2
  <1>2. ASSUME NEW m \in 0..L, m \in T, m < L PROVE m + 1 \in T
    <2>1. PICK f : Is(f, m)
      BY <1>2
    <2> DEFINE a == L - m
               g == [i \in a..L |-> IF i = a THEN DecodeFrom(s, f, a) ELSE f[i]]
    <2>2. a \in 1..L /\ a = L + 1 - (m + 1) /\ L + 1 - m = a + 1
      <3> HIDE DEF T
      <3> QED BY <1>2
    <2>3. ASSUME NEW i \in a..L PROVE g[i] = DecodeFrom(s, g, i)
      <3>1. i > Len(s) \/ (i + 1 \in (a + 1)..L /\ i + 3 \in (a + 1)..L)
        <4> HIDE DEF T
        <4> QED BY <2>2
      <3>2. \A j \in (a + 1)..L : j \in a..L /\ j # a
        <4> HIDE DEF T
        <4> QED BY <2>2
      <3>3. \A j \in (a + 1)..L : g[j] = f[j]
        BY <3>2, Zenon
      <3>4. DecodeFrom(s, f, i) = DecodeFrom(s, g, i)
        <4>1. i \in Nat
          <5> HIDE DEF T
          <5> QED BY <2>2
        <4>2. i > Len(s) \/ (f[i + 1] = g[i + 1] /\ f[i + 3] = g[i + 3])
          BY <3>1, <3>3, Zenon
        <4> QED BY <4>1, <4>2, DecodeLooksAhead, Zenon
      <3>5. CASE i = a
        BY <3>4, <3>5, Zenon
      <3>6. CASE i # a
        <4>1. i \in (a + 1)..L
          <5> HIDE DEF T
          <5> QED BY <2>2, <3>6
        <4>2. f[i] = DecodeFrom(s, f, i)
          BY <2>1, <2>2, <4>1, Zenon
        <4> QED BY <3>3, <3>4, <4>1, <4>2, Zenon
      <3> QED BY <3>5, <3>6
    <2>4. Is(g, m + 1)
      BY <2>2, <2>3, Zenon
    <2>5. m + 1 \in 0..L
      <3> HIDE DEF T
      <3> QED BY <1>2
    <2> HIDE DEF g, Is
    <2> QED BY <2>4, <2>5
  <1>3. L \in Nat /\ L \in 0..L /\ L + 1 - L = 1
    OBVIOUS
  <1> HIDE DEF T
  <1>4. 0..L \subseteq T
    BY <1>1, <1>2, <1>3, AllUpTo
  <1>5. \E f : Is(f, L)
    BY <1>3, <1>4 DEF T
  <1> QED BY <1>3, <1>5

LEMMA DecodeIsALoop ==
    ASSUME NEW s, Len(s) \in Nat
    PROVE  \E f : /\ Decode(s) = f[1]
                  /\ \A i \in 1..(Len(s) + 3) : f[i] = DecodeFrom(s, f, i)
  <1> DEFINE Is(f) == f = [i \in 1..(Len(s) + 3) |-> DecodeFrom(s, f, i)]
             from == CHOOSE f : Is(f)
  <1>1. Is(from)
    BY DecodingsExist, Zenon
  <1>2. Decode(s) = from[1]
    BY Zenon DEF Decode, DecodeFrom
  <1> HIDE DEF from
  <1>3. \A i \in 1..(Len(s) + 3) : from[i] = DecodeFrom(s, from, i)
    BY <1>1, Zenon
  <1> QED BY <1>2, <1>3, Zenon

\* In a sequence f[n] that is put together from the pieces ss each piece is where
\* those before it end.
Appended(f, ss, n) == \A i \in 1..n : f[i] = f[i - 1] \o ss[i]

InPlace(f, ss, n, j) ==
    /\ Len(f[j]) = Len(f[j - 1]) + Len(ss[j])
    /\ Len(f[j]) <= Len(f[n])
    /\ \A k \in 1..Len(ss[j]) : f[n][Len(f[j - 1]) + k] = ss[j][k]

LEMMA PiecesStay ==
    ASSUME NEW S, NEW n \in Nat, NEW ss \in [1..n -> Seq(S)],
           NEW f \in [0..n -> Seq(S)], Appended(f, ss, n)
    PROVE  \A j \in 1..n : InPlace(f, ss, n, j)
  <1>0. \A i \in 1..n : f[i] = f[i - 1] \o ss[i]
    BY DEF Appended
  <1>1. ASSUME NEW i \in 1..n
        PROVE  /\ Len(f[i]) = Len(f[i - 1]) + Len(ss[i])
               /\ \A k \in 1..Len(f[i - 1]) : f[i][k] = f[i - 1][k]
               /\ \A k \in 1..Len(ss[i]) : f[i][Len(f[i - 1]) + k] = ss[i][k]
               /\ Len(f[i - 1]) \in Nat /\ Len(ss[i]) \in Nat
    <2>1. f[i - 1] \in Seq(S) /\ ss[i] \in Seq(S) /\ f[i] = f[i - 1] \o ss[i]
      BY <1>0
    <2>2. PICK x, y, z : x = f[i - 1] /\ y = ss[i] /\ z = f[i]
      BY <2>1
    <2>3. z = x \o y /\ x \in Seq(S) /\ y \in Seq(S)
      BY <2>1, <2>2
    <2>4. Len(x) \in Nat /\ Len(y) \in Nat
      BY <2>3, LenProperties
    <2>5. Len(z) = Len(x) + Len(y)
          /\ \A k \in 1..(Len(x) + Len(y)) : z[k] = IF k <= Len(x) THEN x[k] ELSE y[k - Len(x)]
      BY <2>3, ConcatProperties
    <2>6. /\ \A k \in 1..Len(x) : k \in 1..(Len(x) + Len(y)) /\ k <= Len(x)
          /\ \A k \in 1..Len(y) : /\ Len(x) + k \in 1..(Len(x) + Len(y))
                                  /\ ~(Len(x) + k <= Len(x))
                                  /\ (Len(x) + k) - Len(x) = k
      BY <2>4
    <2>7. /\ \A k \in 1..Len(x) : z[k] = x[k]
          /\ \A k \in 1..Len(y) : z[Len(x) + k] = y[k]
      BY <2>5, <2>6
    <2> QED BY <2>2, <2>4, <2>5, <2>7, Zenon
  <1> DEFINE T == {i \in 0..n : \A j \in 0..i : Len(f[j]) <= Len(f[i])
                                   /\ \A k \in 1..Len(f[j]) : f[i][k] = f[j][k]}
  <1>2. \A i \in 0..n : Len(f[i]) \in Nat
    BY LenProperties
  <1>3. 0 \in T
    BY <1>2
  <1>4. ASSUME NEW i \in 0..n, i \in T, i < n PROVE i + 1 \in T
    <2>1. i + 1 \in 1..n /\ (i + 1) - 1 = i
      <3> HIDE DEF T
      <3> QED BY <1>4
    <2>2. /\ Len(f[i]) <= Len(f[i + 1])
          /\ \A k \in 1..Len(f[i]) : f[i + 1][k] = f[i][k]
      BY <1>1, <1>2, <2>1
    <2>3. ASSUME NEW j \in 0..(i + 1)
          PROVE  Len(f[j]) <= Len(f[i + 1]) /\ \A k \in 1..Len(f[j]) : f[i + 1][k] = f[j][k]
      <3>1. CASE j = i + 1
        BY <1>2, <2>1, <3>1
      <3>2. CASE j # i + 1
        <4>1. j \in 0..i
          BY <3>2
        <4>2. Len(f[j]) <= Len(f[i]) /\ \A k \in 1..Len(f[j]) : f[i][k] = f[j][k]
          BY <1>4, <4>1
        <4>3. /\ Len(f[j]) \in Nat /\ Len(f[i]) \in Nat /\ Len(f[i + 1]) \in Nat
          BY <1>2, <2>1, <4>1
        <4>4. \A k \in 1..Len(f[j]) : k \in 1..Len(f[i])
          BY <4>2, <4>3
        <4>5. \A k \in 1..Len(f[j]) : f[i + 1][k] = f[j][k]
          BY <2>2, <4>2, <4>4, Zenon
        <4> QED BY <2>2, <4>2, <4>3, <4>5
      <3> QED BY <3>1, <3>2
    <2>4. i + 1 \in 0..n
      <3> HIDE DEF T
      <3> QED BY <2>1
    <2> QED BY <2>3, <2>4, Zenon
  <1> HIDE DEF T
  <1>5. n \in T
    <2>1. 0..n \subseteq T
      BY <1>3, <1>4, AllUpTo, Zenon
    <2> QED BY <2>1
  <1>6. ASSUME NEW j \in 0..n
        PROVE  Len(f[j]) <= Len(f[n]) /\ \A k \in 1..Len(f[j]) : f[n][k] = f[j][k]
    BY <1>5 DEF T
  <1>7. ASSUME NEW j \in 1..n, NEW k \in 1..Len(ss[j])
        PROVE  f[n][Len(f[j - 1]) + k] = ss[j][k]
    <2>1. Len(f[j - 1]) + k \in 1..Len(f[j])
      BY <1>1
    <2>2. f[n][Len(f[j - 1]) + k] = f[j][Len(f[j - 1]) + k]
      <3>1. j \in 0..n
        OBVIOUS
      <3> QED BY <1>6, <2>1, <3>1, Zenon
    <2> QED BY <1>1, <2>2, Zenon
  <1> QED BY <1>1, <1>6, <1>7 DEF InPlace
-----------------------------------------------------------------------------
\* Names without the five characters are left as they are by htmlEscape.
LEMMA EscapeLeaves ==
    ASSUME NEW s \in Seq(Alphabet), Range(s) \cap DOMAIN Entity = {}
    PROVE  HtmlEscape(s) = s
  <1> DEFINE n == Len(s)
             ss == [i \in 1..n |-> <<s[i]>>]
  <1>1. n \in Nat /\ DOMAIN s = 1..n /\ \A i \in 1..n : s[i] \in Alphabet
    BY LenProperties, ElementOfSeq
  <1>2. \A i \in 1..n : s[i] \notin DOMAIN Entity
    BY <1>1 DEF Range
  <1>3. HtmlEscape(s) = FlattenSeq(ss)
    <2>1. [i \in 1..Len(s) |-> IF s[i] \in DOMAIN Entity THEN Entity[s[i]] ELSE <<s[i]>>] = ss
      BY <1>2, Zenon
    <2> QED BY <2>1, Zenon DEF HtmlEscape
  <1>4. ss \in [1..n -> Seq(Alphabet)]
    <2>1. ASSUME NEW i \in 1..n PROVE <<s[i]>> \in Seq(Alphabet)
      <3>1. \A c \in Alphabet : <<c>> \in Seq(Alphabet)
        OBVIOUS
      <3> QED BY <1>1, <3>1, Zenon
    <2> QED BY <2>1, Zenon
  <1> HIDE DEF n, ss
  <1>5. PICK f \in [0..n -> Seq(Alphabet)] : /\ f[0] = <<>>
                                             /\ \A i \in 1..n : f[i] = f[i - 1] \o ss[i]
                                             /\ FlattenSeq(ss) = f[n]
    BY <1>1, <1>4, FlattenIsALoop, Zenon
  <1> DEFINE T == {i \in 0..n : f[i] = SubSeq(s, 1, i)}
  <1>6. 0 \in T
    <2>1. SubSeq(s, 1, 0) = <<>>
      BY SubSeqEmpty
    <2> QED BY <1>1, <1>5, <2>1
  <1>7. ASSUME NEW i \in 0..n, i \in T, i < n PROVE i + 1 \in T
    <2>1. i + 1 \in 1..n /\ (i + 1) - 1 = i /\ i + 1 \in 0..n
      <3> HIDE DEF T
      <3> QED BY <1>1, <1>7
    <2>2. f[i + 1] = f[i] \o ss[i + 1] /\ f[i] = SubSeq(s, 1, i)
      BY <1>5, <1>7, <2>1
    <2>3. ss[i + 1] = <<s[i + 1]>>
      BY <2>1, Zenon DEF ss
    <2>4. 1 \in 1..Len(s) /\ i + 1 \in 1..Len(s)
      BY <1>1, <2>1 DEF n
    <2>5. SubSeq(s, 1, i + 1) = SubSeq(s, 1, (i + 1) - 1) \o <<s[i + 1]>>
      BY <2>4, SubSeqRecursiveSecond
    <2>6. f[i + 1] = SubSeq(s, 1, i + 1)
      BY <2>1, <2>2, <2>3, <2>5, Zenon
    <2> QED BY <2>1, <2>6
  <1> HIDE DEF T
  <1>8. n \in T
    <2>1. 0..n \subseteq T
      BY <1>1, <1>6, <1>7, AllUpTo, Zenon
    <2> QED BY <1>1, <2>1
  <1>9. f[n] = SubSeq(s, 1, n)
    BY <1>8 DEF T
  <1>10. SubSeq(s, 1, n) = s
    BY SubSeqFull DEF n
  <1> QED BY <1>3, <1>5, <1>9, <1>10

\* What encode writes for one character.
Piece(c) == IF c \in Unreserved THEN <<c>> ELSE Escaped(c)

LEMMA PiecesAreWritten ==
    ASSUME NEW c \in Alphabet
    PROVE  /\ Piece(c) \in Seq(Written)
           /\ c \in Unreserved => Len(Piece(c)) = 1 /\ Piece(c)[1] = c
           /\ c \notin Unreserved => Len(Piece(c)) = 3
  <1>1. CASE c \in Unreserved
    <2>1. Piece(c) = <<c>> /\ c \in Written
      BY <1>1 DEF Piece, Written
    <2>2. \A x \in Written : <<x>> \in Seq(Written) /\ Len(<<x>>) = 1 /\ <<x>>[1] = x
      OBVIOUS
    <2> QED BY <1>1, <2>1, <2>2
  <1>2. CASE c \notin Unreserved
    BY <1>2, EscapesAreRead DEF Piece
  <1> QED BY <1>1, <1>2

\* Url::decode gives back what Url::encode was given, percent signs, plus signs and
\* blanks included, however long it is: at the start of each piece that encode wrote,
\* decode reads its character and goes on at the next (url.h:11-44).
THEOREM DecodeUndoesEncode ==
    ASSUME NEW s \in Seq(Alphabet)
    PROVE  Decode(Encode(s)) = s
  <1> DEFINE n == Len(s)
             ss == [i \in 1..n |-> Piece(s[i])]
             t == Encode(s)
  <1>1. n \in Nat /\ \A i \in 1..n : s[i] \in Alphabet
    BY LenProperties, ElementOfSeq
  <1>2. t = FlattenSeq(ss)
    BY Zenon DEF Encode, Piece
  <1>3. ss \in [1..n -> Seq(Written)]
    BY <1>1, PiecesAreWritten, Zenon
  <1>4. \A i \in 1..n : ss[i] = Piece(s[i])
    OBVIOUS
  <1> HIDE DEF ss, t, n
  <1>5. PICK f \in [0..n -> Seq(Written)] : /\ f[0] = <<>>
                                            /\ \A i \in 1..n : f[i] = f[i - 1] \o ss[i]
                                            /\ FlattenSeq(ss) = f[n]
    BY <1>1, <1>3, FlattenIsALoop, Zenon
  <1>6. ASSUME NEW j \in 1..n
        PROVE  /\ Len(f[j]) = Len(f[j - 1]) + Len(ss[j])
               /\ Len(f[j]) <= Len(t)
               /\ \A k \in 1..Len(ss[j]) : t[Len(f[j - 1]) + k] = ss[j][k]
    <2>1. Appended(f, ss, n)
      BY <1>5 DEF Appended
    <2>2. InPlace(f, ss, n, j)
      BY <1>1, <1>3, <2>1, PiecesStay, Zenon
    <2>3. t = f[n]
      BY <1>2, <1>5
    <2> QED BY <2>2, <2>3, Zenon DEF InPlace
  <1>7. \A j \in 0..n : Len(f[j]) \in Nat
    BY LenProperties
  <1>8. Len(t) = Len(f[n]) /\ Len(t) \in Nat
    BY <1>1, <1>2, <1>5, <1>7
  <1>9. PICK from : /\ Decode(t) = from[1]
                    /\ \A i \in 1..(Len(t) + 3) : from[i] = DecodeFrom(t, from, i)
    BY <1>8, DecodeIsALoop
  <1> DEFINE T == {m \in 0..n : from[Len(f[n - m]) + 1] = SubSeq(s, n - m + 1, n)}
  <1>10. 0 \in T
    <2>1. from[Len(t) + 1] = DecodeFrom(t, from, Len(t) + 1)
      BY <1>8, <1>9
    <2>2. Len(t) + 1 > Len(t) /\ ~(Len(t) + 1 <= Len(t)) /\ ~((Len(t) + 1) + 2 <= Len(t))
      BY <1>8
    <2>3. DecodeFrom(t, from, Len(t) + 1) = <<>>
      BY <2>2 DEF DecodeFrom
    <2>4. SubSeq(s, n - 0 + 1, n) = <<>> /\ n - 0 = n /\ 0 \in 0..n
      BY <1>1, SubSeqEmpty
    <2> QED BY <1>8, <2>1, <2>3, <2>4
  <1>11. ASSUME NEW m \in 0..n, m \in T, m < n PROVE m + 1 \in T
    <2> DEFINE j == n - m
               p == Len(f[j - 1]) + 1
               c == s[j]
    <2>1. j \in 1..n /\ j - 1 = n - (m + 1) /\ m + 1 \in 0..n /\ j - 1 \in 0..n /\ j \in 0..n
      <3> HIDE DEF T
      <3> QED BY <1>1, <1>11
    <2>2. from[Len(f[j]) + 1] = SubSeq(s, j + 1, n)
      BY <1>11
    <2> HIDE DEF T
    <2>3. c \in Alphabet /\ ss[j] = Piece(c)
      BY <1>1, <1>4, <2>1
    <2>4. /\ p \in Nat \ {0}
          /\ Len(f[j]) + 1 = p + Len(ss[j])
          /\ Len(f[j]) <= Len(t)
          /\ Len(ss[j]) \in Nat
      <3>1. Len(f[j]) = Len(f[j - 1]) + Len(ss[j]) /\ Len(f[j]) <= Len(t)
        BY <1>6, <2>1, Zenon
      <3>2. Len(f[j - 1]) \in Nat
        BY <1>7, <2>1, Zenon
      <3>3. ss[j] \in Seq(Written)
        BY <1>3, <2>1
      <3>4. Len(ss[j]) \in Nat
        BY <3>3, LenProperties
      <3>5. PICK a, b, d, e : /\ a = Len(f[j - 1]) /\ b = Len(ss[j])
                              /\ d = Len(f[j]) /\ e = Len(t)
        OBVIOUS
      <3>6. a \in Nat /\ b \in Nat /\ d = a + b /\ d <= e
        BY <3>1, <3>2, <3>4, <3>5, Zenon
      <3>7. a + 1 \in Nat \ {0} /\ d + 1 = (a + 1) + b /\ d <= e /\ b \in Nat
        BY <3>6
      <3> QED BY <3>5, <3>7, Zenon
    <2>5. \A k \in 1..Len(ss[j]) : t[(p - 1) + k] = ss[j][k]
      <3>1. p - 1 = Len(f[j - 1])
        BY <1>7, <2>1
      <3> QED BY <1>6, <2>1, <3>1, Zenon
    <2> HIDE DEF p, c, j
    <2>6. from[p] = <<c>> \o from[p + Len(ss[j])]
      <3>1. CASE c \in Unreserved
        <4>1. Len(ss[j]) = 1 /\ ss[j][1] = c
          BY <2>3, <3>1, PiecesAreWritten
        <4>2. t[p] = c
          <5>1. 1 \in 1..Len(ss[j]) /\ (p - 1) + 1 = p
            BY <2>4, <4>1
          <5> QED BY <2>5, <4>1, <5>1
        <4>3. p \in 1..(Len(t) + 3) /\ p <= Len(t) /\ ~(p > Len(t))
          BY <1>8, <2>4, <4>1
        <4>4. c # "+" /\ c # "%"
          BY <3>1, UnreservedAreRead
        <4>5. DecodeFrom(t, from, p) = <<t[p]>> \o from[p + 1]
          BY <4>2, <4>3, <4>4, Zenon DEF DecodeFrom
        <4> QED BY <1>9, <4>1, <4>2, <4>3, <4>5
      <3>2. CASE c \notin Unreserved
        <4>1. /\ Len(ss[j]) = 3 /\ ss[j] = Escaped(c)
              /\ ss[j][1] = "%" /\ HasValue(ss[j][2], ss[j][3])
              /\ CharOf(PairValue(ss[j][2], ss[j][3])) = c
          BY <2>3, <3>2, EscapesAreRead DEF Piece
        <4>2. t[p] = "%" /\ t[p + 1] = ss[j][2] /\ t[p + 2] = ss[j][3]
          <5>1. /\ 1 \in 1..Len(ss[j]) /\ (p - 1) + 1 = p
                /\ 2 \in 1..Len(ss[j]) /\ (p - 1) + 2 = p + 1
                /\ 3 \in 1..Len(ss[j]) /\ (p - 1) + 3 = p + 2
            BY <2>4, <4>1
          <5> QED BY <2>5, <4>1, <5>1
        <4>3. /\ p \in 1..(Len(t) + 3) /\ p <= Len(t) /\ ~(p > Len(t))
              /\ p + 2 <= Len(t)
          BY <1>8, <2>4, <4>1
        <4>4. HasValue(t[p + 1], t[p + 2]) /\ CharOf(PairValue(t[p + 1], t[p + 2])) = c
          BY <4>1, <4>2
        <4>5. t[p] # "+"
          BY <4>2
        <4>6. DecodeFrom(t, from, p) = <<CharOf(PairValue(t[p + 1], t[p + 2]))>> \o from[p + 3]
          BY <4>2, <4>3, <4>4, <4>5 DEF DecodeFrom
        <4> QED BY <1>9, <4>1, <4>3, <4>4, <4>6
      <3> QED BY <3>1, <3>2
    <2>7. SubSeq(s, j, n) = <<s[j]>> \o SubSeq(s, j + 1, n)
      <3>1. j \in 1..Len(s) /\ n \in j..Len(s)
        BY <1>1, <2>1 DEF n
      <3> QED BY <3>1, SubSeqRecursiveFirst
    <2>8. from[Len(f[n - (m + 1)]) + 1] = SubSeq(s, n - (m + 1) + 1, n)
      <3>1. n - (m + 1) + 1 = j
        BY <1>1, <2>1
      <3>2. from[p] = SubSeq(s, j, n)
        BY <2>2, <2>4, <2>6, <2>7, Zenon DEF c
      <3> QED BY <2>1, <3>1, <3>2 DEF p
    <2> QED BY <2>1, <2>8 DEF T
  <1> HIDE DEF T
  <1>12. n \in T
    <2>1. 0..n \subseteq T
      BY <1>1, <1>10, <1>11, AllUpTo, Zenon
    <2> QED BY <1>1, <2>1
  <1>13. from[Len(f[n - n]) + 1] = SubSeq(s, n - n + 1, n)
    BY <1>12 DEF T
  <1>14. n - n = 0 /\ Len(f[n - n]) + 1 = 1 /\ n - n + 1 = 1
    <2>1. n - n = 0
      BY <1>1
    <2>2. Len(f[0]) = 0
      BY <1>5
    <2> QED BY <2>1, <2>2
  <1>15. SubSeq(s, 1, n) = s
    BY SubSeqFull DEF n
  <1>16. Decode(t) = s
    BY <1>9, <1>13, <1>14, <1>15, Zenon
  <1> QED BY <1>16 DEF t

LEMMA NothingBehind ==
    ASSUME NEW S, NEW s \in Seq(S)
    PROVE  s \o SubSeq(s, Len(s) + 1, Len(s)) = s
  <1>1. Len(s) \in Nat
    BY LenProperties
  <1>2. SubSeq(s, Len(s) + 1, Len(s)) = <<>>
    BY <1>1, SubSeqEmpty
  <1> QED BY <1>2, ConcatEmptySeq

\* The links of a listing that was asked for by the drive's URL as it is configured
\* lead back to its entries, whatever the URL and the names are, except for names
\* that htmlEscape changes: nothing is left of the request's prefix behind DriveUrl,
\* and Url::decode undoes Url::encode, for names of any length
\* (static_file.cpp:153,268-274,289-290, url.h:11-44).
THEOREM LinksLead == HandlingSpec => []LinksLeadBack
  <1>1. HandlingInit => HInv /\ LInv
    BY HandlingInitially, ListingInitially
  <1>2. HInv /\ LInv /\ [HandlingNext]_<<vars, handling>> => HInv' /\ LInv'
    BY HandlingSteps, ListingKept
  <1>3. LInv => LinksLeadBack
    <2> SUFFICES ASSUME LInv, phase = "done", response.body = "listing",
                        request.path.prefix = DriveUrl,
                        NEW e \in Range(entries), Range(e[1]) \cap DOMAIN Entity = {}
                 PROVE  LeadsBack(e)
      BY DEF LinksLeadBack
    <2> DEFINE link == Link(request.path, e)
    <2>1. e[1] \in Names
      BY DEF LInv, Complete, Entries
    <2>2. e[1] \in Seq(Alphabet)
      BY <2>1, HandlingAssumption
    <2>3. link.segment = Encode(e[1])
      BY <2>2, EscapeLeaves, Zenon DEF Link, Drive
    <2>4. Decode(link.segment) = e[1]
      BY <2>2, <2>3, DecodeUndoesEncode, Zenon
    <2>5. link.prefix = DriveUrl
      <3>1. link.prefix = DriveUrl \o SubSeq(DriveUrl, Len(DriveUrl) + 1, Len(DriveUrl))
        BY DEF Link, Drive
      <3> QED BY <3>1, NothingBehind, HandlingAssumption
    <2>6. link.area = "drive" /\ link.slash = (e[2] = "dir")
      BY DEF Link, Drive
    <2> QED BY <2>4, <2>5, <2>6, HandlingAssumption DEF LeadsBack, IsDriveUrl
  <1> QED BY <1>1, <1>2, <1>3, PTL DEF HandlingSpec
=============================================================================
