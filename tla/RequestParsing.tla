---------------------------- MODULE RequestParsing ----------------------------
(***************************************************************************)
(* How a request is put together from what recv returns and taken apart    *)
(* again: Connection::tryParse with HttpRequest (src/core/http_request.cpp)*)
(* and, for an upload, MultipartParser (src/utils/multipart_parser.cpp).   *)
(* One connection, which one worker at a time serves (module SkyServer).   *)
(*                                                                         *)
(* Lengths are in units: a header of HeaderLen units, blank line included, *)
(* and one unit per section of the body.  A section is what lies between   *)
(* two boundaries with the second one (the first section has both), and    *)
(* size_t has the values 0 .. Wrap - 1.                                    *)
(***************************************************************************)
EXTENDS Naturals, Sequences, SequencesExt

CONSTANTS HeaderLen, Wrap,
          Types,         \* values of Content-Type
          DefaultType,   \* application/octet-stream
          None,          \* a header field that is not there
          MaxSections    \* bound on the sections of a body

ASSUME ParsingAssumption ==
    /\ HeaderLen \in Nat \ {0}
    /\ Wrap \in Nat /\ HeaderLen + MaxSections < Wrap
    /\ MaxSections \in Nat
    /\ None \notin Types \cup {DefaultType, "field", "file"}

\* Of a section: the end of its header is found; what its Content-Disposition
\* says it is; its Content-Type.
Section == [headed : BOOLEAN, disposition : {None, "field", "file"},
            type : Types \cup {None}]

\* A request: how tryParse answers what parseHeader throws (400 for a request line
\* that is not complete or a Content-Length that is no number, 500 for one that is
\* too large), if it throws; its Content-Length, 0 if there is none; its body.
Message == [error : {None, 400, 500},
            length : 0..(Wrap - 1),
            body : UNION {[1..n -> Section] : n \in 0..MaxSections}]

VARIABLES
    message,   \* what the client sends
    sent,      \* units of it that are on their way or have arrived
    buffered,  \* size of request_buffer_
    parsed,    \* header_parsed_
    answer     \* the status and the parts of the form, or None

vars == <<message, sent, buffered, parsed, answer>>

Init == /\ message \in Message
        /\ sent = 0
        /\ buffered = 0
        /\ parsed = FALSE
        /\ answer = None

Smaller(a, b) == IF a < b THEN a ELSE b
Answer(status, items) == [status |-> status, items |-> items]
-----------------------------------------------------------------------------
(* MultipartParser.                                                        *)

NoFields == [disposition |-> None, type |-> None]

\* A mistake to be caught: fields of earlier sections win.
Merge_KeepsOld(headers, s) ==
    [f \in {"disposition", "type"} |-> IF headers[f] = None THEN s[f] ELSE headers[f]]

\* parseHeaders: headers_ is not cleared, a field that is missing keeps the value
\* it had in an earlier section.
Merge(headers, s) ==
    [f \in {"disposition", "type"} |-> IF s[f] = None THEN headers[f] ELSE s[f]]

\* A mistake to be caught: a file without a Content-Type keeps none.
Item_NoDefault(headers) ==
    CASE headers.disposition = None    -> <<>>
      [] headers.disposition = "field" -> <<[kind |-> "field"]>>
      [] headers.disposition = "file"  -> <<[kind |-> "file", type |-> headers.type]>>

\* What a section with these header fields adds to files_ or fields_.
Item(headers) ==
    CASE headers.disposition = None    -> <<>>
      [] headers.disposition = "field" -> <<[kind |-> "field"]>>
      [] headers.disposition = "file"  ->
            <<[kind |-> "file", type |-> IF headers.type = None THEN DefaultType
                                         ELSE headers.type]>>

\* One iteration of parse: st is headers_ and what was found so far.
ParseSection(st, s) ==
    IF ~s.headed THEN st
    ELSE LET h == Merge(st.headers, s)
         IN [headers |-> h, items |-> st.items \o Item(h)]

Parse(body) == FoldLeft(ParseSection, [headers |-> NoFields, items |-> <<>>], body).items
-----------------------------------------------------------------------------
(* HttpRequest.                                                            *)

\* Mistakes to be caught: the length of the header is forgotten; its blank line is
\* counted twice.
TotalExpectedLength_BodyOnly(m)   == m.length
TotalExpectedLength_BlankTwice(m) == (HeaderLen + 1 + m.length) % Wrap

\* totalExpectedLength, in the arithmetic of size_t.
TotalExpectedLength(m) == (HeaderLen + m.length) % Wrap

\* parseBody: substr stops at the end of the buffer.
Body(m, n) == SubSeq(m.body, 1, Smaller(n - HeaderLen, m.length))
-----------------------------------------------------------------------------
(* Connection.                                                             *)

\* The client sends some more.
SendUnits == /\ answer = None
             /\ \E n \in (sent + 1)..(HeaderLen + Len(message.body)) : sent' = n
             /\ UNCHANGED <<message, buffered, parsed, answer>>

\* handleRead: recv until EAGAIN, then tryParse on all that is there.
TryParse ==
    /\ answer = None
    /\ buffered < sent
    /\ buffered' = sent
    /\ \/ /\ ~parsed /\ sent < HeaderLen
          /\ UNCHANGED <<parsed, answer>>
       \/ /\ ~parsed /\ sent >= HeaderLen /\ message.error # None
          /\ answer' = Answer(message.error, <<>>)
          /\ UNCHANGED parsed
       \/ /\ parsed \/ (sent >= HeaderLen /\ message.error = None)
          /\ parsed' = TRUE
          /\ IF sent < TotalExpectedLength(message)
             THEN UNCHANGED answer
             ELSE answer' = Answer(200, Parse(Body(message, sent)))
    /\ UNCHANGED <<message, sent>>

Next == SendUnits \/ TryParse

Spec == Init /\ [][Next]_vars

\* The client sends what it has to send, and the workers run.
FairSpec == Spec /\ WF_vars(SendUnits) /\ WF_vars(TryParse)
-----------------------------------------------------------------------------
TypeOK ==
    /\ message \in Message
    /\ sent \in 0..(HeaderLen + MaxSections)
    /\ buffered \in 0..sent
    /\ parsed \in BOOLEAN
    /\ answer # None =>
          /\ answer.status \in {200, 400, 500}
          /\ \A i \in 1..Len(answer.items) : answer.items[i] \in
                [kind : {"field"}] \cup [kind : {"file"}, type : Types \cup {DefaultType}]

\* The body the client declared, as far as it has one.
Declared == SubSeq(message.body, 1, Smaller(message.length, Len(message.body)))

\* The lengths add up without wrapping around.
Fits == HeaderLen + message.length < Wrap

\* The answer is a function of the request: it does not depend on how recv cuts
\* it into segments, and is not given before the declared body is there.  A
\* Content-Length that makes totalExpectedLength wrap around is excepted
\* (connection.cpp:101-117, http_request.cpp:54-69).
AnswerIsOfTheWholeRequest ==
    answer # None /\ Fits =>
        answer = IF message.error # None
                 THEN Answer(message.error, <<>>)
                 ELSE Answer(200, Parse(Declared))

\* What a section with these fields, and no other section, means.
Own(s) == IF s.headed THEN Item([disposition |-> s.disposition, type |-> s.type])
          ELSE <<>>

\* Every field that a section has, the later ones have too.
Uniform(body) ==
    \A i, j \in 1..Len(body) : (i < j /\ body[i].headed /\ body[j].headed) =>
        /\ body[i].disposition # None => body[j].disposition # None
        /\ body[i].type # None => body[j].type # None

\* Each section is read by its own header, and in order, unless a section leaves
\* out a field that an earlier one had (multipart_parser.cpp:48-62,83).
SectionsAreRead ==
    answer # None /\ answer.status = 200 /\ Fits /\ Uniform(Declared)
        => answer.items = FlattenSeq([i \in 1..Len(Declared) |-> Own(Declared[i])])

\* A request that is all there, as it declares, is answered.
WholeRequestIsAnswered ==
    (message.error # None \/ message.length <= Len(message.body)) ~> answer # None
=============================================================================
