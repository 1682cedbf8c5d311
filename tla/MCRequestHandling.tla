--------------------------- MODULE MCRequestHandling ---------------------------
(* Instances of RequestHandling, and of the RequestParsing it extends, for  *)
(* TLC.                                                                     *)
EXTENDS RequestHandling, TLC

MCClients == {"anna", "ben"}
MCOwner == [k \in Cookies |-> IF k = "s2" THEN "ben" ELSE "anna"]

\* Each browser has a cookie of an earlier session, or neither has one.
MCFirstJar == {[c \in MCClients |-> IF c = "anna" THEN "s1" ELSE "s2"],
               [c \in MCClients |-> None]}

\* A page whose name htmlEscape changes; a name of which decode would make another.
page   == <<"&">>
tricky == <<"%", "2", "5", "+">>
MCNames     == {page, tricky}
MCHtmlNames == {page}

\* The URL of the drive, the same as a client may encode it, and a way around it.
MCDriveUrl == <<"p", "o">>
encoded    == <<"%", "7", "0", "o">>
around     == <<"other">>

\* The two names, as a browser writes them.
pageSegment   == <<"%", "2", "6">>
trickySegment == <<"%", "2", "5", "2", "5", "%", "2", "B">>

PathsOf(prefixes, segments) ==
    {Drive(x, s, b) : x \in prefixes, s \in segments, b \in BOOLEAN}

MCDrivePaths == PathsOf({MCDriveUrl}, {<<>>, pageSegment, trickySegment})
                \cup PathsOf({encoded}, {<<>>}) \cup PathsOf({around}, {pageSegment})

MCTrees == {[n \in MCNames |-> IF n = page THEN "file" ELSE "dir"],
            [n \in MCNames |-> "none"]}
=============================================================================
