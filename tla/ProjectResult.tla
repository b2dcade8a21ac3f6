---------------------------- MODULE ProjectResult ----------------------------
(***************************************************************************)
(* What a wait tool makes of a project it has waited for, and what a       *)
(* fetch_<type>_download tool makes of one URL: media are downloaded in    *)
(* pieces from hosts that may refuse, stop, or send too much, and the      *)
(* result must tell the client what became of every download.              *)
(*                                                                         *)
(* A download of a project is what its entry in the project's JSON holds:  *)
(* a URL on a media host, a URL elsewhere, or none.  Downloads are named   *)
(* by their position in that list.  Wording is left out; a text block is   *)
(* its meaning and its number.                                             *)
(***************************************************************************)
EXTENDS Naturals, Sequences, FiniteSets, SequencesExt

CONSTANTS MaxDownloads,     \* bound: entries of a project
          InlineLimits,     \* max_inline_downloads a client may ask for
          ByteLimits,       \* max_bytes a client may ask for
          MaxChunk          \* bound: bytes that arrive at once

ASSUME BoundsAssumption ==
  /\ MaxDownloads \in Nat
  /\ InlineLimits \subseteq Nat /\ ByteLimits \subseteq Nat
  /\ MaxChunk \in Nat \ {0}

VARIABLES tool,         \* the call: which tool, for which type, with which limits
          project,      \* status and downloads
          at,           \* how far the call is
          turn,         \* place of the current download in the project's URLs
          got,          \* bytes of it so far
          content       \* blocks of the result so far

vars == <<tool, project, at, turn, got, content>>

Statuses == {"complete", "error", "canceled", "timeout"}
Entries == {"media", "elsewhere", "none"}
Tools == [name : {"wait", "fetch"}, type : {"image", "video"}, include : BOOLEAN,
          limit : InlineLimits, maxBytes : ByteLimits]
Blocks == {"status", "guidance", "no_urls", "media", "failed", "remaining"}
Block(b, n) == [block |-> b, n |-> n]

TypeOK ==
  /\ tool \in Tools
  /\ project.status \in Statuses /\ project.downloads \in Seq(Entries)
  /\ at \in {"called", "next", "opening", "streaming", "done", "raised"}
  /\ turn \in 1..MaxDownloads + 1
  /\ got \in 0..tool.maxBytes
  /\ content \in Seq([block : Blocks, n : Nat])

\* A wait ends with a project, or with its timeout and no downloads; a fetch is
\* called with one URL.
Init ==
  /\ tool \in Tools
  /\ project \in [status : {"complete"}, downloads : SeqOf(Entries, MaxDownloads)]
                 \cup [status : Statuses \ {"complete"}, downloads : {<<>>}]
  /\ tool.name = "fetch" => project.downloads \in {<<"media">>, <<"elsewhere">>}
  /\ at = "called"
  /\ turn = 1
  /\ got = 0
  /\ content = <<>>
-----------------------------------------------------------------------------
WithUrl == {n \in DOMAIN project.downloads : project.downloads[n] # "none"}

\* The positions of the entries with a URL, from first to last.
DownloadUrls ==
  CHOOSE urls \in [1..Cardinality(WithUrl) -> WithUrl] :
    \A i, j \in DOMAIN urls : i < j => urls[i] < urls[j]

CanInline == tool.include /\ tool.limit > 0 /\ tool.type = "image"

StatusText == <<Block("status", Len(DownloadUrls))>>

Guidance ==
  IF project.status = "complete" /\ DownloadUrls # <<>> THEN <<Block("guidance", 0)>> ELSE <<>>

\* Only said where nothing could be inlined anyway.
NoUrlsText ==
  IF project.status = "complete" /\ ~CanInline /\ DownloadUrls = <<>>
  THEN <<Block("no_urls", 0)>> ELSE <<>>

StartWait ==
  /\ at = "called" /\ tool.name = "wait"
  /\ content' = StatusText \o Guidance \o NoUrlsText
  /\ at' = IF project.status = "complete" /\ CanInline THEN "next" ELSE "done"
  /\ UNCHANGED <<tool, project, turn, got>>

StartFetch ==
  /\ at = "called" /\ tool.name = "fetch"
  /\ at' = "opening"
  /\ UNCHANGED <<tool, project, turn, got, content>>

Remaining == IF Len(DownloadUrls) > tool.limit THEN Len(DownloadUrls) - tool.limit ELSE 0

NextDownload ==
  /\ at = "next"
  /\ \/ /\ turn <= Len(DownloadUrls) /\ turn <= tool.limit
        /\ at' = "opening"
        /\ UNCHANGED content
     \/ /\ turn > Len(DownloadUrls) \/ turn > tool.limit
        /\ at' = "done"
        /\ content' = content \o (IF Remaining > 0 THEN <<Block("remaining", Remaining)>> ELSE <<>>)
  /\ got' = 0
  /\ UNCHANGED <<tool, project, turn>>

\* _media_content of a finished download; a fetch returns it and is done.
Deliver(n) ==
  /\ content' = Append(content, Block("media", n))
  /\ IF tool.name = "fetch" THEN at' = "done" /\ UNCHANGED turn
                            ELSE at' = "next" /\ turn' = turn + 1

StopsAtFailure ==                                           \* mutant
  /\ content' = Append(content, Block("failed", turn))
  /\ IF tool.name = "fetch" THEN at' = "raised" ELSE at' = "done"
  /\ UNCHANGED turn
\* An exception of _fetch_media_bytes: it ends a fetch, but not a wait.
Failed ==
  IF tool.name = "fetch" THEN at' = "raised" /\ UNCHANGED <<turn, content>>
  ELSE /\ content' = Append(content, Block("failed", turn))
       /\ at' = "next"
       /\ turn' = turn + 1

Acceptable == tool.maxBytes > 0 /\ project.downloads[DownloadUrls[turn]] = "media"

Open ==
  /\ at = "opening"
  /\ \/ Acceptable /\ at' = "streaming" /\ UNCHANGED <<turn, content>>
     \/ Failed                      \* refused by the server, or by the host
  /\ UNCHANGED <<tool, project, got>>

ComparesPiece ==                                            \* mutant
  /\ at = "streaming"
  /\ \E c \in 1..MaxChunk :
       \/ c <= tool.maxBytes /\ got' = c /\ UNCHANGED <<at, turn, content>>
       \/ c > tool.maxBytes /\ Failed /\ got' = 0
  /\ UNCHANGED <<tool, project>>
ChecksBefore ==                                             \* mutant
  /\ at = "streaming"
  /\ \/ got <= tool.maxBytes /\ (\E c \in 1..MaxChunk : got' = got + c) /\ UNCHANGED <<at, turn, content>>
     \/ got > tool.maxBytes /\ Failed /\ got' = 0
  /\ UNCHANGED <<tool, project>>
\* A piece arrives; as soon as there are too many bytes the download fails.
Chunk ==
  /\ at = "streaming"
  /\ \E c \in 1..MaxChunk :
       \/ got + c <= tool.maxBytes /\ got' = got + c /\ UNCHANGED <<at, turn, content>>
       \/ got + c > tool.maxBytes /\ Failed /\ got' = 0
  /\ UNCHANGED <<tool, project>>

EndOfMedia ==
  /\ at = "streaming"
  /\ Deliver(turn)
  /\ UNCHANGED <<tool, project, got>>

\* The connection breaks, or nothing arrives for API_TIMEOUT.
StreamBreaks ==
  /\ at = "streaming"
  /\ Failed /\ got' = 0
  /\ UNCHANGED <<tool, project>>

Next == StartWait \/ StartFetch \/ NextDownload \/ Open \/ Chunk \/ EndOfMedia \/ StreamBreaks

Spec == Init /\ [][Next]_vars

\* The handler runs, and a host that stays silent is given up: something
\* happens to every download, although a host may never stop sending.
FairSpec == Spec /\ WF_vars(Next)
-----------------------------------------------------------------------------
(* A wait never fails because of a download, and its result accounts for   *)
(* every one, whichever of them failed: it is there, or reported as        *)
(* failed, once and in its place, or counted as not inlined                *)
(* (_project_to_tool_result).                                              *)
AllAccountedFor ==
  tool.name = "wait" =>
    /\ at # "raised"
    /\ at = "done" /\ project.status = "complete" /\ CanInline =>
         LET told == {k \in DOMAIN content : content[k].block \in {"media", "failed"}}
             left == {k \in DOMAIN content : content[k].block = "remaining"}
         IN  \E rest \in 0..Len(DownloadUrls) :
               /\ {content[k].n : k \in told} = 1..Len(DownloadUrls) - rest
               /\ \A j, k \in told : j < k => content[j].n < content[k].n
               /\ {content[k].n : k \in left} = {rest} \ {0}
               /\ \A j, k \in left : j = k

(* Every call ends, even if a host never stops sending: _fetch_media_bytes *)
(* counts while it receives.                                               *)
CallEnds == at = "called" ~> at \in {"done", "raised"}
=============================================================================
