---------------------------- MODULE ToolPolicies ----------------------------
(***************************************************************************)
(* How operations of the Magic Hour API become tools.  A daily job fetches *)
(* the published OpenAPI document, tests the server with it and updates a  *)
(* pull request; merging it merges the changes of the job, which may have  *)
(* begun before an earlier merge.  A deployment builds its tools from the  *)
(* merged document: apply_magic_hour_policies adds guidance to descriptions,  *)
(* customize_openapi_component sets the submission hints.                  *)
(*                                                                         *)
(* A document maps the names of tools, which normalize_mcp_tool_name makes *)
(* of operation ids, to operations.  Of an operation remain its method,    *)
(* the kind of its path, whether it has a project tag, and whether its     *)
(* description holds MCP guidance of its own.                              *)
(***************************************************************************)
EXTENDS Naturals

CONSTANTS Names,          \* of tools that operations of the API can have
          ShortNames,     \* those with less than 4 characters
          Operations,     \* what the API may publish under a name
          Submitted,      \* the document the tests and the submission were written for
          LoggingCounts,  \* DIAGNOSTIC_LOGGING_COUNTS_AS_WRITE
          MaxChanges,     \* bound: changes to the published document
          None            \* no such operation, no hints, no document

Methods == {"GET", "POST", "PUT", "PATCH", "DELETE"}
Paths == {"account", "face detail", "project", "upload", "face", "generation", "other"}

Documents == [Names -> Operations \cup {None}]
\* A document and the one it was checked out over.
Changes == [doc : Documents, base : Documents]
\* tool_annotations refuses to call a tool both read-only and destructive.
Hints == {h \in [readOnly : BOOLEAN, destructive : BOOLEAN] : ~(h.readOnly /\ h.destructive)}

ASSUME PoliciesAssumption ==
  /\ Operations \subseteq [method : Methods, path : Paths, tagged : BOOLEAN, guided : BOOLEAN]
  /\ Submitted \in Documents
  /\ ShortNames \subseteq Names
  /\ LoggingCounts \in BOOLEAN
  /\ MaxChanges \in Nat
  /\ None \notin Operations \cup Hints \cup Changes

VARIABLES published,      \* the document at docs.magichour.ai
          fetched,        \* the one the running sync job has fetched, and the one it replaces
          branch,         \* the same of the open pull request
          plain,          \* docs/openapi.json
          zipped,         \* docs/openapi.json.gz
          live,           \* the tools of the deployed server
          changes         \* how often the published document has changed

vars == <<published, fetched, branch, plain, zipped, live, changes>>

Tools == [does : Operations, hints : Hints \cup {None}, says : {"reads", "writes", "nothing"}]

TypeOK ==
  /\ {published, plain, zipped} \subseteq Documents
  /\ {fetched, branch} \subseteq Changes \cup {None}
  /\ DOMAIN live \subseteq Names \ ShortNames
  /\ live \in [DOMAIN live -> Tools]
  /\ changes \in 0..MaxChanges
-----------------------------------------------------------------------------
(* The policies. *)

AnyMethod(o) == o.path \in {"account", "face detail", "project"}   \* mutant
\* is_read_operation: GET of one of the READ_ONLY_GET_PATHS.
IsRead(o) == o.method = "GET" /\ o.path \in {"account", "face detail", "project"}

ReadOnlyHint(read) == read /\ ~LoggingCounts

\* supported, in customize_openapi_component.
IsReviewed(o) ==
  \/ IsRead(o)
  \/ o.method = "DELETE" /\ o.path = "project"
  \/ o.method = "POST" /\ o.path \in {"upload", "face"}
  \/ o.method = "POST" /\ o.path = "generation" /\ o.tagged

\* tool_annotations; FastMCP catches the ValueError for what was not reviewed
\* and keeps the tool without hints.
Annotations(o) ==
  IF IsReviewed(o) THEN [readOnly |-> ReadOnlyHint(IsRead(o)), destructive |-> o.method = "DELETE"]
                   ELSE None

\* What the description says of logging; a description that has guidance of its
\* own gets none.
Guidance(o) ==
  CASE o.guided                             -> "nothing"
    [] ~o.guided /\ ReadOnlyHint(IsRead(o)) -> "reads"
    [] OTHER                                -> "writes"

NamesIn(doc) == {n \in Names : doc[n] # None}

\* create_mcp fails on a name that is too short.
Starts(doc) == NamesIn(doc) \cap ShortNames = {}

Build(doc) ==
  [n \in NamesIn(doc) |->
     [does |-> doc[n], hints |-> Annotations(doc[n]), says |-> Guidance(doc[n])]]

\* test_submission_matches_exposed_tools.
SubmissionMatches(doc) == NamesIn(doc) = NamesIn(Submitted)

AreWrites(n) == Submitted[n] # None /\ ~IsRead(Submitted[n])

\* tests/test_openapi*.py: the tools are those of the submission, and each has
\* the hints and the guidance that the tests list for its name.
ChecksNamesOnly(doc) == ~LoggingCounts /\ Starts(doc) /\ SubmissionMatches(doc)   \* mutant
TestsPass(doc) ==
  /\ ~LoggingCounts
  /\ Starts(doc)
  /\ SubmissionMatches(doc)
  /\ \A n \in NamesIn(doc) :
       LET tool == Build(doc)[n]
       IN  /\ tool.hints = [readOnly |-> ~AreWrites(n),
                            destructive |-> Submitted[n].method = "DELETE"]
           /\ tool.says = IF AreWrites(n) THEN "writes" ELSE "reads"

Init ==
  /\ published = Submitted
  /\ fetched = None
  /\ branch = None
  /\ plain = Submitted
  /\ zipped = Submitted
  /\ live = Build(Submitted)
  /\ changes = 0
-----------------------------------------------------------------------------
\* Magic Hour adds, changes, renames or withdraws an operation.
Publish(n, o) ==
  /\ changes < MaxChanges
  /\ published' = [published EXCEPT ![n] = o]
  /\ published' # published
  /\ changes' = changes + 1
  /\ UNCHANGED <<fetched, branch, plain, zipped, live>>

\* The sync job; one runs at a time.
Fetch ==
  /\ fetched = None
  /\ fetched' = [doc |-> published, base |-> plain]
  /\ UNCHANGED <<published, branch, plain, zipped, live, changes>>

\* Tests pass and something has changed: the pull request gets the document.
UpdatePullRequest ==
  /\ fetched # None
  /\ TestsPass(fetched.doc)
  /\ fetched.doc # fetched.base
  /\ branch' = fetched
  /\ fetched' = None
  /\ UNCHANGED <<published, plain, zipped, live, changes>>

\* The job fails in its tests, or finds nothing new; an older pull request stays.
EndJob ==
  /\ fetched # None
  /\ ~TestsPass(fetched.doc) \/ fetched.doc = fetched.base
  /\ fetched' = None
  /\ UNCHANGED <<published, branch, plain, zipped, live, changes>>

\* git takes the side that has changed an operation, if not both have.
Merge ==
  /\ branch # None
  /\ \A n \in Names : \/ branch.doc[n] = branch.base[n]
                      \/ plain[n] \in {branch.base[n], branch.doc[n]}
  /\ plain' = [n \in Names |-> IF branch.doc[n] = branch.base[n] THEN plain[n] ELSE branch.doc[n]]
  /\ branch' = None
  /\ UNCHANGED <<published, fetched, zipped, live, changes>>

\* load_openapi_spec takes the zipped sibling where an upload leaves out the
\* plain file; a server that does not start replaces nothing.
Deploy(doc) ==
  /\ Starts(doc)
  /\ live' = Build(doc)
  /\ UNCHANGED <<published, fetched, branch, plain, zipped, changes>>

Next ==
  \/ \E n \in Names, o \in Operations \cup {None} : Publish(n, o)
  \/ Fetch
  \/ UpdatePullRequest
  \/ EndJob
  \/ Merge
  \/ \E doc \in {plain, zipped} : Deploy(doc)

Spec == Init /\ [][Next]_vars

\* An operator may point MAGIC_HOUR_OPENAPI_PATH at a document that no test saw.
OperatorSpec == Init /\ [][Next \/ Deploy(published)]_vars
-----------------------------------------------------------------------------
(* Whatever Magic Hour publishes, a tool that the sync brings into service *)
(* has been reviewed and still is what was reviewed under its name: a read *)
(* stays a read and only what deletes is declared destructive, although    *)
(* the policies go by method and path, and the tests and the submission by *)
(* name.                                                                   *)
OnlyReviewedLive ==
  /\ DOMAIN live = NamesIn(Submitted)
  /\ \A n \in DOMAIN live :
       /\ live[n].hints # None
       /\ IsReviewed(live[n].does)
       /\ live[n].hints.readOnly = (live[n].does.method = "GET")
       /\ live[n].hints.destructive = (live[n].does.method = "DELETE")
       /\ live[n].does.method = "GET" <=> Submitted[n].method = "GET"
       /\ live[n].does.method = "DELETE" <=> Submitted[n].method = "DELETE"

(* Each live tool tells its reader what its hint tells the client: that it *)
(* only reads, or that it writes.                                          *)
SaysWhatItHints ==
  \A n \in DOMAIN live :
    live[n].hints # None => live[n].says = IF live[n].hints.readOnly THEN "reads" ELSE "writes"

(* Fail closed when the OpenAPI sync introduces a new kind of operation    *)
(* (comment in customize_openapi_component): the server does not expose    *)
(* what was not reviewed.                                                  *)
FailsClosed ==
  \A n \in DOMAIN live : IsReviewed(live[n].does)
=============================================================================
