----------------------------- MODULE HttpCache ------------------------------
(***************************************************************************)
(* HttpFetcher.get and its on-disk cache (core/fetch.py), for one URL.     *)
(*                                                                         *)
(* The cache keeps two files per URL: the metadata with the page's tag     *)
(* (ETag, Last-Modified) and the body.  They are written one after the     *)
(* other, and read one after the other when a request begins.  Processes   *)
(* that share the directory may overlap, and may die or find the disk full *)
(* in the middle of a write.                                               *)
(*                                                                         *)
(* A version of the page stands for its text; the tag of a version is the  *)
(* version itself.  The server is honest: it answers "not modified" when,  *)
(* and only when, the request names the version it holds.                  *)
(***************************************************************************)
EXTENDS Naturals

CONSTANTS
  Fetchers,    \* processes that share the cache directory
  Versions,    \* contents the page may have
  Tagged,      \* those the server gives a tag to
  MaxRetries,
  MaxChanges,  \* bound: how often the page changes
  MaxGets,     \* bound: how many requests are begun
  Absent,      \* no such file, no text
  NoTag,       \* a page without a tag
  Cut          \* a file whose writing was cut short

VARIABLES
  page,      \* what the server holds
  meta,      \* the tag in the metadata file
  body,      \* the text in the body file
  at,        \* what each fetcher does next
  tag,       \* the tag it sends
  cached,    \* the body it has read before its first request
  attempt,   \* its requests so far
  reply,     \* the version its last reply carried
  answer,    \* what get has returned: where from, which text, which was right
  mixed,     \* the two files may not belong together
  suspect,   \* the fetcher may have read files that do not belong together
  changes, gets

httpVars == <<page, meta, body, at, tag, cached, attempt, reply, answer, mixed,
              suspect, changes, gets>>

ASSUME RetriesAssumption == MaxRetries \in Nat
ASSUME TaggedAssumption == Tagged \subseteq Versions
ASSUME MarkersAssumption == {Absent, NoTag, Cut} \cap Versions = {}
ASSUME HttpBoundsAssumption == MaxChanges \in Nat /\ MaxGets \in Nat

\* What a body holds, or an answer.
Texts == Versions \cup {Absent, Cut}

\* The page, the two files of its cache entry and what each fetcher has in hand have
\* their types.
HttpTypeOK ==
  /\ page \in Versions
  /\ meta \in Versions \cup {Absent, NoTag, Cut}
  /\ body \in Texts
  /\ at \in [Fetchers -> {"idle", "read", "send", "meta", "body"}]
  /\ tag \in [Fetchers -> Versions \cup {NoTag}]
  /\ cached \in [Fetchers -> Texts]
  /\ attempt \in [Fetchers -> 0..(MaxRetries + 1)]
  /\ reply \in [Fetchers -> Versions \cup {Absent}]
  /\ answer \in [Fetchers -> [from : {"nowhere", "cache", "server", "error"},
                              text : Texts, right : Versions \cup {Absent}]]
  /\ mixed \in BOOLEAN /\ suspect \subseteq Fetchers
  /\ changes \in 0..MaxChanges /\ gets \in 0..MaxGets

NoAnswer == [from |-> "nowhere", text |-> Absent, right |-> Absent]

HttpInit ==
  /\ page \in Versions
  /\ meta = Absent /\ body = Absent
  /\ at = [f \in Fetchers |-> "idle"]
  /\ tag = [f \in Fetchers |-> NoTag]
  /\ cached = [f \in Fetchers |-> Absent]
  /\ attempt = [f \in Fetchers |-> 0]
  /\ reply = [f \in Fetchers |-> Absent]
  /\ answer = [f \in Fetchers |-> NoAnswer]
  /\ mixed = FALSE /\ suspect = {}
  /\ changes = 0 /\ gets = 0

Step(f, s) == at' = [at EXCEPT ![f] = s]
TagOf(v) == IF v \in Tagged THEN v ELSE NoTag

\* Fetchers between the metadata and the body of a write, or of a read.
Writing == {f \in Fetchers : at[f] = "body"}
Reading == {f \in Fetchers : at[f] = "read"}

\* Touching a file spoils what another fetcher has half read or half written.
Spoil(f) ==
  /\ suspect' = suspect \cup (Reading \ {f})
  /\ mixed' = (mixed \/ Writing \ {f} # {})

files == <<meta, body, mixed>>
mine  == <<tag, cached, attempt, reply>>

PageChanges ==
  /\ changes < MaxChanges
  /\ page' \in Versions \ {page}
  /\ changes' = changes + 1
  /\ UNCHANGED <<files, mine, at, answer, suspect, gets>>
-----------------------------------------------------------------------------
(* _cache_read: metadata that is missing or does not parse is no cache, and  *)
(* so is a missing body.  A body that was cut short is read as it stands, or *)
(* no longer decodes: then get raises.                                       *)

ReadMeta(f) ==
  /\ at[f] = "idle" /\ gets < MaxGets
  /\ gets' = gets + 1
  /\ answer' = [answer EXCEPT ![f] = NoAnswer]
  /\ attempt' = [attempt EXCEPT ![f] = 0]
  /\ cached' = [cached EXCEPT ![f] = Absent]
  /\ suspect' = IF mixed \/ Writing # {} THEN suspect \cup {f}
                                         ELSE suspect \ {f}
  /\ IF meta \in {Absent, Cut}
     THEN Step(f, "send") /\ tag' = [tag EXCEPT ![f] = NoTag]
     ELSE Step(f, "read") /\ tag' = [tag EXCEPT ![f] = meta]
  /\ UNCHANGED <<files, page, reply, changes>>

ReadBody(f) ==
  /\ at[f] = "read"
  /\ cached' = [cached EXCEPT ![f] = body]
  /\ tag' = [tag EXCEPT ![f] = IF body = Absent THEN NoTag ELSE @]
  /\ Step(f, "send")
  /\ UNCHANGED <<files, page, attempt, reply, answer, suspect, changes, gets>>

Undecodable(f) ==
  /\ at[f] = "read" /\ body = Cut
  /\ Step(f, "idle")
  /\ answer' = [answer EXCEPT ![f].from = "error"]
  /\ UNCHANGED <<files, mine, page, suspect, changes, gets>>
-----------------------------------------------------------------------------
(* The request and its retries.                                              *)

Attempts(f) == at[f] = "send" /\ attempt[f] <= MaxRetries

\* Mutant of NotModified: the body is read when the answer has come.
NotModifiedRereads(f) ==
  /\ Attempts(f) /\ tag[f] = page
  /\ answer' = [answer EXCEPT
                  ![f] = [from |-> "cache", text |-> body, right |-> page]]
  /\ Step(f, "idle")
  /\ UNCHANGED <<files, mine, page, suspect, changes, gets>>

\* The body that was read before the request is the answer.
NotModified(f) ==
  /\ Attempts(f) /\ tag[f] = page
  /\ answer' = [answer EXCEPT
                  ![f] = [from |-> "cache", text |-> cached[f], right |-> page]]
  /\ Step(f, "idle")
  /\ UNCHANGED <<files, mine, page, suspect, changes, gets>>

FreshPage(f) ==
  /\ Attempts(f) /\ tag[f] # page
  /\ reply' = [reply EXCEPT ![f] = page]
  /\ Step(f, "meta")
  /\ UNCHANGED <<files, page, tag, cached, attempt, answer, suspect, changes,
                 gets>>

\* No answer, or a status that asks to come back later.
Retry(f) ==
  /\ Attempts(f)
  /\ attempt' = [attempt EXCEPT ![f] = @ + 1]
  /\ UNCHANGED <<files, page, at, tag, cached, reply, answer, suspect, changes,
                 gets>>

\* Another error status, a missing CA bundle, or no attempt left.
GiveUp(f) ==
  /\ at[f] = "send"
  /\ answer' = [answer EXCEPT ![f].from = "error"]
  /\ Step(f, "idle")
  /\ UNCHANGED <<files, mine, page, suspect, changes, gets>>
-----------------------------------------------------------------------------
(* _cache_write.                                                             *)

Live(f) == [from |-> "server", text |-> reply[f], right |-> reply[f]]

WriteMeta(f) ==
  /\ at[f] = "meta"
  /\ meta' = TagOf(reply[f])
  /\ Spoil(f)
  /\ Step(f, "body")
  /\ UNCHANGED <<mine, page, body, answer, changes, gets>>

\* A write that nobody has disturbed leaves two files that belong together.
WriteBody(f) ==
  /\ at[f] = "body"
  /\ body' = reply[f]
  /\ suspect' = suspect \cup (Reading \ {f})
  /\ mixed' = (Writing # {f} \/ (mixed /\ meta # TagOf(reply[f])))
  /\ answer' = [answer EXCEPT ![f] = Live(f)]
  /\ Step(f, "idle")
  /\ UNCHANGED <<mine, page, meta, changes, gets>>

\* The write of a file fails, or the process dies at it: the file keeps what it
\* had or holds a part of the new text.  A failed write is no failed get.
Tear(f) ==
  /\ \/ at[f] = "meta" /\ meta' \in {meta, Cut} /\ UNCHANGED body
     \/ at[f] = "body" /\ body' \in {body, Cut} /\ UNCHANGED meta
  /\ suspect' = suspect \cup (Reading \ {f})
  /\ mixed' = (mixed \/ at[f] = "body" \/ Writing # {})
  /\ answer' \in {answer, [answer EXCEPT ![f] = Live(f)]}
  /\ Step(f, "idle")
  /\ UNCHANGED <<mine, page, changes, gets>>

Fetch(f) ==
  \/ ReadMeta(f) \/ ReadBody(f) \/ Undecodable(f)
  \/ NotModified(f) \/ FreshPage(f) \/ Retry(f) \/ GiveUp(f)
  \/ WriteMeta(f) \/ WriteBody(f) \/ Tear(f)

HttpNext == PageChanges \/ \E f \in Fetchers : Fetch(f)

HttpSpec == HttpInit /\ [][HttpNext]_httpVars
-----------------------------------------------------------------------------
\* What the cache answers is what the server held when it said "not modified",
\* unless the fetcher read files that a cut, failed or overlapping write has
\* paired wrongly: no change of the page during the request, no retry and no
\* earlier error is enough.
CacheAnswersRight ==
  \A f \in Fetchers :
    answer[f].from = "cache" /\ f \notin suspect
      => answer[f].text = answer[f].right
=============================================================================
