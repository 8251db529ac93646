----------------------------- MODULE SourceFetch ----------------------------
(***************************************************************************)
(* The download of the subscription sources by the collector (main.rs): a  *)
(* loop of requests per source that follows redirects by hand and retries  *)
(* what may pass, with at most Downloads loops under way.                  *)
(***************************************************************************)
EXTENDS Naturals, FiniteSets

CONSTANTS Sources,       \* positions in sources.txt
          Bodies,        \* sets of configurations a source may hold
          MaxRedirects,  \* MAX_SOURCE_REDIRECTS
          Retries,       \* SOURCE_RETRIES
          Downloads      \* DOWNLOAD_CONCURRENCY

ASSUME FetchAssumption ==
  /\ Sources \subseteq Nat
  /\ MaxRedirects \in Nat /\ Retries \in Nat /\ Downloads \in Nat \ {0}

VARIABLE fetch           \* the download of each source

\* A URL that parses, with the port it is asked at.
Urls  == [scheme : {"http", "https"}, port : {80, 443, 8080}]
Ended == {"success", "failed", "gone"}

\* A download that is not under way; its URLs say nothing.
Idle(state, configs) ==
  LET any == [scheme |-> "https", port |-> 443] IN
  [state |-> state, url |-> any, listed |-> any, attempt |-> 0, hops |-> 0,
   requests |-> 0, configs |-> configs]

FetchInit == fetch = [s \in Sources |-> Idle("waiting", {})]

Running == {s \in Sources : fetch[s].state = "running"}

\* The next source of the list takes a free place.
Takes(s) ==
  /\ fetch[s].state = "waiting"
  /\ \A t \in Sources : fetch[t].state = "waiting" => s <= t
  /\ Cardinality(Running) < Downloads

End(s, state, configs) == fetch' = [fetch EXCEPT ![s] = Idle(state, configs)]

\* safe_source_client: the host resolves to a public address, which the client
\* is then bound to, or the source is rejected; so is an invalid URL.
Start(s) ==
  /\ Takes(s)
  /\ \/ \E u \in Urls :
          fetch' = [fetch EXCEPT ![s].state = "running", ![s].url = u, ![s].listed = u]
     \/ End(s, "failed", {})

Asks(s) == fetch[s].state = "running"

Again(s) ==
  fetch' = [fetch EXCEPT ![s].attempt = @ + 1, ![s].requests = @ + 1]

\* Mutant: any port will do.
SafeRedirectAnyPort(from, to) == to.scheme = "https"

\* parse_source_redirect: HTTPS, and the port stays, but for 80 to 443.
SafeRedirect(from, to) ==
  /\ to.scheme = "https"
  /\ \/ from.port = to.port
     \/ from.scheme = "http" /\ from.port = 80 /\ to.port = 443

\* Mutant: a redirect is not counted.
FollowUncounted(s, to) ==
  fetch' = [fetch EXCEPT ![s].url = to, ![s].attempt = 0, ![s].requests = @ + 1]

\* A redirect starts a new series of attempts.
Follow(s, to) ==
  fetch' = [fetch EXCEPT ![s].url = to, ![s].hops = @ + 1, ![s].attempt = 0,
                         ![s].requests = @ + 1]

\* The location may be missing, malformed, with credentials or at a private
\* address: then, as for an unsafe one, the source fails.
Redirected(s) ==
  /\ Asks(s)
  /\ \/ /\ fetch[s].hops # MaxRedirects
        /\ \E to \in Urls : SafeRedirect(fetch[s].url, to) /\ Follow(s, to)
     \/ End(s, "failed", {})

\* 408, 425, 429, a server error, or no answer at all.
Busy(s) ==
  /\ Asks(s)
  /\ IF fetch[s].attempt < Retries THEN Again(s) ELSE End(s, "failed", {})

\* 404 and 410.
Gone(s) == Asks(s) /\ End(s, "gone", {})

\* Any other status, a body above MAX_SOURCE_BYTES or one that breaks off:
\* what was read of it is dropped.
Refused(s) == Asks(s) /\ End(s, "failed", {})

Delivered(s) == Asks(s) /\ \E body \in Bodies : End(s, "success", body)

FetchStep(s) ==
  Start(s) \/ Redirected(s) \/ Busy(s) \/ Gone(s) \/ Refused(s) \/ Delivered(s)

AllFetched == \A s \in Sources : fetch[s].state \in Ended

-----------------------------------------------------------------------------
\* Attempts start anew with every redirect, and still a source is never asked
\* more than (Retries + 1) * (MaxRedirects + 1) times: the requests so far fit
\* in the series of attempts behind it and the one under way.
RequestsBounded ==
  \A s \in Sources :
    fetch[s].requests <= fetch[s].hops * (Retries + 1) + fetch[s].attempt

\* However many redirects a source takes, it is asked at the port it was listed
\* with, or at 443 in place of 80, and after the first one over HTTPS only.
RedirectsStay ==
  \A s \in Sources :
    LET f == fetch[s] IN
    f.url # f.listed => /\ f.url.scheme = "https"
                        /\ \/ f.url.port = f.listed.port
                           \/ f.url.port = 443 /\ f.listed.port = 80
                                               /\ f.listed.scheme = "http"

\* Redirects and retries together neither ask without end nor lead elsewhere.
SourcesAskedSafely == RequestsBounded /\ RedirectsStay
=============================================================================
