------------------------------- MODULE WebTools -------------------------------
(***************************************************************************)
(* A call of web_fetch_tool or web_search_tool (app/tools/web_tools.py):   *)
(* the tool follows every redirection itself, and a search fetches its     *)
(* results.  Calls share nothing, so there is one.  An address is what the *)
(* policy (app/tools/security.py) looks at, and keeps it during the call.  *)
(***************************************************************************)
EXTENDS Naturals, Sequences

CONSTANTS
  Urls,                      \* addresses: [scheme, domain, private]
  Schemes, Domains,          \* allowed_schemes, allowed_domains
  BlockPrivate,              \* block_private_networks
  MaxRedirects,              \* max_redirects
  MaxResults, MaxHits        \* max_results; results of the search engine (bound)

ASSUME WebAssumption == MaxRedirects \in Nat /\ MaxResults \in Nat

VARIABLES
  call,        \* what the call does next, or how it ended
  searches,    \* it is a search
  requested,   \* the addresses requested for the fetch in progress
  current,     \* the address it asks for next
  hits,        \* results of the search engine that are still to be taken
  found,       \* those it had (history)
  results      \* results of the search

webVars == <<call, searches, requested, current, hits, found, results>>

IsDomainAllowed(url) ==
  url.scheme \in Schemes /\ url.domain # "" /\ (url.domain \in Domains \/ "*" \in Domains)
IsUrlSafe(url) == IsDomainAllowed(url) /\ ~(BlockPrivate /\ url.private)

WebInit ==
  /\ call = "new" /\ searches = FALSE
  /\ requested = <<>> /\ current \in Urls
  /\ hits = 0 /\ found = 0 /\ results = 0

(* The fetch is over.  One of its own ends the call; one for a result of a  *)
(* search adds that result, whatever became of the fetch.                   *)
Ends(outcome) ==
  IF searches
  THEN /\ results' = results + 1
       /\ call' = IF results' >= MaxResults \/ hits' = 0 THEN "answered" ELSE "hit"
  ELSE call' = outcome /\ UNCHANGED results

Begins(url) == call' = "get" /\ current' = url /\ requested' = <<>> /\ UNCHANGED results

(* WebFetchTool.run: an address that is not allowed is refused, a request   *)
(* without one fails.                                                       *)
Fetch ==
  /\ call = "new"
  /\ \/ \E url \in Urls : IsUrlSafe(url) /\ Begins(url)
     \/ /\ call' = "failed" /\ UNCHANGED <<current, requested, results>>
  /\ UNCHANGED <<searches, hits, found>>

(* One round of _safe_get: a redirection is followed, refused, or one too   *)
(* many; a page is the answer if its headers and its type are accepted.     *)
GetOneMore ==                                  \* mutant: only redirections are counted
  /\ call = "get"
  /\ UNCHANGED <<searches, hits, found>>
  /\ requested' = Append(requested, current)
  /\ \/ \E target \in Urls :
          /\ IsUrlSafe(target) /\ Len(requested) <= MaxRedirects
          /\ current' = target /\ UNCHANGED <<call, results>>
     \/ \E outcome \in {"answered", "failed"} : Ends(outcome) /\ UNCHANGED current
Get ==
  /\ call = "get"
  /\ UNCHANGED <<searches, hits, found>>
  /\ requested' = Append(requested, current)
  /\ \/ \E target \in Urls :
          /\ IsUrlSafe(target) /\ Len(requested) < MaxRedirects
          /\ current' = target /\ UNCHANGED <<call, results>>
     \/ \E outcome \in {"answered", "failed"} : Ends(outcome) /\ UNCHANGED current

(* WebSearchTool.run: the search engine answers with some results, or the   *)
(* request raises.                                                          *)
SearchWeb(n) ==
  /\ call = "new"
  /\ searches' = TRUE /\ hits' = n /\ found' = n
  /\ call' \in IF n = 0 THEN {"answered", "failed"} ELSE {"hit"}
  /\ UNCHANGED <<requested, current, results>>

(* The next result is fetched if it may be, otherwise taken as it is. *)
TakeHit ==
  /\ call = "hit"
  /\ hits' = hits - 1
  /\ \/ \E url \in Urls : IsUrlSafe(url) /\ Begins(url)
     \/ Ends("answered") /\ UNCHANGED <<current, requested>>
  /\ UNCHANGED <<searches, found>>

WebNext == Fetch \/ Get \/ (\E n \in 0..MaxHits : SearchWeb(n)) \/ TakeHit

WebSpec == WebInit /\ [][WebNext]_webVars
------------------------------------------------------------------------------
(* A fetch makes at most MaxRedirects + 1 requests, and none that the       *)
(* policy does not allow, wherever it is redirected (web_tools.py:61).  A   *)
(* search has as many results as it may have or as there are, also when     *)
(* fetching them fails; it fails only if the engine itself does.  (Asked    *)
(* for none it still has one, web_tools.py:138.)                            *)
WebIsBounded ==
  /\ Len(requested) <= MaxRedirects + 1
  /\ \A n \in DOMAIN requested : IsUrlSafe(requested[n])
  /\ searches /\ call = "answered" =>
       results = IF found = 0 THEN 0 ELSE IF MaxResults = 0 THEN 1
                 ELSE IF found < MaxResults THEN found ELSE MaxResults
  /\ searches /\ call = "failed" => found = 0
==============================================================================
