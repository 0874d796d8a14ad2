---------------------------- MODULE MCPypiProxy ----------------------------
(* TLC instances of PypiProxy.                                              *)
EXTENDS PypiProxy, TLC
CONSTANTS c1, c2
OneOrTwoBytes == c1 :> 1 @@ c2 :> 2
(* The page gives the sha256 of a file in the JSON object around the link,  *)
(* later another one in the fragment; two more links are left as they are.  *)
Href(fragment, hash, origin) ==
  [url |-> "wheel", fragment |-> fragment, hash |-> hash, origin |-> origin]
MCLinks == {Href(NoDigest, c1, "allowed"), Href(c2, NoDigest, "allowed"),
            Href(c1, c2, "allowed"), Href(c1, NoDigest, "other")}
Client(accept, agent) == "Accept" :> accept @@ "User-Agent" :> agent
MCClients == {Client("html", "pip"), Client("json", "pip"), Client("html", "uv")}
MCVaries == {{}, {"Accept"}, {"Accept-Encoding", "User-Agent"}}
(* Two uploads beside a page, an upload beside two pages, each with a crash *)
(* or a foreign file; a page beside two files.                              *)
Budget(uploads, pages, requests, mishaps) ==
  [uploads |-> uploads, pages |-> pages, files |-> requests, mishaps |-> mishaps]
MCBudgets == {Budget(2, 1, 0, 1), Budget(1, 2, 0, 1), Budget(0, 1, 2, 0)}
CrashBudgets == {Budget(2, 0, 0, 1)}
MCSizes == {3}
MCFreeReadings == {9}
(* The bypass counters feed back into nothing, and neither does the key a   *)
(* handler locked last.                                                     *)
Observed == <<ledger, files, upload, phase, reader, aux, entry, gatePhase, req, hit>>
Symmetry == Permutations(Holders) \cup Permutations(Files) \cup Permutations(Readers)
=============================================================================
