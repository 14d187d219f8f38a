----------------------------- MODULE HttpGateway -----------------------------
(***************************************************************************)
(* The HTTP gateway (http_gateway.py): a handler thread per request serves *)
(* the files of SERVED_DIR, fetches a missing one from the original host   *)
(* and keeps it, and stores the uploads clients are allowed to make.       *)
(*                                                                         *)
(* Handlers share the directory without a lock.  A file is written in      *)
(* place: open truncates it, then the body is written from offset 0, so a  *)
(* handler is cut there, and where it waits for the network.  A body is a  *)
(* sequence of blocks, each the name of the upload or original it is from. *)
(* Requests for different keys share nothing but the slots: a behaviour is *)
(* about one key.                                                          *)
(*                                                                         *)
(* A definition without a comment of its own, just before one that has the *)
(* same parameters, is a mutant of it.                                     *)
(***************************************************************************)
EXTENDS Integers, Sequences

CONSTANTS
  Handler,    \* the handler slots, MAX_CONCURRENT_HANDLERS of them
  Hosts,      \* UPSTREAM_ALLOWED_HOSTS
  Uploads,    \* bound: the uploads clients make, each once
  MaxFaults   \* bound: crashes of the process and failures of the disk

None == "none"
Elsewhere == "elsewhere"   \* a host that is not one of Hosts

ASSUME GatewayAssumption ==
  /\ MaxFaults \in Nat
  /\ Uploads \cap (Hosts \cup {"absent", None, Elsewhere}) = {}
  /\ Hosts \cap {"absent", None, Elsewhere} = {}

(* Keys are paths.  A profile may be uploaded, the others may not.         *)
Profile == <<"profiles", "profile.21">>
Asset == <<"level">>
Huge == <<"movie">>
Keys == {Profile, Asset, Huge}

(* What host n has under a key, redirects within Hosts followed, and       *)
(* MAX_UPSTREAM_BYTES.                                                     *)
Size(k) == IF k = Asset THEN 2 ELSE IF k = Profile THEN 3 ELSE 4
Original(n, k) == [i \in 1 .. Size(k) |-> n]
MaxUpstream == 3
Fits(k) == Size(k) <= MaxUpstream
Whole(v) == <<v, v>>
Absent == <<"absent">>

VARIABLES
  key,       \* the key the requests are about
  file,      \* what SERVED_DIR holds under it
  failed,    \* hosts with a failure for it in _upstream_fail_cache, not too old
  st,        \* where a handler is
  req,       \* its request and local variables
  unused,    \* uploads not made yet
  faults,    \* crashes and failures of the disk so far
  damaged,   \* history: the last body written to it was not whole, or its
             \* write was cut or overlapped another
  settled    \* history: the upload it has held since that was stored whole
             \* with no other handler about to write

vars == <<key, file, failed, st, req, unused, faults, damaged, settled>>

NoRequest == [put |-> FALSE, host |-> None, body |-> <<>>, lapped |-> FALSE,
              known |-> FALSE, found |-> FALSE]

Writing == {h \in Handler : st[h] = "write"}
(* Handlers that have found the key missing and may still write it.        *)
Fetching == {h \in Handler : ~ req[h].put /\ st[h] \in {"check", "fetch", "open", "write"}}

(* put_key_from_path: the key of a path-style upload is what follows the   *)
(* bucket.  PUT_KEY_ALLOWLIST: uploads may only go to these keys.          *)
KeyFromPath(path) == IF Len(path) >= 2 THEN Tail(path) ELSE path
AnyKey(k) == TRUE
PutAllowed(k) == k = Profile

(* The bytes of a file after body is written over them from the start.     *)
Overwritten(old, body) ==
  [i \in 1 .. (IF Len(old) > Len(body) THEN Len(old) ELSE Len(body)) |->
     IF i <= Len(body) THEN body[i] ELSE old[i]]

Beginning(body, n) == SubSeq(body, 1, n)

Goto(h, l, r) == st' = [st EXCEPT ![h] = l] /\ req' = [req EXCEPT ![h] = r]

(* A fault of the machine: the process dies, or the disk refuses.          *)
Fault == faults < MaxFaults /\ faults' = faults + 1

-----------------------------------------------------------------------------
Init == /\ key \in Keys
        /\ file = Absent
        /\ failed = {}
        /\ st = [h \in Handler |-> "idle"]
        /\ req = [h \in Handler |-> NoRequest]
        /\ unused = Uploads
        /\ faults = 0
        /\ damaged = FALSE
        /\ settled = None

(* The accept loop takes a free slot for a GET with Host header n: the     *)
(* client names the host, whichever its path is from.                      *)
Get(h, n) ==
  /\ st[h] = "idle"
  /\ Goto(h, "lookup", [NoRequest EXCEPT !.host = n, !.known = file # Absent])
  /\ UNCHANGED <<key, file, failed, unused, faults, damaged, settled>>

(* An upload, with its body as far as it arrived before the connection     *)
(* closed or timed out.  The client is told 200 whatever happens to it.    *)
Put(h, path, v, body) ==
  /\ st[h] = "idle"
  /\ v \in unused /\ unused' = unused \ {v}
  /\ IF PutAllowed(KeyFromPath(path))
     THEN Goto(h, "open", [NoRequest EXCEPT !.put = TRUE, !.body = body])
     ELSE Goto(h, "answer", [NoRequest EXCEPT !.put = TRUE])
  /\ UNCHANGED <<key, file, failed, faults, damaged, settled>>

(* A key that is there is served; otherwise it is fetched, if it may be.   *)
AlwaysFetch(h) == TRUE
Misses(h) == file = Absent
Lookup(h) ==
  /\ st[h] = "lookup"
  /\ IF Misses(h) /\ req[h].host \in Hosts
     THEN Goto(h, "check", req[h])
     ELSE Goto(h, "read", [req[h] EXCEPT !.host = None])
  /\ UNCHANGED <<key, file, failed, unused, faults, damaged, settled>>

(* try_upstream_fetch: not if it failed a short while ago.                 *)
CheckFailures(h) ==
  /\ st[h] = "check"
  /\ IF req[h].host \in failed
     THEN Goto(h, "read", [req[h] EXCEPT !.host = None])
     ELSE Goto(h, "fetch", req[h])
  /\ UNCHANGED <<key, file, failed, unused, faults, damaged, settled>>

(* The body has come, up to the byte the host ended it at: a read with an  *)
(* amount does not raise for one that is short of its Content-Length.      *)
Fetched(h) ==
  LET n == req[h].host IN
  /\ st[h] = "fetch"
  /\ \E end \in 0 .. Size(key) :
       /\ end <= MaxUpstream
       /\ Goto(h, "open", [req[h] EXCEPT !.host = None,
                                         !.body = Beginning(Original(n, key), end)])
  /\ failed' = failed \ {n}
  /\ UNCHANGED <<key, file, unused, faults, damaged, settled>>

(* No answer, an answer that fails, or too long a one.                     *)
StraightToFallback == "answer"
AfterFailure == "read"
FetchFails(h) ==
  /\ st[h] = "fetch"
  /\ failed' = failed \cup {req[h].host}
  /\ Goto(h, AfterFailure, [req[h] EXCEPT !.host = None, !.known = file # Absent])
  /\ UNCHANGED <<key, file, unused, faults, damaged, settled>>

(* What http.client raises beside OSError is not caught (a chunked body    *)
(* that is cut): no failure is noted, and handle drops the connection.     *)
FetchRaises(h) ==
  /\ st[h] = "fetch"
  /\ Goto(h, "idle", NoRequest)
  /\ UNCHANGED <<key, file, failed, unused, faults, damaged, settled>>

(* open(file_path, "wb").                                                  *)
Reused == IF file = Absent THEN <<>> ELSE file
Truncated == <<>>
Open(h) ==
  /\ st[h] = "open"
  /\ file' = Truncated
  /\ st' = [st EXCEPT ![h] = "write"]
  /\ req' = [g \in Handler |->
               IF g \in Writing \/ (g = h /\ Writing # {})
               THEN [req[g] EXCEPT !.lapped = TRUE] ELSE req[g]]
  /\ settled' = IF req[h].put THEN None ELSE settled
  /\ UNCHANGED <<key, failed, unused, faults, damaged>>

(* f.write and close.                                                      *)
WriteFile(h) ==
  LET body == req[h].body
      size == IF req[h].put THEN 2 ELSE Size(key)
      clean == ~ req[h].lapped /\ Len(body) = size
  IN
  /\ st[h] = "write"
  /\ file' = Overwritten(file, body)
  /\ damaged' = ~ clean
  /\ settled' = IF req[h].put /\ clean /\ Fetching = {} THEN body[1] ELSE settled
  /\ Goto(h, IF req[h].put THEN "answer" ELSE "read",
             [req[h] EXCEPT !.body = <<>>, !.lapped = FALSE])
  /\ UNCHANGED <<key, failed, unused, faults>>

(* The disk refuses to open the file, or to take the body to its end:      *)
(* handle drops the connection, and what is in the file stays there.       *)
OpenRaises(h) ==
  /\ Fault
  /\ st[h] = "open"
  /\ Goto(h, "idle", NoRequest)
  /\ UNCHANGED <<key, file, failed, unused, damaged, settled>>

WriteRaises(h) ==
  /\ Fault
  /\ st[h] = "write"
  /\ \E end \in 0 .. Len(req[h].body) : file' = Overwritten(file, Beginning(req[h].body, end))
  /\ damaged' = TRUE
  /\ Goto(h, "idle", NoRequest)
  /\ UNCHANGED <<key, failed, unused, settled>>

(* Whatever became of the fetch, a file that is there now is served.       *)
ReadFile(h) ==
  /\ st[h] = "read"
  /\ Goto(h, "answer", [req[h] EXCEPT !.found = file # Absent])
  /\ UNCHANGED <<key, file, failed, unused, faults, damaged, settled>>

(* Log, send, give the slot back, close.                                   *)
Answer(h) ==
  /\ st[h] = "answer"
  /\ Goto(h, "idle", NoRequest)
  /\ UNCHANGED <<key, file, failed, unused, faults, damaged, settled>>

(* UPSTREAM_FAIL_CACHE_TTL passes.                                         *)
Never(n) == FALSE
MayBeTooOld(n) == n \in failed
Expire(n) ==
  /\ MayBeTooOld(n)
  /\ failed' = failed \ {n}
  /\ UNCHANGED <<key, file, st, req, unused, faults, damaged, settled>>

(* The process dies and is started again: the directory stays.             *)
Restart ==
  /\ Fault
  /\ failed' = {}
  /\ st' = [h \in Handler |-> "idle"] /\ req' = [h \in Handler |-> NoRequest]
  /\ damaged' = (damaged \/ Writing # {})
  /\ UNCHANGED <<key, file, unused, settled>>

Step(h) == \/ Lookup(h) \/ CheckFailures(h) \/ Fetched(h) \/ FetchFails(h)
           \/ FetchRaises(h) \/ Open(h) \/ OpenRaises(h) \/ WriteFile(h)
           \/ WriteRaises(h) \/ ReadFile(h) \/ Answer(h)

Requests(h) ==
  \/ \E n \in Hosts \cup {Elsewhere, None} : Get(h, n)
  \/ \E path \in {key, <<"bucket">> \o key}, v \in unused :
       \E body \in {<<v>>, Whole(v)} : Put(h, path, v, body)

Next == \/ \E h \in Handler : Requests(h) \/ Step(h)
        \/ \E n \in Hosts : Expire(n)
        \/ Restart

Spec == Init /\ [][Next]_vars

(* Threads are scheduled and the network answers or times out; failures    *)
(* are forgotten after their time.                                         *)
FairSpec == /\ Spec
            /\ \A h \in Handler : WF_vars(Step(h))
            /\ \A n \in Hosts : WF_vars(Expire(n))

-----------------------------------------------------------------------------
(* The type invariant.  No file is larger than what is fetched at most.    *)
Block == Uploads \cup Hosts
Body == {b \in Seq(Block) : Len(b) <= MaxUpstream}
Request == [put : BOOLEAN, host : Hosts \cup {Elsewhere, None}, body : Body,
            lapped : BOOLEAN, known : BOOLEAN, found : BOOLEAN]
States == {"idle", "lookup", "check", "fetch", "open", "write", "read", "answer"}

TypeOK ==
  /\ key \in Keys
  /\ file \in Body \cup {Absent}
  /\ failed \subseteq Hosts /\ damaged \in BOOLEAN
  /\ st \in [Handler -> States]
  /\ req \in [Handler -> Request]
  /\ unused \subseteq Uploads /\ faults \in Nat
  /\ settled \in Uploads \cup {None}

(* An upload that was stored whole while no other handler was about to     *)
(* write that key stays what a GET of the key reads, until the next upload *)
(* of it: no fetch replaces it with the original (http_gateway.py:267).    *)
UploadsRoundTrip == settled # None => file = Whole(settled)

(* A file is damaged, one that is no whole upload and no whole file of one *)
(* allowed host, only while it is being written, or when the body last     *)
(* written was already cut, by the client or by the host (190), or its     *)
(* write was, by the disk or by the death of the process, or overlapped    *)
(* another (http_gateway.py:267, 422).  Fetches of one path from several   *)
(* hosts, and the leftovers of longer files, damage nothing.               *)
DamageHasACause ==
  Writing = {} /\ ~ damaged =>
    file \in {Absent} \cup {Original(n, key) : n \in Hosts} \cup {Whole(v) : v \in Uploads}

(* Where clients may not upload, every block of the file is what an        *)
(* allowed host has there: nothing of an upload, nothing of a host that    *)
(* the client named and that is not allowed (http_gateway.py:174, 222).    *)
AssetsAreOriginals ==
  key # Profile /\ file # Absent =>
    Len(file) <= Size(key)
      /\ \A i \in 1 .. Len(file) : \E n \in Hosts : file[i] = Original(n, key)[i]

(* A client is told that there is nothing only if there was nothing when   *)
(* it asked, nor when the fetch on its behalf came back: what others have  *)
(* stored meanwhile is served (http_gateway.py:428).                       *)
NoFalseMiss ==
  \A h \in Handler : st[h] = "answer" /\ ~ req[h].put /\ req[h].known => req[h].found

(* A file that fits is there in the end if, from some time on, a host      *)
(* sends it whole whenever it is asked, and clients go on asking for it    *)
(* there: failures the host had before, and those of other hosts, are not  *)
(* held against it for ever (http_gateway.py:180).                         *)
Asked(n) == \E h \in Handler : st[h] = "lookup" /\ req[h].host = n
Serves(n) ==
  \A h \in Handler :
    st[h] = "fetch" /\ req[h].host = n =>
      \/ st'[h] = "fetch"
      \/ st'[h] = "open" /\ req'[h].body = Original(n, key)
OriginalArrives ==
  \A n \in Hosts :
    <>[][Serves(n)]_vars /\ []<> Asked(n) => <> (file # Absent \/ ~ Fits(key))
=============================================================================
